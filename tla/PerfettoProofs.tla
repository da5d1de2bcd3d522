---------------------------- MODULE PerfettoProofs ----------------------------
(***************************************************************************)
(* What the conversion promises for all traces and every capacity of the   *)
(* channel, whenever Ctrl-C comes and whichever write fails.               *)
(*   Part 1: after a normal exit the file holds every packet that was sent *)
(*   Part 2: no slice is ended that is not open.                           *)
(*   Part 3: no sequence goes back in time.                                *)
(*   Part 4: every string a packet refers to by number has been defined.   *)
(*   Part 5: read back, the slices and data rates are those of the trace.  *)
(***************************************************************************)
EXTENDS Perfetto, FiniteSetTheorems, SequenceTheorems, WellFoundedInduction, TLAPS

IsSeq(s) == \E S : s \in Seq(S)

(***************************************************************************)
(* The packets on their way make up the difference between what was sent   *)
(* and what is in the file, until a failing write loses them; and the      *)
(* writing thread does not end normally before it has taken them all.      *)
(***************************************************************************)
Delivered ==
  /\ IsSeq(channel) /\ IsSeq(file) /\ IsSeq(sent)
  /\ writer # "panicked" => sent = file \o channel
  /\ writer = "ended" => channel = <<>>
  /\ phase = "succeeded" => writer = "ended"
  /\ phase = "setup" => writer = "none"

\* Appending to the second of two sequences appends to their concatenation.
LEMMA AppendToConcat ==
  ASSUME NEW s, NEW t, NEW e, IsSeq(s), IsSeq(t)
  PROVE  s \o Append(t, e) = Append(s \o t, e)
<1>1. PICK S, T : s \in Seq(S) /\ t \in Seq(T)
  BY DEF IsSeq
<1>2. s \in Seq(S \cup T \cup {e}) /\ t \in Seq(S \cup T \cup {e})
  BY <1>1
<1> QED
  BY <1>2

\* Moving the head of the second of two sequences to the end of the first
\* leaves their concatenation as it was.
LEMMA MoveHead ==
  ASSUME NEW s, NEW t, IsSeq(s), IsSeq(t), t # <<>>
  PROVE  Append(s, Head(t)) \o Tail(t) = s \o t
<1>1. PICK S, T : s \in Seq(S) /\ t \in Seq(T)
  BY DEF IsSeq
<1>2. s \in Seq(S \cup T) /\ t \in Seq(S \cup T)
  BY <1>1
<1> QED
  BY <1>2

\* Sequences stay sequences when they grow, shrink or are joined.
LEMMA IsSeqOperations ==
  /\ IsSeq(<<>>)
  /\ \A s, e : IsSeq(s) => IsSeq(Append(s, e))
  /\ \A s : IsSeq(s) /\ s # <<>> => IsSeq(Tail(s))
  /\ \A s, t : IsSeq(s) /\ IsSeq(t) => IsSeq(s \o t)
<1>1. IsSeq(<<>>)
  <2>1. <<>> \in Seq({})
    OBVIOUS
  <2> QED
    BY <2>1 DEF IsSeq
<1>2. ASSUME NEW s, NEW e, IsSeq(s)
      PROVE  IsSeq(Append(s, e))
  <2>1. PICK S : s \in Seq(S)
    BY <1>2 DEF IsSeq
  <2>2. s \in Seq(S \cup {e})
    BY <2>1
  <2>3. Append(s, e) \in Seq(S \cup {e})
    BY <2>2
  <2> QED
    BY <2>3 DEF IsSeq
<1>3. ASSUME NEW s, IsSeq(s), s # <<>>
      PROVE  IsSeq(Tail(s))
  <2>1. PICK S : s \in Seq(S)
    BY <1>3 DEF IsSeq
  <2>2. Tail(s) \in Seq(S)
    BY <1>3, <2>1
  <2> QED
    BY <2>2 DEF IsSeq
<1>4. ASSUME NEW s, NEW t, IsSeq(s), IsSeq(t)
      PROVE  IsSeq(s \o t)
  <2>1. PICK S, T : s \in Seq(S) /\ t \in Seq(T)
    BY <1>4 DEF IsSeq
  <2>2. s \in Seq(S \cup T) /\ t \in Seq(S \cup T)
    BY <2>1
  <2>3. s \o t \in Seq(S \cup T)
    BY <2>2
  <2> QED
    BY <2>3 DEF IsSeq
<1> QED
  BY <1>1, <1>2, <1>3, <1>4

-----------------------------------------------------------------------------
LEMMA DeliveredInit == Init => Delivered
<1> SUFFICES ASSUME Init PROVE Delivered
  OBVIOUS
<1>1. IsSeq(<<>>)
  BY IsSeqOperations
<1>2. <<>> = <<>> \o <<>>
  OBVIOUS
<1> QED
  BY <1>1, <1>2 DEF Init, Delivered

\* The steps that leave the channel, the file and the writing thread alone, and
\* do not end the program normally.
LEMMA QuietStep ==
  ASSUME Delivered, UNCHANGED <<writerVars, sent>>,
         phase' = "succeeded" => phase = "succeeded",
         phase' = "setup" => phase = "setup"
  PROVE  Delivered'
BY DEF Delivered, IsSeq, writerVars

LEMMA DeliveredStep == Delivered /\ [Next]_vars => Delivered'
<1> SUFFICES ASSUME Delivered, [Next]_vars PROVE Delivered'
  OBVIOUS
<1>1. CASE CreateFile
  BY <1>1 DEF CreateFile, Delivered, IsSeq
<1>2. CASE CreateFileFails
  BY <1>2, QuietStep DEF CreateFileFails
<1>3. CASE Header
  BY <1>3, QuietStep DEF Header, Unshared
<1>4. CASE BeginRoot
  BY <1>4, QuietStep DEF BeginRoot, Unshared
<1>5. CASE ProcessChunk
  BY <1>5, QuietStep DEF ProcessChunk, Unshared
<1>6. CASE EndFrame
  BY <1>6, QuietStep DEF EndFrame, Unshared
<1>7. CASE ReportEvent
  BY <1>7, QuietStep DEF ReportEvent, Unshared
<1>8. CASE FinishConversion
  BY <1>8, QuietStep DEF FinishConversion
<1>9. CASE Send
  <2>1. IsSeq(channel') /\ IsSeq(sent')
    BY <1>9, IsSeqOperations DEF Send, Delivered
  <2>2. file' \o channel' = Append(file \o channel, Head(outbox))
    BY <1>9, AppendToConcat DEF Send, Delivered
  <2> QED
    BY <1>9, <2>1, <2>2 DEF Send, Delivered
<1>10. CASE SendFails
  BY <1>10, QuietStep DEF SendFails
<1>11. CASE Join
  BY <1>11 DEF Join, Delivered, IsSeq, writerVars
<1>12. CASE Write
  <2>1. IsSeq(channel') /\ IsSeq(file')
    BY <1>12, IsSeqOperations DEF Write, Delivered
  <2>2. file' \o channel' = file \o channel
    BY <1>12, MoveHead DEF Write, Delivered
  <2> QED
    BY <1>12, <2>1, <2>2 DEF Write, Delivered
<1>13. CASE WriteFails
  <2>1. IsSeq(channel') /\ IsSeq(file')
    BY <1>13, IsSeqOperations DEF WriteFails, Delivered
  <2> QED
    BY <1>13, <2>1 DEF WriteFails, Delivered
<1>14. CASE WriterEnds
  BY <1>14 DEF WriterEnds, Delivered, IsSeq
<1>15. CASE CtrlC
  BY <1>15, QuietStep DEF CtrlC
<1>16. CASE Terminated \/ UNCHANGED vars
  BY <1>16, QuietStep DEF Terminated, vars
<1> QED
  BY <1>1, <1>2, <1>3, <1>4, <1>5, <1>6, <1>7, <1>8, <1>9, <1>10, <1>11, <1>12, <1>13,
     <1>14, <1>15, <1>16 DEF Next, Convert, Writer

(***************************************************************************)
(* The theorem.                                                            *)
(***************************************************************************)

\* A normal exit means that the file is complete (the expect on the writer's
\* join in convert_to_perfetto and the unwraps on send).
THEOREM SuccessMeansCompleteAlways == Spec => []SuccessMeansComplete
<1>1. Delivered => SuccessMeansComplete
  <2> SUFFICES ASSUME Delivered, phase = "succeeded" PROVE file = sent
    BY DEF SuccessMeansComplete
  <2>1. sent = file \o <<>>
    BY DEF Delivered
  <2>2. PICK S : file \in Seq(S)
    BY DEF Delivered, IsSeq
  <2> QED
    BY <2>1, <2>2
<1> QED
  BY <1>1, DeliveredInit, DeliveredStep, PTL DEF Spec

-----------------------------------------------------------------------------
(***************************************************************************)
(* Part 2: slices are balanced.                                            *)
(*                                                                         *)
(* The packets that were sent and those that the current piece is about to *)
(* send make up the stream; sending one of them leaves it as it is.        *)
(***************************************************************************)
Stream == sent \o outbox

Matching(s, kind, seq, n) == {i \in 1 .. n : s[i].kind = kind /\ s[i].seq = seq}

CountIn(s, kind, seq, n) == Cardinality(Matching(s, kind, seq, n))

OpenIn(s, seq, n) == CountIn(s, "Begin", seq, n) - CountIn(s, "End", seq, n)

-----------------------------------------------------------------------------
(***************************************************************************)
(* Counting packets.                                                       *)
(***************************************************************************)

LEMMA CountFinite ==
  ASSUME NEW s, NEW kind, NEW seq, NEW n \in Nat
  PROVE  IsFiniteSet(Matching(s, kind, seq, n)) /\ CountIn(s, kind, seq, n) \in Nat
  <1>1. Matching(s, kind, seq, n) \in SUBSET (1 .. n) /\ IsFiniteSet(1 .. n)
    BY FS_Interval DEF Matching
  <1>2. IsFiniteSet(Matching(s, kind, seq, n))
    BY <1>1, FS_Subset
  <1>. QED
    BY <1>2, FS_CardinalityType DEF CountIn

\* Counting starts at nothing and goes on packet by packet.
LEMMA CountNext ==
  ASSUME NEW s, NEW kind, NEW seq, NEW n \in Nat
  PROVE  /\ CountIn(s, kind, seq, 0) = 0
         /\ s[n + 1].kind = kind /\ s[n + 1].seq = seq =>
              CountIn(s, kind, seq, n + 1) = CountIn(s, kind, seq, n) + 1
         /\ ~(s[n + 1].kind = kind /\ s[n + 1].seq = seq) =>
              CountIn(s, kind, seq, n + 1) = CountIn(s, kind, seq, n)
  <1>1. Matching(s, kind, seq, 0) = {}
    BY DEF Matching
  <1>2. IsFiniteSet(Matching(s, kind, seq, n))
    BY CountFinite
  <1>3. ASSUME s[n + 1].kind = kind /\ s[n + 1].seq = seq
        PROVE  CountIn(s, kind, seq, n + 1) = CountIn(s, kind, seq, n) + 1
    <2>1. /\ Matching(s, kind, seq, n + 1) = Matching(s, kind, seq, n) \cup {n + 1}
          /\ n + 1 \notin Matching(s, kind, seq, n)
      BY <1>3 DEF Matching
    <2>. QED
      BY <1>2, <2>1, FS_AddElement DEF CountIn
  <1>4. ASSUME ~(s[n + 1].kind = kind /\ s[n + 1].seq = seq)
        PROVE  CountIn(s, kind, seq, n + 1) = CountIn(s, kind, seq, n)
    <2>1. Matching(s, kind, seq, n + 1) = Matching(s, kind, seq, n)
      BY <1>4 DEF Matching
    <2>. QED
      BY <2>1 DEF CountIn
  <1>5. CountIn(s, kind, seq, 0) = 0
    BY <1>1, FS_EmptySet DEF CountIn
  <1>. QED
    BY <1>3, <1>4, <1>5

\* A Begin opens a slice of its sequence, an End closes one.
LEMMA OpenNext ==
  ASSUME NEW s, NEW seq, NEW n \in Nat
  PROVE  /\ OpenIn(s, seq, 0) = 0
         /\ OpenIn(s, seq, n) \in Int
         /\ s[n + 1].seq # seq => OpenIn(s, seq, n + 1) = OpenIn(s, seq, n)
         /\ s[n + 1].kind \notin {"Begin", "End"} => OpenIn(s, seq, n + 1) = OpenIn(s, seq, n)
         /\ s[n + 1].seq = seq /\ s[n + 1].kind = "Begin" =>
              OpenIn(s, seq, n + 1) = OpenIn(s, seq, n) + 1
         /\ s[n + 1].seq = seq /\ s[n + 1].kind = "End" =>
              OpenIn(s, seq, n + 1) = OpenIn(s, seq, n) - 1
  <1>1. /\ CountIn(s, "Begin", seq, n) \in Nat /\ CountIn(s, "End", seq, n) \in Nat
        /\ OpenIn(s, seq, n) \in Int
    BY CountFinite DEF OpenIn
  <1>2. CountIn(s, "Begin", seq, 0) = 0 /\ CountIn(s, "End", seq, 0) = 0
    BY CountNext
  <1>3. IF s[n + 1].kind = "Begin" /\ s[n + 1].seq = seq
        THEN CountIn(s, "Begin", seq, n + 1) = CountIn(s, "Begin", seq, n) + 1
        ELSE CountIn(s, "Begin", seq, n + 1) = CountIn(s, "Begin", seq, n)
    BY CountNext
  <1>4. IF s[n + 1].kind = "End" /\ s[n + 1].seq = seq
        THEN CountIn(s, "End", seq, n + 1) = CountIn(s, "End", seq, n) + 1
        ELSE CountIn(s, "End", seq, n + 1) = CountIn(s, "End", seq, n)
    BY CountNext
  <1>. QED
    BY <1>1, <1>2, <1>3, <1>4 DEF OpenIn

\* Sequences that agree on the first n packets have the same counts.
LEMMA CountSame ==
  ASSUME NEW s, NEW t, NEW seq, NEW n \in Nat, \A i \in 1 .. n : s[i] = t[i]
  PROVE  OpenIn(s, seq, n) = OpenIn(t, seq, n)
  <1>1. \A kind : Matching(s, kind, seq, n) = Matching(t, kind, seq, n)
    BY DEF Matching
  <1>. QED
    BY <1>1 DEF OpenIn, CountIn

\* What follows adds to what was counted before.
LEMMA CountShifted ==
  ASSUME NEW s, NEW t, NEW kind, NEW seq, NEW n \in Nat, NEW m \in Nat,
         \A i \in 1 .. m : s[n + i] = t[i]
  PROVE  CountIn(s, kind, seq, n + m) = CountIn(s, kind, seq, n) + CountIn(t, kind, seq, m)
  <1> DEFINE S == Matching(s, kind, seq, n)
             T == Matching(t, kind, seq, m)
             U == {i \in n + 1 .. n + m : s[i].kind = kind /\ s[i].seq = seq}
             f == [i \in T |-> n + i]
  <1>1. Matching(s, kind, seq, n + m) = S \cup U /\ S \cap U = {}
    BY DEF Matching
  <1>2. IsFiniteSet(S) /\ IsFiniteSet(T)
    BY CountFinite
  <1>3. \A i \in T : n + i \in U /\ i \in Nat
    BY DEF Matching
  <1>4. \A u \in U : u - n \in T /\ n + (u - n) = u
    BY DEF Matching
  <1> HIDE DEF S, T, U
  <1>5. \A i, j \in T : n + i = n + j => i = j
    BY <1>3
  <1>6. f \in [T -> U] /\ \A i \in T : f[i] = n + i
    BY <1>3
  <1> HIDE DEF f
  <1>7. f \in Bijection(T, U)
    <2>1. \A i, j \in T : f[i] = f[j] => i = j
      BY <1>5, <1>6
    <2>2. \A u \in U : \E i \in T : f[i] = u
      BY <1>4, <1>6
    <2>. QED
      BY <1>6, <2>1, <2>2 DEF Bijection, Injection, Surjection, IsInjective
  <1>8. IsFiniteSet(U) /\ Cardinality(U) = Cardinality(T)
    <2>1. ExistsBijection(T, U)
      BY <1>7 DEF ExistsBijection
    <2>. QED
      BY <1>2, <2>1, FS_Bijection
  <1>9. Cardinality(S \cup U) = Cardinality(S) + Cardinality(U) - Cardinality(S \cap U)
    BY <1>2, <1>8, FS_Union
  <1>10. Cardinality(S) \in Nat /\ Cardinality(T) \in Nat /\ Cardinality({}) = 0
    BY <1>2, FS_CardinalityType, FS_EmptySet
  <1>11. Cardinality(S \cup U) = Cardinality(S) + Cardinality(T)
    <2>1. Cardinality(S \cap U) = 0
      BY <1>1, <1>10
    <2>. QED
      BY <1>8, <1>9, <1>10, <2>1
  <1>12. /\ CountIn(s, kind, seq, n + m) = Cardinality(S \cup U)
         /\ CountIn(s, kind, seq, n) = Cardinality(S) /\ CountIn(t, kind, seq, m) = Cardinality(T)
    BY <1>1 DEF CountIn, S, T
  <1>. QED
    BY <1>11, <1>12

LEMMA OpenShifted ==
  ASSUME NEW s, NEW t, NEW seq, NEW n \in Nat, NEW m \in Nat,
         \A i \in 1 .. m : s[n + i] = t[i]
  PROVE  OpenIn(s, seq, n + m) = OpenIn(s, seq, n) + OpenIn(t, seq, m)
  <1>1. /\ CountIn(s, "Begin", seq, n + m) = CountIn(s, "Begin", seq, n) + CountIn(t, "Begin", seq, m)
        /\ CountIn(s, "End", seq, n + m) = CountIn(s, "End", seq, n) + CountIn(t, "End", seq, m)
    BY CountShifted
  <1>2. \A kind : CountIn(s, kind, seq, n) \in Nat /\ CountIn(t, kind, seq, m) \in Nat
    BY CountFinite
  <1>. QED
    BY <1>1, <1>2 DEF OpenIn

\* A sequence followed by another.
LEMMA Joined ==
  ASSUME NEW s, NEW t, IsSeq(s), IsSeq(t)
  PROVE  /\ IsSeq(s \o t)
         /\ Len(s \o t) = Len(s) + Len(t) /\ Len(s) \in Nat /\ Len(t) \in Nat
         /\ \A i \in 1 .. Len(s) : (s \o t)[i] = s[i]
         /\ \A i \in 1 .. Len(t) : (s \o t)[Len(s) + i] = t[i]
  <1>1. PICK S, T : s \in Seq(S) /\ t \in Seq(T)
    BY DEF IsSeq
  <1>2. s \in Seq(S \cup T) /\ t \in Seq(S \cup T)
    BY <1>1
  <1>3. PICK st : st = s \o t
    OBVIOUS
  <1>4. /\ Len(st) = Len(s) + Len(t) /\ Len(s) \in Nat /\ Len(t) \in Nat
        /\ \A i \in 1 .. Len(s) + Len(t) : st[i] = IF i <= Len(s) THEN s[i] ELSE t[i - Len(s)]
    BY <1>2, <1>3, ConcatProperties
  <1>5. /\ \A i \in 1 .. Len(s) : st[i] = s[i]
        /\ \A i \in 1 .. Len(t) : st[Len(s) + i] = t[i]
    <2>1. \A i \in 1 .. Len(s) : i \in 1 .. Len(s) + Len(t) /\ i <= Len(s)
      BY <1>4
    <2>2. \A i \in 1 .. Len(t) : /\ Len(s) + i \in 1 .. Len(s) + Len(t)
                                 /\ ~(Len(s) + i <= Len(s)) /\ Len(s) + i - Len(s) = i
      BY <1>4
    <2>. QED
      BY <1>4, <2>1, <2>2
  <1>6. IsSeq(st)
    BY <1>3, IsSeqOperations
  <1>. QED
    BY <1>3, <1>4, <1>5, <1>6

LEMMA OpenConcat ==
  ASSUME NEW s, NEW t, IsSeq(s), IsSeq(t), NEW seq
  PROVE  /\ \A n \in 0 .. Len(s) : OpenIn(s \o t, seq, n) = OpenIn(s, seq, n)
         /\ \A m \in 0 .. Len(t) :
              OpenIn(s \o t, seq, Len(s) + m) = OpenIn(s, seq, Len(s)) + OpenIn(t, seq, m)
  <1>1. PICK st : st = s \o t
    OBVIOUS
  <1>2. /\ Len(st) = Len(s) + Len(t) /\ Len(s) \in Nat /\ Len(t) \in Nat
        /\ \A i \in 1 .. Len(s) : st[i] = s[i]
        /\ \A i \in 1 .. Len(t) : st[Len(s) + i] = t[i]
    BY <1>1, Joined
  <1>3. ASSUME NEW n \in 0 .. Len(s)
        PROVE  OpenIn(st, seq, n) = OpenIn(s, seq, n)
    <2>1. n \in Nat /\ \A i \in 1 .. n : st[i] = s[i]
      BY <1>2
    <2>. QED
      BY <2>1, CountSame
  <1>4. ASSUME NEW m \in 0 .. Len(t)
        PROVE  OpenIn(st, seq, Len(s) + m) = OpenIn(s, seq, Len(s)) + OpenIn(t, seq, m)
    <2>1. m \in Nat /\ \A i \in 1 .. m : st[Len(s) + i] = t[i]
      BY <1>2
    <2>2. OpenIn(st, seq, Len(s) + m) = OpenIn(st, seq, Len(s)) + OpenIn(t, seq, m)
      <3>1. ASSUME NEW n \in Nat, n = Len(s), NEW k \in Nat, k = m
            PROVE  OpenIn(st, seq, n + k) = OpenIn(st, seq, n) + OpenIn(t, seq, k)
        <4>1. \A i \in 1 .. k : st[n + i] = t[i]
          BY <2>1, <3>1
        <4>. QED
          BY <4>1, OpenShifted
      <3>. QED
        BY <1>2, <2>1, <3>1
    <2>3. Len(s) \in 0 .. Len(s)
      BY <1>2
    <2>4. OpenIn(st, seq, Len(s)) = OpenIn(s, seq, Len(s))
      BY <1>3, <2>3
    <2>. QED
      BY <2>2, <2>4
  <1>. QED
    BY <1>1, <1>3, <1>4

-----------------------------------------------------------------------------
(***************************************************************************)
(* The pieces of the conversion.                                           *)
(***************************************************************************)

\* A piece that closes no more than is open keeps a stream balanced.
LEMMA PieceBalanced ==
  ASSUME NEW s, NEW t, IsSeq(s), IsSeq(t), NEW seq,
         \A n \in 0 .. Len(s) : OpenIn(s, seq, n) >= 0,
         \A m \in 0 .. Len(t) : OpenIn(s, seq, Len(s)) + OpenIn(t, seq, m) >= 0
  PROVE  /\ \A n \in 0 .. Len(s \o t) : OpenIn(s \o t, seq, n) >= 0
         /\ OpenIn(s \o t, seq, Len(s \o t)) = OpenIn(s, seq, Len(s)) + OpenIn(t, seq, Len(t))
  <1>1. PICK st : st = s \o t
    OBVIOUS
  <1>2. /\ Len(st) = Len(s) + Len(t) /\ Len(s) \in Nat /\ Len(t) \in Nat
        /\ \A n \in 0 .. Len(s) : OpenIn(st, seq, n) = OpenIn(s, seq, n)
        /\ \A m \in 0 .. Len(t) :
             OpenIn(st, seq, Len(s) + m) = OpenIn(s, seq, Len(s)) + OpenIn(t, seq, m)
    BY <1>1, Joined, OpenConcat
  <1>3. ASSUME NEW n \in 0 .. Len(st)
        PROVE  OpenIn(st, seq, n) >= 0
    <2>1. CASE n <= Len(s)
      <3>1. n \in 0 .. Len(s)
        BY <1>2, <2>1
      <3>. QED
        BY <1>2, <3>1
    <2>2. CASE Len(s) < n
      <3>1. n - Len(s) \in 0 .. Len(t) /\ Len(s) + (n - Len(s)) = n
        BY <1>2, <2>2
      <3>2. OpenIn(st, seq, Len(s) + (n - Len(s))) = OpenIn(s, seq, Len(s)) + OpenIn(t, seq, n - Len(s))
        BY <1>2, <3>1
      <3>. QED
        BY <3>1, <3>2
    <2>. QED
      BY <1>2, <2>1, <2>2
  <1>4. Len(t) \in 0 .. Len(t)
    BY <1>2
  <1>. QED
    BY <1>1, <1>2, <1>3, <1>4

\* Tracks, instants and other sequences do not matter.
LEMMA NeutralPiece ==
  ASSUME NEW t, NEW seq, NEW n \in Nat,
         \A i \in 1 .. n : t[i].seq # seq \/ t[i].kind \notin {"Begin", "End"}
  PROVE  \A m \in 0 .. n : OpenIn(t, seq, m) = 0
  <1> SUFFICES ASSUME NEW m \in 0 .. n
               PROVE  OpenIn(t, seq, m) = 0
    OBVIOUS
  <1>1. Matching(t, "Begin", seq, m) = {} /\ Matching(t, "End", seq, m) = {}
    BY DEF Matching
  <1>. QED
    BY <1>1, FS_EmptySet DEF OpenIn, CountIn

\* A function on 1 .. n is a sequence.
LEMMA FunctionIsSeq ==
  ASSUME NEW n \in Nat, NEW f, f = [i \in 1 .. n |-> f[i]]
  PROVE  IsSeq(f) /\ Len(f) = n
  <1>1. f \in [1 .. n -> {f[i] : i \in 1 .. n}]
    OBVIOUS
  <1>2. f \in Seq({f[i] : i \in 1 .. n}) /\ Len(f) = n
    BY <1>1
  <1>. QED
    BY <1>2 DEF IsSeq

\* A piece of one packet.
LEMMA SinglePiece ==
  ASSUME NEW p
  PROVE  /\ IsSeq(<<p>>) /\ Len(<<p>>) = 1 /\ <<p>>[1] = p
         /\ \A seq : /\ OpenIn(<<p>>, seq, 0) = 0
                     /\ p.seq # seq => OpenIn(<<p>>, seq, 1) = 0
                     /\ p.seq = seq /\ p.kind = "Begin" => OpenIn(<<p>>, seq, 1) = 1
                     /\ p.seq = seq /\ p.kind = "End" => OpenIn(<<p>>, seq, 1) = -1
  <1>1. <<p>> \in Seq({p}) /\ Len(<<p>>) = 1 /\ <<p>>[1] = p
    OBVIOUS
  <1>2. PICK t : t = <<p>>
    OBVIOUS
  <1>3. t[0 + 1] = p /\ 0 + 1 = 1
    BY <1>1, <1>2
  <1>4. ASSUME NEW seq
        PROVE  /\ OpenIn(t, seq, 0) = 0
               /\ p.seq # seq => OpenIn(t, seq, 1) = 0
               /\ p.seq = seq /\ p.kind = "Begin" => OpenIn(t, seq, 1) = 1
               /\ p.seq = seq /\ p.kind = "End" => OpenIn(t, seq, 1) = -1
    <2>1. /\ OpenIn(t, seq, 0) = 0
          /\ t[0 + 1].seq # seq => OpenIn(t, seq, 0 + 1) = OpenIn(t, seq, 0)
          /\ t[0 + 1].seq = seq /\ t[0 + 1].kind = "Begin" => OpenIn(t, seq, 0 + 1) = OpenIn(t, seq, 0) + 1
          /\ t[0 + 1].seq = seq /\ t[0 + 1].kind = "End" => OpenIn(t, seq, 0 + 1) = OpenIn(t, seq, 0) - 1
      BY OpenNext
    <2>. QED
      BY <1>3, <2>1
  <1>. QED
    BY <1>1, <1>2, <1>4 DEF IsSeq

\* A slice of its own.
LEMMA SlicePiece ==
  ASSUME NEW p, NEW q, NEW seq, p.kind = "Begin", p.seq = seq, q.kind = "End", q.seq = seq
  PROVE  /\ IsSeq(<<p, q>>) /\ Len(<<p, q>>) = 2
         /\ \A m \in 0 .. 2 : OpenIn(<<p, q>>, seq, m) \in Nat
         /\ OpenIn(<<p, q>>, seq, 2) = 0
  <1>1. <<p, q>> \in Seq({p, q}) /\ Len(<<p, q>>) = 2
    OBVIOUS
  <1>2. PICK t : t = <<p, q>>
    OBVIOUS
  <1>3. t[0 + 1] = p /\ 0 + 1 = 1 /\ t[1 + 1] = q /\ 1 + 1 = 2
    BY <1>1, <1>2
  <1>4. OpenIn(t, seq, 0) = 0 /\ OpenIn(t, seq, 0 + 1) = OpenIn(t, seq, 0) + 1
    BY <1>3, OpenNext
  <1>5. OpenIn(t, seq, 1 + 1) = OpenIn(t, seq, 1) - 1
    BY <1>3, OpenNext
  <1>6. OpenIn(t, seq, 0) = 0 /\ OpenIn(t, seq, 1) = 1 /\ OpenIn(t, seq, 2) = 0
    BY <1>3, <1>4, <1>5
  <1>7. \A m \in 0 .. 2 : OpenIn(t, seq, m) \in Nat
    <2>1. \A m \in 0 .. 2 : m = 0 \/ m = 1 \/ m = 2
      OBVIOUS
    <2>. QED
      BY <1>6, <2>1
  <1>8. IsSeq(t) /\ Len(t) = 2
    BY <1>1, <1>2 DEF IsSeq
  <1>. QED
    BY <1>2, <1>6, <1>7, <1>8

\* At a gap all the frames of the stack end, and then they all begin again.
LEMMA GapPiece ==
  ASSUME NEW n \in Nat, NEW t, NEW seq,
         \A i \in 1 .. n : t[i].kind = "End" /\ t[i].seq = seq,
         \A i \in n + 1 .. n + n : t[i].kind = "Begin" /\ t[i].seq = seq
  PROVE  /\ \A m \in 0 .. n + n : n + OpenIn(t, seq, m) >= 0
         /\ OpenIn(t, seq, n + n) = 0
         /\ \A m \in 0 .. n + n : OpenIn(t, seq, m) = IF m <= n THEN -m ELSE m - n - n
  <1>1. ASSUME NEW m \in 0 .. n + n
        PROVE  OpenIn(t, seq, m) = IF m <= n THEN -m ELSE m - n - n
    <2>1. CASE m <= n
      <3>1. Matching(t, "Begin", seq, m) = {} /\ Matching(t, "End", seq, m) = 1 .. m
        BY <2>1 DEF Matching
      <3>2. Cardinality(1 .. m) = m /\ Cardinality({}) = 0
        BY FS_Interval, FS_EmptySet
      <3>3. CountIn(t, "Begin", seq, m) = 0 /\ CountIn(t, "End", seq, m) = m
        BY <3>1, <3>2 DEF CountIn
      <3>. QED
        BY <2>1, <3>3 DEF OpenIn
    <2>2. CASE n < m
      <3>1. /\ \A i \in 1 .. m : i \in 1 .. n \/ i \in n + 1 .. m
            /\ \A i \in 1 .. n : i \in 1 .. m /\ i \notin n + 1 .. m
            /\ \A i \in n + 1 .. m : i \in n + 1 .. n + n /\ i \in 1 .. m
        <4>1. m \in Nat /\ m <= n + n /\ n < m
          BY <2>2
        <4>2. \A i \in 1 .. m : i \in 1 .. n \/ i \in n + 1 .. m
          BY <4>1
        <4>3. \A i \in 1 .. n : i \in 1 .. m /\ i \notin n + 1 .. m
          BY <4>1
        <4>4. \A i \in n + 1 .. m : i \in n + 1 .. n + n /\ i \in 1 .. m
          BY <4>1
        <4>. QED
          BY <4>2, <4>3, <4>4
      <3>2. Matching(t, "Begin", seq, m) = n + 1 .. m /\ Matching(t, "End", seq, m) = 1 .. n
        <4>1. Matching(t, "Begin", seq, m) = n + 1 .. m
          BY <3>1, "Begin" # "End" DEF Matching
        <4>2. Matching(t, "End", seq, m) = 1 .. n
          BY <3>1, "Begin" # "End" DEF Matching
        <4>. QED
          BY <4>1, <4>2
      <3>3. Cardinality(n + 1 .. m) = m - n /\ Cardinality(1 .. n) = n
        BY <2>2, FS_Interval
      <3>. QED
        BY <2>2, <3>2, <3>3 DEF OpenIn, CountIn
    <2>. QED
      BY <2>1, <2>2
  <1>2. n + n \in 0 .. n + n
    OBVIOUS
  <1>3. OpenIn(t, seq, n + n) = IF n + n <= n THEN -(n + n) ELSE (n + n) - n - n
    BY <1>1, <1>2
  <1>. QED
    BY <1>1, <1>3

-----------------------------------------------------------------------------
(***************************************************************************)
(* The walk over the frames: which frames are being converted in which     *)
(* phase.                                                                  *)
(***************************************************************************)
Visit == [frame : DOMAIN trace.frames, next : Nat \ {0}]

Walking ==
  /\ trace \in Traces
  /\ walk \in Seq(Visit)
  /\ nextEvent \in Nat \ {0}
  /\ IsSeq(sent) /\ IsSeq(outbox)
  /\ phase \in {"setup", "header"} => sent = <<>> /\ outbox = <<>>
  /\ phase \in {"joining", "succeeded"} => outbox = <<>>
  /\ phase = "frames" => walk # <<>>
  /\ phase \in {"setup", "header", "root", "events", "joining", "succeeded"} => walk = <<>>

\* A frame that is begun is put on the walk.
LEMMA BeginFrameWalks ==
  ASSUME NEW id, NEW callers, BeginFrame(id, callers),
         trace \in Traces, id \in DOMAIN trace.frames, callers \in Seq(Visit)
  PROVE  /\ walk' \in Seq(Visit) /\ Len(walk') = Len(callers) + 1 /\ Len(callers) \in Nat
         /\ walk' # <<>>
         /\ \A i \in 1 .. Len(callers) : walk'[i] = callers[i]
         /\ walk'[Len(callers) + 1] = [frame |-> id, next |-> 1]
  <1> DEFINE v == [frame |-> id, next |-> 1]
  <1>1. v \in Visit
    BY DEF Visit
  <1>2. walk' = Append(callers, v)
    BY DEF BeginFrame
  <1> HIDE DEF v
  <1>3. /\ walk' \in Seq(Visit) /\ Len(walk') = Len(callers) + 1 /\ Len(callers) \in Nat
        /\ \A i \in 1 .. Len(callers) : walk'[i] = callers[i]
        /\ walk'[Len(callers) + 1] = v
    BY <1>1, <1>2
  <1>4. walk' # <<>>
    BY <1>3
  <1>. QED
    BY <1>3, <1>4 DEF v

\* The frame on top goes on to its next chunk.
LEMMA AdvancedWalks ==
  ASSUME walk \in Seq(Visit), walk # <<>>
  PROVE  /\ Len(walk) \in Nat /\ Len(walk) >= 1
         /\ Advanced \in Seq(Visit) /\ Len(Advanced) = Len(walk) /\ Advanced # <<>>
         /\ \A i \in 1 .. Len(walk) - 1 : Advanced[i] = walk[i]
         /\ Current = walk[Len(walk)] /\ Current \in Visit
         /\ Advanced[Len(walk)] = [frame |-> Current.frame, next |-> Current.next + 1]
  <1>1. PICK n : n = Len(walk)
    OBVIOUS
  <1>2. n \in Nat /\ n >= 1 /\ DOMAIN walk = 1 .. n
    BY <1>1
  <1>3. walk[n] \in Visit /\ Current = walk[n]
    BY <1>1, <1>2 DEF Current, Last
  <1>4. PICK v : v = [walk[n] EXCEPT !.next = @ + 1]
    OBVIOUS
  <1>5. v \in Visit /\ v = [frame |-> walk[n].frame, next |-> walk[n].next + 1]
    BY <1>3, <1>4 DEF Visit
  <1>6. Advanced = [walk EXCEPT ![n] = v]
    BY <1>1, <1>2, <1>4 DEF Advanced
  <1>7. Advanced \in Seq(Visit) /\ Len(Advanced) = n /\ Advanced[n] = v
        /\ \A i \in 1 .. n - 1 : Advanced[i] = walk[i]
    BY <1>1, <1>2, <1>5, <1>6
  <1>8. Advanced # <<>>
    BY <1>2, <1>7
  <1>. QED
    BY <1>1, <1>2, <1>3, <1>5, <1>7, <1>8

\* The frame on top leaves the walk.
LEMMA FrontWalks ==
  ASSUME walk \in Seq(Visit), walk # <<>>
  PROVE  /\ Len(walk) \in Nat /\ Len(walk) >= 1
         /\ Front(walk) \in Seq(Visit) /\ Len(Front(walk)) = Len(walk) - 1
         /\ \A i \in 1 .. Len(walk) - 1 : Front(walk)[i] = walk[i]
         /\ Len(walk) = 1 <=> Front(walk) = <<>>
  <1>1. PICK n : n = Len(walk)
    OBVIOUS
  <1>2. n \in Nat /\ n >= 1 /\ n - 1 \in Int /\ \A i \in 1 .. n - 1 : walk[i] \in Visit
    BY <1>1
  <1>3. PICK front : front = SubSeq(walk, 1, n - 1)
    OBVIOUS
  <1>4. /\ front \in Seq(Visit)
        /\ Len(front) = IF 1 <= n - 1 THEN (n - 1) - 1 + 1 ELSE 0
        /\ \A i \in 1 .. (n - 1) - 1 + 1 : front[i] = walk[1 + i - 1]
    BY <1>2, <1>3, SubSeqProperties
  <1>5. Len(front) = n - 1 /\ \A i \in 1 .. n - 1 : front[i] = walk[i]
    BY <1>2, <1>4
  <1>6. n = 1 <=> front = <<>>
    BY <1>2, <1>4, <1>5
  <1>7. Front(walk) = front
    BY <1>1, <1>3 DEF Front
  <1>. QED
    BY <1>1, <1>2, <1>4, <1>5, <1>6, <1>7

\* The chunk that is looked at lies in its frame.
LEMMA ChunkType ==
  ASSUME Walking, phase = "frames", Current.next <= Len(CurrentFrame.chunks)
  PROVE  /\ IsFrame(trace, CurrentFrame)
         /\ Current.next \in 1 .. Len(CurrentFrame.chunks)
         /\ NextChunk \in Chunk
         /\ NextChunk.kind = "Frame" => NextChunk.id \in DOMAIN trace.frames
  <1>1. Current \in Visit
    BY AdvancedWalks DEF Walking
  <1>2. IsFrame(trace, CurrentFrame)
    BY <1>1, TracesAssumption DEF Walking, Visit, CurrentFrame, Frame
  <1>3. CurrentFrame.chunks \in Seq(Chunk) /\ Len(CurrentFrame.chunks) \in Nat
    BY <1>2 DEF IsFrame
  <1>4. Current.next \in 1 .. Len(CurrentFrame.chunks)
    BY <1>1, <1>3 DEF Visit
  <1>5. NextChunk \in Chunk
    BY <1>3, <1>4 DEF NextChunk
  <1>. QED
    BY <1>2, <1>4, <1>5 DEF IsFrame, NextChunk

-----------------------------------------------------------------------------
(***************************************************************************)
(* What the pieces consist of.                                             *)
(***************************************************************************)
PacketDefs ==
  /\ \A seq, ts, defines, uses, value :
       LET p == SliceBegin(seq, ts, defines, uses, value)
       IN  p.kind = "Begin" /\ p.seq = seq /\ p.ts = ts
  /\ \A seq, ts, value :
       LET p == SliceEnd(seq, ts, value)
       IN  p.kind = "End" /\ p.seq = seq /\ p.ts = ts
  /\ \A seq, ts, defines, counter :
       LET p == Track(seq, ts, defines, counter)
       IN  p.kind = "Track" /\ p.seq = seq /\ p.ts = ts
  /\ \A event, ts :
       LET p == Instant(event, ts)
       IN  p.kind = "Instant" /\ p.seq = EventSequence(event.id) /\ p.ts = ts

LEMMA PacketFields == PacketDefs
  BY DEF PacketDefs, SliceBegin, SliceEnd, Track, Instant, Packet

LEMMA HeaderPiece ==
  ASSUME Header
  PROVE  /\ IsSeq(outbox') /\ Len(outbox') = 5
         /\ outbox'[1].kind = "Track" /\ outbox'[1].seq = GlobalSequence
         /\ outbox'[2].kind = "Begin" /\ outbox'[2].seq = GlobalSequence
         /\ outbox'[3].kind = "End" /\ outbox'[3].seq = GlobalSequence /\ outbox'[3].ts = Root.end
         /\ outbox'[4].kind = "Track" /\ outbox'[4].seq = DataRateSequence
         /\ outbox'[5].kind = "Track" /\ outbox'[5].seq = TraceSequence
         /\ \A i \in {1, 2, 4, 5} : outbox'[i].ts = Root.start
  <1>1. PICK a, b, c, d, e :
          /\ a = Track(GlobalSequence, Root.start, {}, {})
          /\ b = SliceBegin(GlobalSequence, Root.start, {}, {}, {})
          /\ c = SliceEnd(GlobalSequence, Root.end, {})
          /\ d = Track(DataRateSequence, Root.start, {}, {})
          /\ e = Track(TraceSequence, Root.start, {}, {DataRateTrack})
    OBVIOUS
  <1>2. outbox' = <<a, b, c, d, e>>
    BY <1>1 DEF Header
  <1>3. /\ a.kind = "Track" /\ a.seq = GlobalSequence /\ a.ts = Root.start
        /\ b.kind = "Begin" /\ b.seq = GlobalSequence /\ b.ts = Root.start
        /\ c.kind = "End" /\ c.seq = GlobalSequence /\ c.ts = Root.end
        /\ d.kind = "Track" /\ d.seq = DataRateSequence /\ d.ts = Root.start
        /\ e.kind = "Track" /\ e.seq = TraceSequence /\ e.ts = Root.start
    BY <1>1, PacketFields DEF PacketDefs
  <1>4. <<a, b, c, d, e>> \in Seq({a, b, c, d, e}) /\ Len(<<a, b, c, d, e>>) = 5
    OBVIOUS
  <1>5. IsSeq(outbox') /\ Len(outbox') = 5
    BY <1>2, <1>4 DEF IsSeq
  <1>6. /\ outbox'[1] = a /\ outbox'[2] = b /\ outbox'[3] = c /\ outbox'[4] = d /\ outbox'[5] = e
    BY <1>2
  <1>7. \A i \in {1, 2, 4, 5} : outbox'[i].ts = Root.start
    BY <1>3, <1>6
  <1>. QED
    BY <1>3, <1>5, <1>6, <1>7

LEMMA GapPacketsPiece ==
  ASSUME walk \in Seq(Visit), NEW pause
  PROVE  LET t == GapPackets(pause)
             n == Len(walk)
         IN  /\ n \in Nat /\ IsSeq(t) /\ Len(t) = n + n
             /\ \A i \in 1 .. n : t[i].kind = "End" /\ t[i].seq = TraceSequence /\ t[i].ts = pause.start
             /\ \A i \in n + 1 .. n + n :
                  t[i].kind = "Begin" /\ t[i].seq = TraceSequence /\ t[i].ts = pause.end
  <1>1. PICK n : n = Len(walk)
    OBVIOUS
  <1>2. n \in Nat
    BY <1>1
  <1>3. PICK f : f = [i \in 1 .. n |-> SliceEnd(TraceSequence, pause.start, {})]
    OBVIOUS
  <1>4. PICK g : g = [i \in 1 .. n |->
                        SliceBegin(TraceSequence, pause.end, {},
                                   FrameStrings(Frame(walk[i].frame), tables), {})]
    OBVIOUS
  <1>5. f = [i \in 1 .. n |-> f[i]] /\ g = [i \in 1 .. n |-> g[i]]
    BY <1>3, <1>4
  <1>6. PICK t : t = GapPackets(pause)
    OBVIOUS
  <1>7. t = f \o g
    BY <1>1, <1>3, <1>4, <1>6 DEF GapPackets
  <1>8. IsSeq(f) /\ Len(f) = n
    BY <1>2, <1>5, FunctionIsSeq
  <1>9. IsSeq(g) /\ Len(g) = n
    BY <1>2, <1>5, FunctionIsSeq
  <1>10. IsSeq(t)
    BY <1>7, <1>8, <1>9, IsSeqOperations
  <1>11. /\ Len(t) = n + n
         /\ \A i \in 1 .. n : t[i] = f[i]
         /\ \A i \in 1 .. n : t[n + i] = g[i]
    <2>1. /\ Len(t) = Len(f) + Len(g)
          /\ \A i \in 1 .. Len(f) : t[i] = f[i]
      BY <1>7, <1>8, <1>9, Joined
    <2>2. \A i \in 1 .. Len(g) : t[Len(f) + i] = g[i]
      BY <1>7, <1>8, <1>9, Joined
    <2>. QED
      BY <1>8, <1>9, <2>1, <2>2
  <1>12. \A i \in 1 .. n : t[i].kind = "End" /\ t[i].seq = TraceSequence /\ t[i].ts = pause.start
    BY <1>3, <1>11, PacketFields DEF PacketDefs
  <1>13. \A i \in 1 .. n : g[i].kind = "Begin" /\ g[i].seq = TraceSequence /\ g[i].ts = pause.end
    BY <1>4, PacketFields DEF PacketDefs
  <1>14. ASSUME NEW i \in n + 1 .. n + n
         PROVE  t[i].kind = "Begin" /\ t[i].seq = TraceSequence /\ t[i].ts = pause.end
    <2>1. i - n \in 1 .. n /\ n + (i - n) = i
      BY <1>2
    <2>2. t[n + (i - n)] = g[i - n]
      BY <1>11, <2>1
    <2>. QED
      BY <1>13, <2>1, <2>2
  <1>. QED
    BY <1>1, <1>2, <1>6, <1>10, <1>11, <1>12, <1>14

\* The track of an event comes first, with the time of its first occurence.
LEMMA EventPiece ==
  ASSUME NEW e, IsEvent(e)
  PROVE  LET t == EventPackets(e)
             n == Len(e.occurences)
         IN  /\ n \in Nat /\ IsSeq(t)
             /\ Len(t) = IF n = 0 THEN 0 ELSE n + 1
             /\ \A i \in 1 .. Len(t) :
                  t[i].kind \in {"Track", "Instant"} /\ t[i].seq = EventSequence(e.id)
             /\ n # 0 => t[1].ts = e.occurences[1]
             /\ \A i \in 1 .. n : t[i + 1].ts = e.occurences[i]
  <1>1. PICK n : n = Len(e.occurences)
    OBVIOUS
  <1>2. n \in Nat /\ e.occurences \in Seq(Nat)
    BY <1>1 DEF IsEvent
  <1>3. PICK t : t = EventPackets(e)
    OBVIOUS
  <1>4. CASE e.occurences = <<>>
    <2>1. n = 0 /\ t = <<>>
      BY <1>1, <1>3, <1>4 DEF EventPackets
    <2>2. IsSeq(t) /\ Len(t) = 0
      BY <2>1, IsSeqOperations
    <2>. QED
      BY <1>1, <1>3, <2>1, <2>2
  <1>5. CASE e.occurences # <<>>
    <2>1. n >= 1 /\ Head(e.occurences) = e.occurences[1]
      BY <1>1, <1>2, <1>5
    <2>2. PICK p : p = Track(EventSequence(e.id), Head(e.occurences),
                             {[table |-> "events", iid |-> 1, means |-> e.description]}, {})
      OBVIOUS
    <2>3. PICK f : f = [i \in 1 .. n |-> Instant(e, e.occurences[i])]
      OBVIOUS
    <2>4. IsSeq(f) /\ Len(f) = n
      <3>1. f = [i \in 1 .. n |-> f[i]]
        BY <2>3
      <3>. QED
        BY <1>2, <3>1, FunctionIsSeq
    <2>5. IsSeq(<<p>>) /\ Len(<<p>>) = 1 /\ <<p>>[1] = p
      BY SinglePiece
    <2>6. t = <<p>> \o f
      BY <1>1, <1>3, <1>5, <2>2, <2>3 DEF EventPackets
    <2>7. /\ IsSeq(t) /\ Len(t) = n + 1
          /\ t[1] = p /\ \A i \in 1 .. n : t[i + 1] = f[i]
      <3>1. IsSeq(t)
        BY <2>4, <2>5, <2>6, IsSeqOperations
      <3>2. /\ Len(t) = 1 + n
            /\ \A i \in 1 .. 1 : t[i] = <<p>>[i]
            /\ \A i \in 1 .. n : t[1 + i] = f[i]
        BY <2>4, <2>5, <2>6, Joined
      <3>3. 1 \in 1 .. 1 /\ \A i \in 1 .. n : i + 1 = 1 + i
        BY <1>2
      <3>. QED
        BY <1>2, <2>5, <3>1, <3>2, <3>3
    <2>8. p.kind = "Track" /\ p.seq = EventSequence(e.id) /\ p.ts = e.occurences[1]
      BY <2>1, <2>2, PacketFields DEF PacketDefs
    <2>9. \A i \in 1 .. n : f[i].kind = "Instant" /\ f[i].seq = EventSequence(e.id) /\ f[i].ts = e.occurences[i]
      BY <2>3, PacketFields DEF PacketDefs
    <2>10. ASSUME NEW i \in 1 .. Len(t)
           PROVE  t[i].kind \in {"Track", "Instant"} /\ t[i].seq = EventSequence(e.id)
      <3>1. CASE i = 1
        BY <2>7, <2>8, <3>1
      <3>2. CASE i # 1
        <4>1. i - 1 \in 1 .. n /\ (i - 1) + 1 = i
          BY <1>2, <2>7, <3>2
        <4>2. t[(i - 1) + 1] = f[i - 1]
          BY <2>7, <4>1
        <4>. QED
          BY <2>9, <4>1, <4>2
      <3>. QED
        BY <3>1, <3>2
    <2>11. n # 0 /\ n + 1 = IF n = 0 THEN 0 ELSE n + 1
      BY <1>2, <2>1
    <2>. QED
      BY <1>1, <1>2, <1>3, <2>7, <2>8, <2>9, <2>10, <2>11
  <1>. QED
    BY <1>4, <1>5

-----------------------------------------------------------------------------
(***************************************************************************)
(* Every step keeps the walk.                                              *)
(***************************************************************************)

\* The steps that neither move the walk nor send.
LEMMA WalkingKept ==
  ASSUME Walking, UNCHANGED <<trace, walk, nextEvent, sent, outbox>>,
         phase' = "frames" => phase = "frames",
         phase' \in {"setup", "header"} => phase \in {"setup", "header"},
         phase' \in {"joining", "succeeded"} => outbox = <<>>,
         phase' # "frames" /\ phase' # "panicked" => walk = <<>>
  PROVE  Walking'
BY DEF Walking, Visit, IsSeq

LEMMA WalkingBegin ==
  ASSUME Walking, BeginRoot
  PROVE  Walking'
  <1>1. trace.root \in DOMAIN trace.frames
    BY TracesAssumption DEF Walking
  <1>2. walk' \in Seq(Visit) /\ walk' # <<>>
    BY <1>1, BeginFrameWalks DEF Walking, BeginRoot
  <1>3. IsSeq(outbox')
    BY SinglePiece DEF BeginRoot, BeginFrame
  <1>4. trace' = trace /\ nextEvent' = nextEvent /\ phase' = "frames" /\ sent' = sent
    BY DEF BeginRoot, Unshared
  <1>. QED
    BY <1>2, <1>3, <1>4 DEF Walking, Visit, IsSeq

\* The two kinds of chunks that have packets.
LEMMA ChunkWalks ==
  ASSUME Walking, ProcessChunk
  PROVE  /\ walk' \in Seq(Visit) /\ walk' # <<>>
         /\ IsSeq(outbox')
         /\ NextChunk.kind = "Frame" => Len(walk') = Len(walk) + 1
         /\ NextChunk.kind = "Pause" => Len(walk') = Len(walk)
  <1>1. walk # <<>> /\ walk \in Seq(Visit) /\ phase = "frames"
    BY DEF Walking, ProcessChunk, InFrame
  <1>2. /\ Advanced \in Seq(Visit) /\ Advanced # <<>> /\ Len(Advanced) = Len(walk)
    BY <1>1, AdvancedWalks
  <1>3. CASE NextChunk.kind = "Frame" /\ BeginFrame(NextChunk.id, Advanced)
    <2>1. NextChunk.id \in DOMAIN trace.frames /\ trace \in Traces
      BY <1>1, <1>3, ChunkType DEF ProcessChunk, Walking
    <2>2. walk' \in Seq(Visit) /\ walk' # <<>> /\ Len(walk') = Len(Advanced) + 1
      BY <1>2, <1>3, <2>1, BeginFrameWalks
    <2>3. IsSeq(outbox')
      BY <1>3, SinglePiece DEF BeginFrame
    <2>. QED
      BY <1>2, <1>3, <2>2, <2>3
  <1>4. CASE NextChunk.kind = "Pause" /\ RenderGap(NextChunk)
    <2>1. walk' = Advanced
      BY <1>4 DEF RenderGap
    <2>2. IsSeq(GapPackets(NextChunk))
      BY <1>1, GapPacketsPiece
    <2>3. \A p, q : IsSeq(<<p, q>>)
      <3>1. \A p, q : <<p, q>> \in Seq({p, q})
        OBVIOUS
      <3>. QED
        BY <3>1 DEF IsSeq
    <2>4. IsSeq(outbox')
      BY <1>4, <2>2, <2>3 DEF RenderGap, BlockPackets
    <2>. QED
      BY <1>2, <1>4, <2>1, <2>4
  <1>. QED
    BY <1>3, <1>4 DEF ProcessChunk

LEMMA WalkingEnd ==
  ASSUME Walking, EndFrame
  PROVE  Walking'
  <1>1. walk # <<>> /\ walk \in Seq(Visit)
    BY DEF Walking, EndFrame, InFrame
  <1>2. walk' \in Seq(Visit) /\ (Len(walk) = 1 <=> walk' = <<>>)
    BY <1>1, FrontWalks DEF EndFrame
  <1>3. IsSeq(outbox')
    BY SinglePiece DEF EndFrame
  <1>4. phase' \in {"events", "frames"} /\ (phase' = "events" => walk' = <<>>)
        /\ (phase' = "frames" => walk' # <<>>)
    BY <1>2 DEF EndFrame
  <1>5. trace' = trace /\ nextEvent' = nextEvent /\ sent' = sent
    BY DEF EndFrame, Unshared
  <1>. QED
    BY <1>2, <1>3, <1>4, <1>5 DEF Walking, Visit, IsSeq

\* The event that is reported is one of the trace's.
LEMMA EventType ==
  ASSUME Walking, ReportEvent
  PROVE  nextEvent \in 1 .. Len(trace.events) /\ IsEvent(trace.events[nextEvent])
  <1>1. nextEvent \in Nat \ {0} /\ nextEvent <= Len(trace.events) /\ Len(trace.events) \in Nat
    BY TracesAssumption DEF Walking, ReportEvent
  <1>. QED
    BY <1>1, TracesAssumption DEF Walking

LEMMA WalkingNext == Walking /\ [Next]_vars => Walking'
  <1> SUFFICES ASSUME Walking, [Next]_vars
               PROVE  Walking'
    OBVIOUS
  <1>1. CASE CreateFile
    BY <1>1, WalkingKept DEF CreateFile, converterVars, Walking
  <1>2. CASE CreateFileFails
    BY <1>2, WalkingKept DEF CreateFileFails, converterVars
  <1>3. CASE Header
    BY <1>3, HeaderPiece DEF Header, Unshared, Walking, Visit, IsSeq
  <1>4. CASE BeginRoot
    BY <1>4, WalkingBegin
  <1>5. CASE ProcessChunk
    <2>1. walk' \in Seq(Visit) /\ walk' # <<>> /\ IsSeq(outbox')
      BY <1>5, ChunkWalks
    <2>2. trace' = trace /\ nextEvent' = nextEvent /\ sent' = sent /\ phase' = "frames"
      BY <1>5 DEF ProcessChunk, Unshared, InFrame
    <2>. QED
      BY <2>1, <2>2 DEF Walking, Visit, IsSeq
  <1>6. CASE EndFrame
    BY <1>6, WalkingEnd
  <1>7. CASE ReportEvent
    <2>1. IsSeq(outbox')
      BY <1>7, EventType, EventPiece DEF ReportEvent
    <2>2. trace' = trace /\ nextEvent' = nextEvent + 1 /\ sent' = sent /\ phase' = "events"
          /\ walk' = walk /\ phase = "events"
      BY <1>7 DEF ReportEvent, Unshared
    <2>3. nextEvent' \in Nat \ {0}
      BY <2>2 DEF Walking
    <2>. QED
      BY <2>1, <2>2, <2>3 DEF Walking, Visit, IsSeq
  <1>8. CASE FinishConversion
    BY <1>8, WalkingKept DEF FinishConversion, Ready, converterVars, Walking
  <1>9. CASE Send
    <2>1. IsSeq(sent') /\ IsSeq(outbox')
      BY <1>9, IsSeqOperations DEF Send, Walking
    <2>2. phase' = phase /\ phase \notin {"setup", "header", "joining", "succeeded"}
      BY <1>9 DEF Send, Walking
    <2>3. UNCHANGED <<trace, walk, nextEvent>>
      BY <1>9 DEF Send
    <2>. QED
      BY <2>1, <2>2, <2>3 DEF Walking, Visit, IsSeq
  <1>10. CASE SendFails
    BY <1>10, IsSeqOperations DEF SendFails, Walking, Visit, IsSeq
  <1>11. CASE Join
    BY <1>11, WalkingKept DEF Join, converterVars, Walking
  <1>12. CASE Write \/ WriteFails \/ WriterEnds \/ CtrlC \/ Terminated \/ UNCHANGED vars
    <2>1. UNCHANGED <<trace, walk, nextEvent, sent, outbox, phase>>
      BY <1>12 DEF Write, WriteFails, WriterEnds, CtrlC, Terminated, converterVars, vars
    <2>. QED
      BY <2>1 DEF Walking, Visit, IsSeq
  <1>. QED
    BY <1>1, <1>2, <1>3, <1>4, <1>5, <1>6, <1>7, <1>8, <1>9, <1>10, <1>11, <1>12
       DEF Next, Convert, Writer

LEMMA WalkingInit == Init => Walking
  <1>1. <<>> \in Seq(Visit)
    OBVIOUS
  <1>. QED
    BY <1>1, IsSeqOperations DEF Init, Walking

-----------------------------------------------------------------------------
(***************************************************************************)
(* The slices that are open are the frames on the walk.                    *)
(***************************************************************************)
Depth(frames, seq) == IF seq = TraceSequence THEN Len(frames) ELSE 0

Balanced ==
  \A seq \in {GlobalSequence, TraceSequence} :
    /\ \A n \in 0 .. Len(Stream) : OpenIn(Stream, seq, n) >= 0
    /\ phase # "panicked" => OpenIn(Stream, seq, Len(Stream)) = Depth(walk, seq)

\* A piece that opens and closes what the walk says.
PieceFits(piece, seq) ==
  /\ \A m \in 0 .. Len(piece) : Depth(walk, seq) + OpenIn(piece, seq, m) >= 0
  /\ Depth(walk, seq) + OpenIn(piece, seq, Len(piece)) = Depth(walk', seq)

LEMMA StreamTypes ==
  ASSUME Walking
  PROVE  IsSeq(Stream) /\ IsSeq(sent) /\ IsSeq(outbox) /\ Len(Stream) \in Nat
         /\ (outbox = <<>> => Stream = sent)
  <1>1. IsSeq(sent) /\ IsSeq(outbox)
    BY DEF Walking
  <1>2. outbox = <<>> => sent \o outbox = sent
    <2>1. PICK S : sent \in Seq(S)
      BY <1>1 DEF IsSeq
    <2>. QED
      BY <2>1
  <1>. QED
    BY <1>1, <1>2, Joined DEF Stream

LEMMA PieceKeeps ==
  ASSUME Walking, Balanced, Walking', outbox = <<>>, phase # "panicked", sent' = sent,
         \A seq \in {GlobalSequence, TraceSequence} : PieceFits(outbox', seq)
  PROVE  Balanced'
  <1>1. PICK s, t : s = sent /\ t = outbox'
    OBVIOUS
  <1>2. Stream = s /\ IsSeq(s)
    BY <1>1, StreamTypes
  <1>3. Stream' = s \o t /\ IsSeq(t)
    BY <1>1 DEF Stream, Walking
  <1>4. Len(t) \in Nat /\ Len(t) \in 0 .. Len(t)
    BY <1>2, <1>3, Joined
  <1>5. ASSUME NEW seq \in {GlobalSequence, TraceSequence}
        PROVE  /\ \A n \in 0 .. Len(s \o t) : OpenIn(s \o t, seq, n) >= 0
               /\ OpenIn(s \o t, seq, Len(s \o t)) = Depth(walk', seq)
    <2>1. /\ \A n \in 0 .. Len(s) : OpenIn(s, seq, n) >= 0
          /\ OpenIn(s, seq, Len(s)) = Depth(walk, seq)
      BY <1>2 DEF Balanced
    <2>2. PieceFits(t, seq)
      BY <1>1
    <2>3. \A m \in 0 .. Len(t) : OpenIn(s, seq, Len(s)) + OpenIn(t, seq, m) >= 0
      BY <2>1, <2>2 DEF PieceFits
    <2>4. /\ \A n \in 0 .. Len(s \o t) : OpenIn(s \o t, seq, n) >= 0
          /\ OpenIn(s \o t, seq, Len(s \o t)) = OpenIn(s, seq, Len(s)) + OpenIn(t, seq, Len(t))
      BY <1>2, <1>3, <2>1, <2>3, PieceBalanced
    <2>. QED
      BY <2>1, <2>2, <2>4 DEF PieceFits
  <1>. QED
    BY <1>3, <1>5 DEF Balanced

\* The steps that leave the stream and the walk alone.
LEMMA BalanceKept ==
  ASSUME Balanced, Stream' = Stream, walk' = walk, phase = "panicked" => phase' = "panicked"
  PROVE  Balanced'
BY DEF Balanced

-----------------------------------------------------------------------------
(***************************************************************************)
(* The pieces fit.                                                         *)
(***************************************************************************)
LEMMA HeaderFits ==
  ASSUME Walking, Header, NEW seq \in {GlobalSequence, TraceSequence}
  PROVE  PieceFits(outbox', seq)
  <1>1. PICK t : t = outbox'
    OBVIOUS
  <1>2. walk = <<>> /\ walk' = <<>> /\ Len(<<>>) = 0
    BY DEF Walking, Header
  <1>3. Len(t) = 5
    BY <1>1, HeaderPiece
  <1>4. Depth(walk, seq) = 0 /\ Depth(walk', seq) = 0
    BY <1>2 DEF Depth
  <1>5. \A m \in 0 .. 5 : m = 0 \/ m = 1 \/ m = 2 \/ m = 3 \/ m = 4 \/ m = 5
    OBVIOUS
  <1>6. OpenIn(t, seq, 0) = 0 /\ OpenIn(t, seq, 1) = 0
    <2>1. t[0 + 1].kind = "Track"
      BY <1>1, HeaderPiece
    <2>2. OpenIn(t, seq, 0) = 0 /\ OpenIn(t, seq, 0 + 1) = OpenIn(t, seq, 0)
      BY <2>1, OpenNext
    <2>. QED
      BY <2>2
  <1>7. OpenIn(t, seq, 2) = IF seq = GlobalSequence THEN 1 ELSE 0
    <2>1. t[1 + 1].kind = "Begin" /\ t[1 + 1].seq = GlobalSequence
      BY <1>1, HeaderPiece
    <2>2. seq = GlobalSequence => OpenIn(t, seq, 1 + 1) = OpenIn(t, seq, 1) + 1
      BY <2>1, OpenNext
    <2>3. seq # GlobalSequence => OpenIn(t, seq, 1 + 1) = OpenIn(t, seq, 1)
      BY <2>1, OpenNext
    <2>. QED
      BY <1>6, <2>2, <2>3
  <1>8. OpenIn(t, seq, 3) = 0
    <2>1. t[2 + 1].kind = "End" /\ t[2 + 1].seq = GlobalSequence
      BY <1>1, HeaderPiece
    <2>2. seq = GlobalSequence => OpenIn(t, seq, 2 + 1) = OpenIn(t, seq, 2) - 1
      BY <2>1, OpenNext
    <2>3. seq # GlobalSequence => OpenIn(t, seq, 2 + 1) = OpenIn(t, seq, 2)
      BY <2>1, OpenNext
    <2>. QED
      BY <1>7, <2>2, <2>3
  <1>9. OpenIn(t, seq, 4) = 0
    <2>1. t[3 + 1].kind = "Track"
      BY <1>1, HeaderPiece
    <2>2. OpenIn(t, seq, 3 + 1) = OpenIn(t, seq, 3)
      BY <2>1, OpenNext
    <2>. QED
      BY <1>8, <2>2
  <1>10. OpenIn(t, seq, 5) = 0
    <2>1. t[4 + 1].kind = "Track"
      BY <1>1, HeaderPiece
    <2>2. OpenIn(t, seq, 4 + 1) = OpenIn(t, seq, 4)
      BY <2>1, OpenNext
    <2>. QED
      BY <1>9, <2>2
  <1>. QED
    BY <1>1, <1>3, <1>4, <1>5, <1>6, <1>7, <1>8, <1>9, <1>10 DEF PieceFits

\* One Begin, for a frame that is put on the walk.
LEMMA BeginFits ==
  ASSUME walk \in Seq(Visit), walk' \in Seq(Visit), Len(walk') = Len(walk) + 1,
         NEW p, outbox' = <<p>>, p.kind = "Begin", p.seq = TraceSequence,
         NEW seq \in {GlobalSequence, TraceSequence}
  PROVE  PieceFits(outbox', seq)
  <1>1. Len(walk) \in Nat
    OBVIOUS
  <1>2. /\ Len(<<p>>) = 1
        /\ OpenIn(<<p>>, seq, 0) = 0
        /\ seq # TraceSequence => OpenIn(<<p>>, seq, 1) = 0
        /\ seq = TraceSequence => OpenIn(<<p>>, seq, 1) = 1
    BY SinglePiece
  <1>3. \A m \in 0 .. 1 : m = 0 \/ m = 1
    OBVIOUS
  <1>. QED
    BY <1>1, <1>2, <1>3 DEF PieceFits, Depth

\* One End, for the frame that leaves the walk.
LEMMA EndFits ==
  ASSUME walk \in Seq(Visit), Len(walk) >= 1, Len(walk') = Len(walk) - 1,
         NEW p, outbox' = <<p>>, p.kind = "End", p.seq = TraceSequence,
         NEW seq \in {GlobalSequence, TraceSequence}
  PROVE  PieceFits(outbox', seq)
  <1>1. Len(walk) \in Nat
    OBVIOUS
  <1>2. /\ Len(<<p>>) = 1
        /\ OpenIn(<<p>>, seq, 0) = 0
        /\ seq # TraceSequence => OpenIn(<<p>>, seq, 1) = 0
        /\ seq = TraceSequence => OpenIn(<<p>>, seq, 1) = -1
    BY SinglePiece
  <1>3. \A m \in 0 .. 1 : m = 0 \/ m = 1
    OBVIOUS
  <1>. QED
    BY <1>1, <1>2, <1>3 DEF PieceFits, Depth

\* A frame begins.
LEMMA FrameFits ==
  ASSUME NEW id, NEW callers, BeginFrame(id, callers), walk \in Seq(Visit),
         trace \in Traces, id \in DOMAIN trace.frames, callers \in Seq(Visit),
         Len(callers) = Len(walk), NEW seq \in {GlobalSequence, TraceSequence}
  PROVE  PieceFits(outbox', seq)
  <1>1. walk' \in Seq(Visit) /\ Len(walk') = Len(walk) + 1
    BY BeginFrameWalks
  <1>2. PICK d, u, v : outbox' = <<SliceBegin(TraceSequence, Frame(id).start, d, u, v)>>
    BY Zenon DEF BeginFrame
  <1>3. PICK p : p = SliceBegin(TraceSequence, Frame(id).start, d, u, v)
    OBVIOUS
  <1>4. outbox' = <<p>> /\ p.kind = "Begin" /\ p.seq = TraceSequence
    BY <1>2, <1>3, PacketFields DEF PacketDefs
  <1>. QED
    BY <1>1, <1>4, BeginFits

\* All frames on the walk are cut at a pause, or the pause is shown.
LEMMA GapFits ==
  ASSUME walk \in Seq(Visit), walk # <<>>, NEW pause, RenderGap(pause),
         NEW seq \in {GlobalSequence, TraceSequence}
  PROVE  PieceFits(outbox', seq)
  <1>1. Len(walk) \in Nat /\ Depth(walk, seq) \in Nat
    BY DEF Depth
  <1>2. Depth(walk', seq) = Depth(walk, seq)
    BY AdvancedWalks DEF RenderGap, Depth
  <1>3. CASE outbox' = GapPackets(pause)
    <2>1. PICK t : t = outbox'
      OBVIOUS
    <2>2. PICK n : n = Len(walk)
      OBVIOUS
    <2>3. /\ n \in Nat /\ IsSeq(t) /\ Len(t) = n + n
          /\ \A i \in 1 .. n : t[i].kind = "End" /\ t[i].seq = TraceSequence
          /\ \A i \in n + 1 .. n + n : t[i].kind = "Begin" /\ t[i].seq = TraceSequence
      BY SMTT(60), <1>3, <2>1, <2>2, GapPacketsPiece
    <2>4. CASE seq = TraceSequence
      <3>1. /\ \A m \in 0 .. n + n : n + OpenIn(t, seq, m) >= 0
            /\ OpenIn(t, seq, n + n) = 0
        BY <2>3, <2>4, GapPiece
      <3>. QED
        BY <1>1, <1>2, <2>1, <2>2, <2>3, <2>4, <3>1 DEF PieceFits, Depth
    <2>5. CASE seq # TraceSequence
      <3>1. \A i \in 1 .. n + n : t[i].seq # seq
        <4>1. \A i \in 1 .. n + n : i \in 1 .. n \/ i \in n + 1 .. n + n
          BY <2>3
        <4>. QED
          BY <2>3, <2>5, <4>1
      <3>2. n + n \in Nat
        BY <2>3
      <3>3. \A m \in 0 .. n + n : OpenIn(t, seq, m) = 0
        BY <3>1, <3>2, NeutralPiece
      <3>4. n + n \in 0 .. n + n
        BY <3>2
      <3>. QED
        BY <1>1, <1>2, <2>1, <2>3, <3>3, <3>4 DEF PieceFits
    <2>. QED
      BY <2>4, <2>5
  <1>4. CASE outbox' = BlockPackets(pause, tables'.events)
    <2>1. PICK p, q : /\ outbox' = <<p, q>>
                      /\ p.kind = "Begin" /\ p.seq = TraceSequence
                      /\ q.kind = "End" /\ q.seq = TraceSequence
      BY <1>4, PacketFields DEF BlockPackets, PacketDefs
    <2>2. PICK t : t = <<p, q>>
      OBVIOUS
    <2>3. Len(t) = 2 /\ t[1] = p /\ t[2] = q
      BY <2>2
    <2>4. CASE seq = TraceSequence
      <3>1. /\ \A m \in 0 .. 2 : OpenIn(t, seq, m) \in Nat
            /\ OpenIn(t, seq, 2) = 0
        BY <2>1, <2>2, <2>4, SlicePiece
      <3>. QED
        BY <1>1, <1>2, <2>1, <2>2, <2>3, <3>1 DEF PieceFits
    <2>5. CASE seq # TraceSequence
      <3>1. \A i \in 1 .. 2 : t[i].seq # seq
        BY <2>1, <2>3, <2>5
      <3>2. \A m \in 0 .. 2 : OpenIn(t, seq, m) = 0
        BY <3>1, NeutralPiece
      <3>. QED
        BY <1>1, <1>2, <2>1, <2>2, <2>3, <3>2 DEF PieceFits
    <2>. QED
      BY <2>4, <2>5
  <1>. QED
    BY <1>3, <1>4 DEF RenderGap

\* The packets of an event are on a sequence of their own.
LEMMA EventFits ==
  ASSUME Walking, ReportEvent, NEW seq \in {GlobalSequence, TraceSequence}
  PROVE  PieceFits(outbox', seq)
  <1>1. PICK t : t = outbox'
    OBVIOUS
  <1>2. /\ IsSeq(t)
        /\ \A i \in 1 .. Len(t) : t[i].kind \in {"Track", "Instant"}
    BY <1>1, EventType, EventPiece DEF ReportEvent
  <1>3. Len(t) \in Nat
    <2>1. PICK S : t \in Seq(S)
      BY <1>2 DEF IsSeq
    <2>. QED
      BY <2>1
  <1>4. \A m \in 0 .. Len(t) : OpenIn(t, seq, m) = 0
    <2>1. \A i \in 1 .. Len(t) : t[i].kind \notin {"Begin", "End"}
      BY <1>2
    <2>. QED
      BY <1>3, <2>1, NeutralPiece
  <1>5. Depth(walk, seq) \in Nat /\ Depth(walk', seq) = Depth(walk, seq)
    BY DEF Walking, ReportEvent, Depth
  <1>6. Len(t) \in 0 .. Len(t)
    BY <1>3
  <1>. QED
    BY <1>1, <1>4, <1>5, <1>6 DEF PieceFits

-----------------------------------------------------------------------------
LEMMA BalancedInit == Init => Balanced
  <1> SUFFICES ASSUME Init
               PROVE  Balanced
    OBVIOUS
  <1>1. PICK s : s = Stream
    OBVIOUS
  <1>2. s = <<>> /\ Len(s) = 0 /\ walk = <<>> /\ Len(walk) = 0
    BY <1>1 DEF Init, Stream
  <1>3. \A seq : OpenIn(s, seq, 0) = 0
    BY OpenNext
  <1>4. \A n \in 0 .. 0 : n = 0
    OBVIOUS
  <1>. QED
    BY <1>1, <1>2, <1>3, <1>4 DEF Balanced, Depth

LEMMA BalancedNext ==
  ASSUME Walking, Balanced, [Next]_vars
  PROVE  Balanced'
  <1>1. Walking'
    BY WalkingNext
  <1>2. CASE Header
    <2>1. \A seq \in {GlobalSequence, TraceSequence} : PieceFits(outbox', seq)
      BY <1>2, HeaderFits
    <2>2. outbox = <<>> /\ phase # "panicked" /\ sent' = sent
      BY <1>2 DEF Header, Unshared, Walking
    <2>. QED
      BY <1>1, <2>1, <2>2, PieceKeeps
  <1>3. CASE BeginRoot
    <2>1. trace.root \in DOMAIN trace.frames /\ trace \in Traces /\ walk \in Seq(Visit)
      BY TracesAssumption DEF Walking
    <2>2. \A seq \in {GlobalSequence, TraceSequence} : PieceFits(outbox', seq)
      BY <1>3, <2>1, FrameFits DEF BeginRoot
    <2>3. outbox = <<>> /\ phase # "panicked" /\ sent' = sent
      BY <1>3 DEF BeginRoot, Ready, Unshared
    <2>. QED
      BY <1>1, <2>2, <2>3, PieceKeeps
  <1>4. CASE ProcessChunk
    <2>1. /\ walk \in Seq(Visit) /\ walk # <<>> /\ trace \in Traces
          /\ outbox = <<>> /\ phase = "frames" /\ phase # "panicked" /\ sent' = sent
      BY <1>4 DEF ProcessChunk, InFrame, Ready, Unshared, Walking
    <2>2. Advanced \in Seq(Visit) /\ Len(Advanced) = Len(walk)
      BY <2>1, AdvancedWalks
    <2>3. NextChunk.kind = "Frame" => NextChunk.id \in DOMAIN trace.frames
      BY <1>4, <2>1, ChunkType DEF ProcessChunk
    <2>4. ASSUME NEW seq \in {GlobalSequence, TraceSequence}
          PROVE  PieceFits(outbox', seq)
      <3>1. CASE NextChunk.kind = "Frame" /\ BeginFrame(NextChunk.id, Advanced)
        BY <2>1, <2>2, <2>3, <3>1, FrameFits
      <3>2. CASE NextChunk.kind = "Pause" /\ RenderGap(NextChunk)
        BY <2>1, <3>2, GapFits
      <3>. QED
        BY <1>4, <3>1, <3>2 DEF ProcessChunk
    <2>. QED
      BY <1>1, <2>1, <2>4, PieceKeeps
  <1>5. CASE EndFrame
    <2>1. /\ walk \in Seq(Visit) /\ walk # <<>>
          /\ outbox = <<>> /\ phase # "panicked" /\ sent' = sent
      BY <1>5 DEF EndFrame, InFrame, Ready, Unshared, Walking
    <2>2. Len(walk) >= 1 /\ Len(walk') = Len(walk) - 1
      BY <1>5, <2>1, FrontWalks DEF EndFrame
    <2>3. PICK p : outbox' = <<p>> /\ p.kind = "End" /\ p.seq = TraceSequence
      BY <1>5, PacketFields DEF EndFrame, PacketDefs
    <2>4. \A seq \in {GlobalSequence, TraceSequence} : PieceFits(outbox', seq)
      BY <2>1, <2>2, <2>3, EndFits
    <2>. QED
      BY <1>1, <2>1, <2>4, PieceKeeps
  <1>6. CASE ReportEvent
    <2>1. \A seq \in {GlobalSequence, TraceSequence} : PieceFits(outbox', seq)
      BY <1>6, EventFits
    <2>2. outbox = <<>> /\ phase # "panicked" /\ sent' = sent
      BY <1>6 DEF ReportEvent, Ready, Unshared
    <2>. QED
      BY <1>1, <2>1, <2>2, PieceKeeps
  <1>7. CASE Send
    <2>1. Stream' = Stream
      BY <1>7, MoveHead DEF Send, Stream, Walking
    <2>. QED
      BY <1>7, <2>1, BalanceKept DEF Send
  <1>8. CASE SendFails
    <2>1. /\ IsSeq(sent) /\ IsSeq(outbox) /\ IsSeq(sent') /\ outbox' = <<>>
          /\ sent' = sent /\ phase' = "panicked"
      BY <1>8 DEF SendFails, Walking
    <2>2. Stream' = sent
      BY <1>1, <2>1, StreamTypes DEF Stream
    <2>3. Len(sent) \in Nat /\ Len(Stream) = Len(sent) + Len(outbox) /\ Len(outbox) \in Nat
      BY <2>1, Joined DEF Stream
    <2>4. ASSUME NEW seq \in {GlobalSequence, TraceSequence}, NEW n \in 0 .. Len(sent)
          PROVE  OpenIn(sent, seq, n) >= 0
      <3>1. OpenIn(Stream, seq, n) = OpenIn(sent, seq, n)
        BY <2>1, OpenConcat DEF Stream
      <3>2. n \in 0 .. Len(Stream)
        BY <2>3
      <3>. QED
        BY <3>1, <3>2 DEF Balanced
    <2>. QED
      BY <2>1, <2>2, <2>4 DEF Balanced
  <1>9. CASE \/ CreateFile \/ CreateFileFails \/ FinishConversion \/ Join
             \/ Write \/ WriteFails \/ WriterEnds \/ CtrlC \/ Terminated \/ UNCHANGED vars
    <2>1. /\ UNCHANGED <<walk, sent, outbox>>
          /\ phase = "panicked" => phase' = "panicked"
      BY <1>9 DEF CreateFile, CreateFileFails, FinishConversion, Join, Write, WriteFails,
                  WriterEnds, CtrlC, Terminated, converterVars, vars
    <2>. QED
      BY <2>1, BalanceKept DEF Stream
  <1>. QED
    BY <1>2, <1>3, <1>4, <1>5, <1>6, <1>7, <1>8, <1>9 DEF Next, Convert, Writer

\* No slice is ended that is not open and none is left open in the end, wherever
\* frames are cut at pauses and whenever Ctrl-C comes (process_frame and
\* render_gap of perfetto/converter.rs).
THEOREM SlicesAlwaysBalanced == Spec => []SlicesBalanced
  <1>1. ASSUME Walking, Balanced
        PROVE  SlicesBalanced
    <2>1. IsSeq(sent) /\ IsSeq(outbox) /\ Len(Stream) = Len(sent) + Len(outbox)
          /\ Len(sent) \in Nat /\ Len(outbox) \in Nat
      BY <1>1, Joined DEF Walking, Stream
    <2>2. ASSUME NEW seq, NEW n
          PROVE  Open(seq, n) = OpenIn(sent, seq, n)
      BY DEF Open, CountSent, OpenIn, CountIn, Matching
    <2>3. ASSUME NEW seq \in {GlobalSequence, TraceSequence}, NEW n \in 0 .. Len(sent)
          PROVE  Open(seq, n) >= 0
      <3>1. OpenIn(Stream, seq, n) = OpenIn(sent, seq, n)
        BY <2>1, OpenConcat DEF Stream
      <3>2. n \in 0 .. Len(Stream)
        BY <2>1
      <3>. QED
        BY <1>1, <2>2, <3>1, <3>2 DEF Balanced
    <2>4. ASSUME NEW seq \in {GlobalSequence, TraceSequence}, phase \in {"joining", "succeeded"}
          PROVE  Open(seq, Len(sent)) = 0
      <3>1. Stream = sent /\ walk = <<>> /\ phase # "panicked"
        BY <1>1, <2>4, StreamTypes DEF Walking
      <3>2. OpenIn(Stream, seq, Len(Stream)) = Depth(walk, seq)
        BY <1>1, <3>1 DEF Balanced
      <3>. QED
        BY <2>2, <3>1, <3>2 DEF Depth
    <2>. QED
      BY <2>3, <2>4 DEF SlicesBalanced
  <1>2. Init => Walking /\ Balanced
    BY WalkingInit, BalancedInit
  <1>3. Walking /\ Balanced /\ [Next]_vars => (Walking /\ Balanced)'
    BY WalkingNext, BalancedNext
  <1>. QED
    BY <1>1, <1>2, <1>3, PTL DEF Spec

-----------------------------------------------------------------------------
(***************************************************************************)
(* Part 3: no sequence goes back in time.                                  *)
(*                                                                         *)
(* A frame on the walk is due at the start of its next chunk, or at its    *)
(* end; what has been sent on the trace sequence is not after the time at  *)
(* which the frame on top is due, and a frame's callers are due only when  *)
(* it has ended.  What is on the sequence of an event that has yet to be   *)
(* reported can only be the track of the data rate, which is not after the *)
(* start of the trace.                                                     *)
(***************************************************************************)
Due(frames, visit) ==
  LET f == frames[visit.frame]
  IN  IF visit.next <= Len(f.chunks) THEN f.chunks[visit.next].start ELSE f.end

Nested(frames, visits) ==
  \A d \in 1 .. Len(visits) - 1 : frames[visits[d + 1].frame].end <= Due(frames, visits[d])

NotAfter(s, time) == \A i \in 1 .. Len(s) : s[i].seq = TraceSequence => s[i].ts <= time

Ordered(s) ==
  /\ \A i \in 1 .. Len(s) : s[i].ts \in Nat
  /\ \A i, j \in 1 .. Len(s) : i < j /\ s[i].seq = s[j].seq => s[i].ts <= s[j].ts

Unreported(s, tr, next) ==
  \A i \in 1 .. Len(s) : \A k \in next .. Len(tr.events) :
    s[i].seq = EventSequence(tr.events[k].id) =>
      s[i].seq = DataRateSequence /\ s[i].ts <= tr.frames[tr.root].start

Timely ==
  /\ Ordered(Stream)
  /\ Unreported(Stream, trace, nextEvent)
  /\ phase = "root" => NotAfter(Stream, Root.start)
  /\ phase = "frames" => /\ NotAfter(Stream, Due(trace.frames, walk[Len(walk)]))
                         /\ Nested(trace.frames, walk)

-----------------------------------------------------------------------------
\* A frame is due between its start and its end.
LEMMA DueInFrame ==
  ASSUME trace \in Traces, NEW v \in Visit
  PROVE  /\ Due(trace.frames, v) \in Nat
         /\ trace.frames[v.frame].start \in Nat /\ trace.frames[v.frame].end \in Nat
         /\ trace.frames[v.frame].start <= Due(trace.frames, v)
         /\ Due(trace.frames, v) <= trace.frames[v.frame].end
  <1>1. PICK f : f = trace.frames[v.frame]
    OBVIOUS
  <1>2. IsFrame(trace, f) /\ v.next \in Nat \ {0}
    BY <1>1, TracesAssumption DEF Visit
  <1>3. f.start \in Nat /\ f.end \in Nat /\ f.start <= f.end /\ Len(f.chunks) \in Nat
    BY <1>2 DEF IsFrame
  <1>4. ASSUME v.next <= Len(f.chunks)
        PROVE  /\ f.chunks[v.next].start \in Nat /\ f.start <= f.chunks[v.next].start
               /\ f.chunks[v.next].start <= f.end
    <2>1. v.next \in 1 .. Len(f.chunks)
      BY <1>2, <1>3, <1>4
    <2>2. PICK c : c = f.chunks[v.next]
      OBVIOUS
    <2>3. f.start <= c.start /\ c.start <= c.end /\ c.end <= f.end
      BY <1>2, <2>1, <2>2 DEF IsFrame
    <2>4. c.start \in Nat /\ c.end \in Nat
      <3>1. c \in Chunk
        BY <1>2, <2>1, <2>2 DEF IsFrame
      <3>. QED
        BY <3>1 DEF Chunk
    <2>. QED
      BY <1>3, <2>2, <2>3, <2>4
  <1>5. CASE v.next <= Len(f.chunks)
    BY <1>1, <1>3, <1>4, <1>5 DEF Due
  <1>6. CASE ~(v.next <= Len(f.chunks))
    BY <1>1, <1>3, <1>6 DEF Due
  <1>. QED
    BY <1>5, <1>6

\* A frame is due at its next chunk, and then not before the chunk has ended.
LEMMA DueAdvances ==
  ASSUME trace \in Traces, NEW v \in Visit,
         v.next \in 1 .. Len(trace.frames[v.frame].chunks),
         NEW w, w = [frame |-> v.frame, next |-> v.next + 1]
  PROVE  LET c == trace.frames[v.frame].chunks[v.next]
         IN  /\ c \in Chunk /\ c.start <= c.end
             /\ Due(trace.frames, v) = c.start
             /\ c.end <= Due(trace.frames, w)
  <1>1. PICK f : f = trace.frames[v.frame]
    OBVIOUS
  <1>2. PICK n : n = v.next
    OBVIOUS
  <1>3. PICK c : c = f.chunks[n]
    OBVIOUS
  <1>4. IsFrame(trace, f) /\ n \in 1 .. Len(f.chunks)
    BY <1>1, <1>2, TracesAssumption DEF Visit
  <1>5. Len(f.chunks) \in Nat /\ n \in Nat /\ n <= Len(f.chunks)
    BY <1>4 DEF IsFrame
  <1>6. c \in Chunk /\ c.start <= c.end /\ c.end <= f.end
        /\ \A j \in 1 .. Len(f.chunks) : n < j => c.end <= f.chunks[j].start
    BY <1>3, <1>4 DEF IsFrame
  <1>7. Due(trace.frames, v) = c.start
    BY <1>1, <1>2, <1>3, <1>5 DEF Due
  <1>8. w.frame = v.frame /\ w.next = n + 1
    BY <1>2
  <1>9. c.end <= Due(trace.frames, w)
    <2>1. CASE n + 1 <= Len(f.chunks)
      <3>1. n + 1 \in 1 .. Len(f.chunks) /\ n < n + 1
        BY <1>5, <2>1
      <3>2. c.end <= f.chunks[n + 1].start
        BY <1>6, <3>1
      <3>. QED
        BY <1>1, <1>8, <2>1, <3>2 DEF Due
    <2>2. CASE ~(n + 1 <= Len(f.chunks))
      BY <1>1, <1>6, <1>8, <2>2 DEF Due
    <2>. QED
      BY <2>1, <2>2
  <1>. QED
    BY <1>1, <1>2, <1>3, <1>6, <1>7, <1>9

-----------------------------------------------------------------------------
(***************************************************************************)
(* A piece after what has been sent.                                       *)
(***************************************************************************)

\* Every packet of a sequence followed by another is a packet of one of them.
LEMMA JoinedPackets ==
  ASSUME NEW s, NEW t, IsSeq(s), IsSeq(t), NEW k \in 1 .. Len(s \o t)
  PROVE  \/ k \in 1 .. Len(s) /\ (s \o t)[k] = s[k]
         \/ k - Len(s) \in 1 .. Len(t) /\ (s \o t)[k] = t[k - Len(s)]
  <1>1. PICK st : st = s \o t
    OBVIOUS
  <1>2. /\ Len(st) = Len(s) + Len(t) /\ Len(s) \in Nat /\ Len(t) \in Nat
        /\ \A i \in 1 .. Len(s) : st[i] = s[i]
        /\ \A i \in 1 .. Len(t) : st[Len(s) + i] = t[i]
    BY <1>1, Joined
  <1>3. CASE k <= Len(s)
    BY <1>1, <1>2, <1>3
  <1>4. CASE ~(k <= Len(s))
    <2>1. k - Len(s) \in 1 .. Len(t) /\ Len(s) + (k - Len(s)) = k
      BY <1>1, <1>2, <1>4
    <2>2. st[Len(s) + (k - Len(s))] = t[k - Len(s)]
      BY <1>2, <2>1
    <2>. QED
      BY <1>1, <2>1, <2>2
  <1>. QED
    BY <1>3, <1>4

LEMMA JoinedOrdered ==
  ASSUME NEW s, NEW t, IsSeq(s), IsSeq(t), Ordered(s), Ordered(t),
         \A i \in 1 .. Len(s), j \in 1 .. Len(t) : s[i].seq = t[j].seq => s[i].ts <= t[j].ts
  PROVE  Ordered(s \o t)
  <1>1. PICK st : st = s \o t
    OBVIOUS
  <1>2. Len(s) \in Nat /\ Len(t) \in Nat
    BY Joined
  <1>3. \A k \in 1 .. Len(st) : \/ k \in 1 .. Len(s) /\ st[k] = s[k]
                                \/ k - Len(s) \in 1 .. Len(t) /\ st[k] = t[k - Len(s)]
    BY <1>1, JoinedPackets
  <1>4. \A k \in 1 .. Len(st) : st[k].ts \in Nat
    BY <1>3 DEF Ordered
  <1>5. ASSUME NEW i \in 1 .. Len(st), NEW j \in 1 .. Len(st), i < j, st[i].seq = st[j].seq
        PROVE  st[i].ts <= st[j].ts
    <2>1. CASE j \in 1 .. Len(s) /\ st[j] = s[j]
      <3>1. i \in 1 .. Len(s) /\ ~(i - Len(s) \in 1 .. Len(t))
        BY <1>2, <1>5, <2>1
      <3>2. st[i] = s[i]
        BY <1>3, <3>1
      <3>. QED
        BY <1>5, <2>1, <3>1, <3>2 DEF Ordered
    <2>2. CASE j - Len(s) \in 1 .. Len(t) /\ st[j] = t[j - Len(s)]
      <3>1. CASE i \in 1 .. Len(s) /\ st[i] = s[i]
        BY <1>5, <2>2, <3>1
      <3>2. CASE i - Len(s) \in 1 .. Len(t) /\ st[i] = t[i - Len(s)]
        <4>1. i - Len(s) < j - Len(s)
          BY <1>2, <1>5
        <4>. QED
          BY <1>5, <2>2, <3>2, <4>1 DEF Ordered
      <3>. QED
        BY <1>3, <3>1, <3>2
    <2>. QED
      BY <1>3, <2>1, <2>2
  <1>. QED
    BY <1>1, <1>4, <1>5 DEF Ordered

LEMMA JoinedUnreported ==
  ASSUME NEW s, NEW t, IsSeq(s), IsSeq(t), NEW tr, NEW next,
         Unreported(s, tr, next), Unreported(t, tr, next)
  PROVE  Unreported(s \o t, tr, next)
  <1>1. PICK st : st = s \o t
    OBVIOUS
  <1>2. \A k \in 1 .. Len(st) : \/ k \in 1 .. Len(s) /\ st[k] = s[k]
                                \/ k - Len(s) \in 1 .. Len(t) /\ st[k] = t[k - Len(s)]
    BY <1>1, JoinedPackets
  <1>. QED
    BY <1>1, <1>2 DEF Unreported

LEMMA JoinedNotAfter ==
  ASSUME NEW s, NEW t, IsSeq(s), IsSeq(t), NEW time, NotAfter(s, time), NotAfter(t, time)
  PROVE  NotAfter(s \o t, time)
  <1>1. PICK st : st = s \o t
    OBVIOUS
  <1>2. \A k \in 1 .. Len(st) : \/ k \in 1 .. Len(s) /\ st[k] = s[k]
                                \/ k - Len(s) \in 1 .. Len(t) /\ st[k] = t[k - Len(s)]
    BY <1>1, JoinedPackets
  <1>. QED
    BY <1>1, <1>2 DEF NotAfter

\* A piece of the trace sequence that starts when the frame on top is due.
LEMMA TracePiece ==
  ASSUME Walking, Ordered(Stream), Unreported(Stream, trace, nextEvent),
         outbox = <<>>, sent' = sent, UNCHANGED <<trace, nextEvent>>,
         IsSeq(outbox'), Ordered(outbox'),
         NEW due \in Nat, NotAfter(Stream, due), NEW then \in Nat, due <= then,
         \A i \in 1 .. Len(outbox') : /\ outbox'[i].seq = TraceSequence
                                      /\ due <= outbox'[i].ts /\ outbox'[i].ts <= then
  PROVE  /\ Ordered(Stream)' /\ Unreported(Stream, trace, nextEvent)'
         /\ NotAfter(Stream', then)
  <1>1. PICK s, t : s = sent /\ t = outbox'
    OBVIOUS
  <1>2. Stream = s /\ IsSeq(s) /\ Stream' = s \o t /\ IsSeq(t)
    BY <1>1, StreamTypes DEF Stream
  <1>3. Ordered(s \o t)
    <2>1. ASSUME NEW i \in 1 .. Len(s), NEW j \in 1 .. Len(t), s[i].seq = t[j].seq
          PROVE  s[i].ts <= t[j].ts
      <3>1. s[i].ts \in Nat /\ t[j].ts \in Nat
        BY <1>1, <1>2 DEF Ordered
      <3>2. s[i].ts <= due /\ due <= t[j].ts
        BY <1>1, <1>2, <2>1 DEF NotAfter
      <3>. QED
        BY <3>1, <3>2
    <2>. QED
      BY <1>1, <1>2, <2>1, JoinedOrdered
  <1>4. Unreported(t, trace, nextEvent)
    <2>1. \A k \in nextEvent .. Len(trace.events) : trace.events[k].id \in Nat
      <3>1. \A k \in nextEvent .. Len(trace.events) : k \in 1 .. Len(trace.events)
        BY TracesAssumption DEF Walking
      <3>. QED
        BY <3>1, TracesAssumption DEF Walking, IsEvent
    <2>2. \A k \in nextEvent .. Len(trace.events) : EventSequence(trace.events[k].id) # TraceSequence
      BY <2>1 DEF EventSequence, TraceSequence
    <2>. QED
      BY <1>1, <2>2 DEF Unreported
  <1>5. Unreported(s \o t, trace, nextEvent)
    BY <1>2, <1>4, JoinedUnreported
  <1>6. NotAfter(s, then) /\ NotAfter(t, then)
    <2>1. \A i \in 1 .. Len(s) : s[i].ts \in Nat
      BY <1>2 DEF Ordered
    <2>2. NotAfter(s, due)
      BY <1>2
    <2>3. NotAfter(s, then)
      BY <2>1, <2>2 DEF NotAfter
    <2>. QED
      BY <1>1, <2>3 DEF NotAfter
  <1>7. NotAfter(s \o t, then)
    BY <1>2, <1>6, JoinedNotAfter
  <1>. QED
    BY <1>2, <1>3, <1>5, <1>7

-----------------------------------------------------------------------------
(***************************************************************************)
(* The pieces are in time.                                                 *)
(***************************************************************************)
LEMMA HeaderTimely ==
  ASSUME Walking, Header
  PROVE  Timely'
  <1>1. PICK t : t = outbox'
    OBVIOUS
  <1>2. sent' = <<>> /\ trace' = trace /\ phase' = "root"
    BY DEF Walking, Header, Unshared
  <1>3. IsSeq(t) /\ Len(t) = 5
    BY <1>1, HeaderPiece
  <1>4. Stream' = t
    <2>1. PICK S : t \in Seq(S)
      BY <1>3 DEF IsSeq
    <2>. QED
      BY <1>1, <1>2, <2>1 DEF Stream
  <1>5. PICK start, end : start = Root.start /\ end = Root.end
    OBVIOUS
  <1>6. start \in Nat /\ end \in Nat /\ start <= end
    BY <1>5, TracesAssumption DEF Walking, IsFrame, Root, Frame
  <1>7. /\ t[1].seq = 1 /\ t[2].seq = 1 /\ t[3].seq = 1 /\ t[4].seq = 4 /\ t[5].seq = 2
        /\ t[1].ts = start /\ t[2].ts = start /\ t[3].ts = end /\ t[4].ts = start /\ t[5].ts = start
    BY <1>1, <1>5, HeaderPiece DEF GlobalSequence, TraceSequence, DataRateSequence
  <1>8. \A i \in 1 .. 5 : i = 1 \/ i = 2 \/ i = 3 \/ i = 4 \/ i = 5
    OBVIOUS
  <1>9. Ordered(t)
    <2>1. \A i \in 1 .. 5 : t[i].ts \in Nat
      BY <1>6, <1>7, <1>8
    <2>2. ASSUME NEW i \in 1 .. 5, NEW j \in 1 .. 5, i < j, t[i].seq = t[j].seq
          PROVE  t[i].ts <= t[j].ts
      <3>1. CASE i = 3
        <4>1. j = 4 \/ j = 5
          BY <1>8, <2>2, <3>1
        <4>. QED
          BY <1>7, <2>2, <3>1, <4>1
      <3>2. CASE i # 3
        <4>1. t[i].ts = start
          BY <1>7, <1>8, <3>2
        <4>2. t[j].ts = start \/ t[j].ts = end
          BY <1>7, <1>8
        <4>. QED
          BY <1>6, <4>1, <4>2
      <3>. QED
        BY <3>1, <3>2
    <2>. QED
      BY <1>3, <2>1, <2>2 DEF Ordered
  <1>10. Unreported(t, trace, nextEvent)
    <2>1. ASSUME NEW i \in 1 .. 5, NEW k \in nextEvent .. Len(trace.events),
                 t[i].seq = EventSequence(trace.events[k].id)
          PROVE  t[i].seq = DataRateSequence /\ t[i].ts <= start
      <3>1. k \in 1 .. Len(trace.events)
        BY TracesAssumption DEF Walking
      <3>2. trace.events[k].id \in Nat
        BY <3>1, TracesAssumption DEF Walking, IsEvent
      <3>3. t[i].seq >= 3 /\ t[i].seq \in Nat
        BY <2>1, <3>2 DEF EventSequence
      <3>4. i = 4
        BY <1>7, <1>8, <3>3
      <3>. QED
        BY <1>6, <1>7, <3>4 DEF DataRateSequence
    <2>. QED
      BY <1>3, <1>5, <2>1 DEF Unreported, Root, Frame
  <1>11. NotAfter(t, start)
    <2>1. \A i \in 1 .. 5 : t[i].seq = TraceSequence => t[i].ts = start
      BY <1>7, <1>8 DEF TraceSequence
    <2>. QED
      BY <1>3, <1>6, <2>1 DEF NotAfter
  <1>12. nextEvent' = nextEvent /\ Root' = Root
    BY <1>2 DEF Header, Root, Frame
  <1>. QED
    BY <1>2, <1>4, <1>5, <1>9, <1>10, <1>11, <1>12 DEF Timely

\* A piece of one packet is in order.
LEMMA SingleOrdered ==
  ASSUME NEW p, p.ts \in Nat
  PROVE  Ordered(<<p>>)
  <1>1. PICK t : t = <<p>>
    OBVIOUS
  <1>2. Len(t) = 1 /\ t[1] = p
    BY <1>1
  <1>3. \A i \in 1 .. 1 : i = 1
    OBVIOUS
  <1>. QED
    BY <1>1, <1>2, <1>3 DEF Ordered

\* A frame begins when the one on top, if any, is due.
LEMMA BeginTimely ==
  ASSUME Walking, Timely, NEW id, NEW callers, BeginFrame(id, callers),
         id \in DOMAIN trace.frames, callers \in Seq(Visit),
         NotAfter(Stream, trace.frames[id].start),
         Nested(trace.frames, callers),
         callers # <<>> => trace.frames[id].end <= Due(trace.frames, callers[Len(callers)]),
         outbox = <<>>, UNCHANGED <<trace, sent, nextEvent>>, phase' = "frames"
  PROVE  Timely'
  <1>1. PICK f : f = trace.frames[id]
    OBVIOUS
  <1>2. trace \in Traces
    BY DEF Walking
  <1>3. PICK n : n = Len(callers)
    OBVIOUS
  <1>4. PICK w : w = walk'
    OBVIOUS
  <1>5. /\ w \in Seq(Visit) /\ Len(w) = n + 1 /\ n \in Nat
        /\ \A i \in 1 .. n : w[i] = callers[i]
        /\ w[n + 1] = [frame |-> id, next |-> 1]
    BY <1>2, <1>3, <1>4, BeginFrameWalks
  <1>6. PICK v : v = w[n + 1]
    OBVIOUS
  <1>7. v \in Visit /\ v.frame = id
    BY <1>5, <1>6
  <1>8. PICK due : due = Due(trace.frames, v)
    OBVIOUS
  <1>9. f.start \in Nat /\ due \in Nat /\ f.start <= due
    BY <1>1, <1>2, <1>7, <1>8, DueInFrame
  <1>10. PICK d, u, x : outbox' = <<SliceBegin(TraceSequence, Frame(id).start, d, u, x)>>
    BY Zenon DEF BeginFrame
  <1>11. PICK p : p = SliceBegin(TraceSequence, Frame(id).start, d, u, x)
    OBVIOUS
  <1>12. outbox' = <<p>> /\ p.seq = TraceSequence /\ p.ts = f.start
    BY <1>1, <1>10, <1>11, PacketFields DEF PacketDefs, Frame
  <1>13. PICK t : t = outbox'
    OBVIOUS
  <1>14. IsSeq(t) /\ Ordered(t) /\ Len(t) = 1 /\ t[1] = p
    BY <1>9, <1>12, <1>13, SinglePiece, SingleOrdered
  <1>15. \A i \in 1 .. Len(t) : t[i].seq = TraceSequence /\ f.start <= t[i].ts /\ t[i].ts <= due
    <2>1. \A i \in 1 .. 1 : i = 1
      OBVIOUS
    <2>. QED
      BY <1>9, <1>12, <1>14, <2>1
  <1>16. /\ Ordered(Stream)' /\ Unreported(Stream, trace, nextEvent)' /\ NotAfter(Stream', due)
    BY <1>1, <1>9, <1>13, <1>14, <1>15, TracePiece DEF Timely
  <1>17. Nested(trace.frames, w)
    <2>1. ASSUME NEW e \in 1 .. n
          PROVE  trace.frames[w[e + 1].frame].end <= Due(trace.frames, w[e])
      <3>1. CASE e = n
        <4>1. callers # <<>>
          BY <1>3, <3>1
        <4>2. w[e] = callers[n] /\ w[e + 1].frame = id
          BY <1>5, <1>6, <1>7, <3>1
        <4>. QED
          BY <1>3, <4>1, <4>2
      <3>2. CASE e # n
        <4>1. e \in 1 .. Len(callers) - 1 /\ e + 1 \in 1 .. n
          BY <1>3, <1>5, <3>2
        <4>2. w[e] = callers[e] /\ w[e + 1] = callers[e + 1]
          BY <1>5, <4>1
        <4>. QED
          BY <4>1, <4>2 DEF Nested
      <3>. QED
        BY <3>1, <3>2
    <2>2. Len(w) - 1 = n
      BY <1>5
    <2>. QED
      BY <2>1, <2>2 DEF Nested
  <1>18. walk'[Len(walk')] = v
    BY <1>4, <1>5, <1>6
  <1>. QED
    BY <1>4, <1>8, <1>16, <1>17, <1>18 DEF Timely

\* The rest of the walk stays as it is when the frame on top goes on.
LEMMA NestedAdvanced ==
  ASSUME Walking, walk # <<>>, Nested(trace.frames, walk)
  PROVE  Nested(trace.frames, Advanced)
  <1>1. PICK n, w : n = Len(walk) /\ w = Advanced
    OBVIOUS
  <1>2. /\ n \in Nat /\ Len(w) = n /\ \A i \in 1 .. n - 1 : w[i] = walk[i]
        /\ w[n].frame = walk[n].frame
    BY <1>1, AdvancedWalks DEF Walking
  <1>3. ASSUME NEW d \in 1 .. n - 1
        PROVE  trace.frames[w[d + 1].frame].end <= Due(trace.frames, w[d])
    <2>1. w[d] = walk[d]
      BY <1>2
    <2>2. w[d + 1].frame = walk[d + 1].frame
      <3>1. CASE d + 1 = n
        BY <1>2, <3>1
      <3>2. CASE d + 1 # n
        <4>1. d + 1 \in 1 .. n - 1
          BY <1>2, <3>2
        <4>. QED
          BY <1>2, <4>1
      <3>. QED
        BY <3>1, <3>2
    <2>. QED
      BY <1>1, <2>1, <2>2 DEF Nested
  <1>. QED
    BY <1>1, <1>2, <1>3 DEF Nested

LEMMA RootTimely ==
  ASSUME Walking, Timely, BeginRoot
  PROVE  Timely'
  <1>1. walk = <<>> /\ Len(<<>>) = 0 /\ <<>> \in Seq(Visit)
    BY DEF Walking, BeginRoot
  <1>2. trace.root \in DOMAIN trace.frames
    BY TracesAssumption DEF Walking
  <1>3. NotAfter(Stream, trace.frames[trace.root].start)
    BY DEF Timely, BeginRoot, Root, Frame
  <1>4. Nested(trace.frames, walk)
    <2>1. \A d \in 1 .. Len(walk) - 1 : FALSE
      BY <1>1
    <2>. QED
      BY <2>1 DEF Nested
  <1>5. BeginFrame(trace.root, walk) /\ outbox = <<>> /\ UNCHANGED <<trace, sent, nextEvent>>
        /\ phase' = "frames"
    BY DEF BeginRoot, Ready, Unshared
  <1>. QED
    BY <1>1, <1>2, <1>3, <1>4, <1>5, BeginTimely

\* The chunk the frame on top is due at.
LEMMA TopChunk ==
  ASSUME Walking, ProcessChunk
  PROVE  /\ walk \in Seq(Visit) /\ walk # <<>> /\ Len(walk) \in Nat /\ Len(walk) >= 1
         /\ NextChunk \in Chunk /\ NextChunk.start \in Nat /\ NextChunk.end \in Nat
         /\ NextChunk.start <= NextChunk.end
         /\ Due(trace.frames, walk[Len(walk)]) = NextChunk.start
         /\ NextChunk.end <= Due(trace.frames, Advanced[Len(walk)])
         /\ Due(trace.frames, Advanced[Len(walk)]) \in Nat
         /\ NextChunk.kind = "Frame" =>
              /\ NextChunk.id \in DOMAIN trace.frames
              /\ trace.frames[NextChunk.id].start = NextChunk.start
              /\ trace.frames[NextChunk.id].end = NextChunk.end
  <1>1. walk \in Seq(Visit) /\ walk # <<>> /\ trace \in Traces /\ phase = "frames"
        /\ Current.next <= Len(CurrentFrame.chunks)
    BY DEF Walking, ProcessChunk, InFrame
  <1>2. PICK v, w, n : v = Current /\ n = Len(walk) /\ w = Advanced[n]
    OBVIOUS
  <1>3. /\ n \in Nat /\ n >= 1 /\ v = walk[n] /\ v \in Visit
        /\ w = [frame |-> v.frame, next |-> v.next + 1]
        /\ Advanced \in Seq(Visit) /\ Len(Advanced) = n
    BY <1>1, <1>2, AdvancedWalks
  <1>4. w \in Visit
    BY <1>3 DEF Visit
  <1>5. PICK c : c = NextChunk
    OBVIOUS
  <1>6. /\ IsFrame(trace, CurrentFrame) /\ v.next \in 1 .. Len(CurrentFrame.chunks)
        /\ c \in Chunk
    BY <1>1, <1>2, <1>5, ChunkType
  <1>7. CurrentFrame = trace.frames[v.frame] /\ c = trace.frames[v.frame].chunks[v.next]
    BY <1>2, <1>5 DEF CurrentFrame, Frame, NextChunk
  <1>8. /\ c.start <= c.end /\ Due(trace.frames, v) = c.start /\ c.end <= Due(trace.frames, w)
    BY <1>1, <1>3, <1>6, <1>7, DueAdvances
  <1>9. c.start \in Nat /\ c.end \in Nat
    BY <1>6 DEF Chunk
  <1>10. Due(trace.frames, w) \in Nat
    BY <1>1, <1>4, DueInFrame
  <1>11. c.kind = "Frame" => /\ c.id \in DOMAIN trace.frames
                             /\ trace.frames[c.id].start = c.start
                             /\ trace.frames[c.id].end = c.end
    BY <1>6, <1>7 DEF IsFrame
  <1>. QED
    BY <1>1, <1>2, <1>3, <1>5, <1>6, <1>8, <1>9, <1>10, <1>11

\* The frames on the walk end at the start of a pause and begin at its end.
LEMMA GapOrdered ==
  ASSUME NEW t, NEW n \in Nat, Len(t) = n + n,
         NEW start \in Nat, NEW end \in Nat, start <= end,
         \A i \in 1 .. n : t[i].ts = start, \A i \in n + 1 .. n + n : t[i].ts = end
  PROVE  Ordered(t) /\ \A i \in 1 .. Len(t) : start <= t[i].ts /\ t[i].ts <= end
  <1>1. \A i \in 1 .. n + n : i \in 1 .. n \/ i \in n + 1 .. n + n
    OBVIOUS
  <1>2. \A i \in 1 .. n + n : t[i].ts \in Nat /\ start <= t[i].ts /\ t[i].ts <= end
    BY <1>1
  <1>3. ASSUME NEW i \in 1 .. n + n, NEW j \in 1 .. n + n, i < j
        PROVE  t[i].ts <= t[j].ts
    <2>1. CASE i \in 1 .. n
      <3>1. t[i].ts = start
        BY <2>1
      <3>. QED
        BY <1>2, <3>1
    <2>2. CASE i \in n + 1 .. n + n
      <3>1. j \in n + 1 .. n + n
        BY <1>3, <2>2
      <3>. QED
        BY <2>2, <3>1
    <2>. QED
      BY <1>1, <2>1, <2>2
  <1>. QED
    BY <1>2, <1>3 DEF Ordered

LEMMA PauseTimely ==
  ASSUME Walking, Timely, ProcessChunk, RenderGap(NextChunk)
  PROVE  Timely'
  <1>1. PICK n, pause, due :
          n = Len(walk) /\ pause = NextChunk /\ due = Due(trace.frames, Advanced[n])
    OBVIOUS
  <1>2. /\ walk \in Seq(Visit) /\ walk # <<>> /\ n \in Nat /\ n >= 1
        /\ pause.start \in Nat /\ pause.end \in Nat /\ pause.start <= pause.end
        /\ Due(trace.frames, walk[n]) = pause.start /\ pause.end <= due /\ due \in Nat
    BY <1>1, TopChunk
  <1>3. /\ phase = "frames" /\ phase' = "frames" /\ outbox = <<>>
        /\ sent' = sent /\ trace' = trace /\ nextEvent' = nextEvent
    BY DEF ProcessChunk, InFrame, Ready, Unshared
  <1>4. PICK t : t = outbox'
    OBVIOUS
  <1>5. /\ IsSeq(t) /\ Ordered(t)
        /\ \A i \in 1 .. Len(t) : t[i].seq = TraceSequence /\ pause.start <= t[i].ts /\ t[i].ts <= pause.end
    <2>1. CASE t = GapPackets(pause)
      <3>1. /\ IsSeq(t) /\ Len(t) = n + n
            /\ \A i \in 1 .. n : t[i].seq = TraceSequence /\ t[i].ts = pause.start
            /\ \A i \in n + 1 .. n + n : t[i].seq = TraceSequence /\ t[i].ts = pause.end
        BY <1>1, <1>2, <2>1, GapPacketsPiece
      <3>2. Ordered(t) /\ \A i \in 1 .. Len(t) : pause.start <= t[i].ts /\ t[i].ts <= pause.end
        <4>1. PICK start, end : start = pause.start /\ end = pause.end
          OBVIOUS
        <4>2. start \in Nat /\ end \in Nat /\ start <= end /\ n \in Nat /\ Len(t) = n + n
          BY <1>2, <3>1, <4>1
        <4>3. \A i \in 1 .. n : t[i].ts = start
          BY <3>1, <4>1
        <4>4. \A i \in n + 1 .. n + n : t[i].ts = end
          BY <3>1, <4>1
        <4>5. Ordered(t) /\ \A i \in 1 .. Len(t) : start <= t[i].ts /\ t[i].ts <= end
          BY <4>2, <4>3, <4>4, GapOrdered
        <4>. QED
          BY <4>1, <4>5
      <3>3. \A i \in 1 .. n + n : i \in 1 .. n \/ i \in n + 1 .. n + n
        BY <1>2
      <3>. QED
        BY <3>1, <3>2, <3>3
    <2>2. CASE t = BlockPackets(pause, tables'.events)
      <3>1. PICK p, q : /\ t = <<p, q>>
                        /\ p.ts = pause.start /\ p.seq = TraceSequence
                        /\ q.ts = pause.end /\ q.seq = TraceSequence
        BY <2>2, PacketFields DEF BlockPackets, PacketDefs
      <3>2. Len(t) = 1 + 1 /\ t[1] = p /\ t[2] = q
        BY <3>1
      <3>3. IsSeq(t)
        <4>1. <<p, q>> \in Seq({p, q})
          OBVIOUS
        <4>. QED
          BY <3>1, <4>1 DEF IsSeq
      <3>4. /\ \A i \in 1 .. 1 : t[i].ts = pause.start
            /\ \A i \in 1 + 1 .. 1 + 1 : t[i].ts = pause.end
        <4>1. \A i \in 1 .. 1 : i = 1
          OBVIOUS
        <4>2. \A i \in 1 + 1 .. 1 + 1 : i = 2
          OBVIOUS
        <4>. QED
          BY <3>1, <3>2, <4>1, <4>2
      <3>5. Ordered(t) /\ \A i \in 1 .. Len(t) : pause.start <= t[i].ts /\ t[i].ts <= pause.end
        BY <1>2, <3>2, <3>4, GapOrdered
      <3>6. \A i \in 1 .. 2 : i = 1 \/ i = 2
        OBVIOUS
      <3>7. \A i \in 1 .. Len(t) : t[i].seq = TraceSequence
        BY <3>1, <3>2, <3>6
      <3>. QED
        BY <3>3, <3>5, <3>7
    <2>. QED
      BY <1>1, <1>4, <2>1, <2>2 DEF RenderGap
  <1>6. \A i \in 1 .. Len(t) :
          t[i].seq = TraceSequence /\ pause.start <= t[i].ts /\ t[i].ts <= due
    <2>1. \A i \in 1 .. Len(t) : t[i].ts \in Nat
      BY <1>5 DEF Ordered
    <2>. QED
      BY <1>2, <1>5, <2>1
  <1>7. NotAfter(Stream, pause.start) /\ pause.start <= due
    BY <1>1, <1>2, <1>3 DEF Timely
  <1>8. /\ Ordered(Stream)' /\ Unreported(Stream, trace, nextEvent)' /\ NotAfter(Stream', due)
    BY <1>2, <1>3, <1>4, <1>5, <1>6, <1>7, TracePiece DEF Timely
  <1>9. Nested(trace.frames, Advanced)
    BY <1>2, <1>3, NestedAdvanced DEF Timely
  <1>10. walk' = Advanced /\ Len(Advanced) = n
    BY <1>1, <1>2, AdvancedWalks DEF RenderGap
  <1>. QED
    BY <1>1, <1>3, <1>8, <1>9, <1>10 DEF Timely

LEMMA ChunkTimely ==
  ASSUME Walking, Timely, ProcessChunk
  PROVE  Timely'
  <1>1. CASE NextChunk.kind = "Pause" /\ RenderGap(NextChunk)
    BY <1>1, PauseTimely
  <1>2. CASE NextChunk.kind = "Frame" /\ BeginFrame(NextChunk.id, Advanced)
    <2>1. PICK id : id = NextChunk.id
      OBVIOUS
    <2>2. /\ phase = "frames" /\ phase' = "frames" /\ outbox = <<>>
          /\ UNCHANGED <<trace, sent, nextEvent>>
      BY DEF ProcessChunk, InFrame, Ready, Unshared
    <2>3. /\ walk \in Seq(Visit) /\ walk # <<>>
          /\ id \in DOMAIN trace.frames
          /\ Due(trace.frames, walk[Len(walk)]) = trace.frames[id].start
          /\ trace.frames[id].end <= Due(trace.frames, Advanced[Len(walk)])
      BY <1>2, <2>1, TopChunk
    <2>4. Advanced \in Seq(Visit) /\ Len(Advanced) = Len(walk)
      BY <2>3, AdvancedWalks
    <2>5. NotAfter(Stream, trace.frames[id].start) /\ Nested(trace.frames, walk)
      BY <2>2, <2>3 DEF Timely
    <2>6. Nested(trace.frames, Advanced)
      BY <2>3, <2>5, NestedAdvanced
    <2>7. BeginFrame(id, Advanced)
      BY <1>2, <2>1
    <2>. QED
      BY <2>2, <2>3, <2>4, <2>5, <2>6, <2>7, BeginTimely
  <1>. QED
    BY <1>1, <1>2 DEF ProcessChunk

LEMMA EndTimely ==
  ASSUME Walking, Timely, EndFrame
  PROVE  Timely'
  <1>1. PICK n, w, f : n = Len(walk) /\ w = walk' /\ f = CurrentFrame
    OBVIOUS
  <1>2. /\ walk \in Seq(Visit) /\ walk # <<>> /\ trace \in Traces /\ phase = "frames"
        /\ outbox = <<>> /\ sent' = sent /\ trace' = trace /\ nextEvent' = nextEvent
    BY DEF Walking, EndFrame, InFrame, Ready, Unshared
  <1>3. /\ n \in Nat /\ n >= 1 /\ w \in Seq(Visit) /\ Len(w) = n - 1
        /\ \A i \in 1 .. n - 1 : w[i] = walk[i]
    BY <1>1, <1>2, FrontWalks DEF EndFrame
  <1>4. f = trace.frames[walk[n].frame] /\ walk[n] \in Visit
    BY <1>1, <1>2, AdvancedWalks DEF CurrentFrame, Frame
  <1>5. PICK due : due = Due(trace.frames, walk[n])
    OBVIOUS
  <1>6. due \in Nat /\ f.end \in Nat /\ due <= f.end
    BY <1>2, <1>4, <1>5, DueInFrame
  <1>7. PICK p : p = SliceEnd(TraceSequence, f.end, f.end_rate)
    OBVIOUS
  <1>8. PICK t : t = outbox'
    OBVIOUS
  <1>9. t = <<p>> /\ p.seq = TraceSequence /\ p.ts = f.end
    BY <1>1, <1>7, <1>8, PacketFields DEF EndFrame, PacketDefs
  <1>10. IsSeq(t) /\ Ordered(t) /\ Len(t) = 1 /\ t[1] = p
    BY <1>6, <1>9, SinglePiece, SingleOrdered
  <1>11. \A i \in 1 .. Len(t) : t[i].seq = TraceSequence /\ due <= t[i].ts /\ t[i].ts <= f.end
    <2>1. \A i \in 1 .. 1 : i = 1
      OBVIOUS
    <2>. QED
      BY <1>6, <1>9, <1>10, <2>1
  <1>12. NotAfter(Stream, due) /\ Nested(trace.frames, walk)
    BY <1>1, <1>2, <1>5 DEF Timely
  <1>13. /\ Ordered(Stream)' /\ Unreported(Stream, trace, nextEvent)' /\ NotAfter(Stream', f.end)
    BY <1>2, <1>6, <1>8, <1>10, <1>11, <1>12, TracePiece DEF Timely
  <1>14. CASE n = 1
    BY <1>1, <1>13, <1>14 DEF Timely, EndFrame
  <1>15. CASE n # 1
    <2>1. n - 1 \in 1 .. n - 1 /\ (n - 1) + 1 = n /\ n - 1 \in Nat
      BY <1>3, <1>15
    <2>2. f.end <= Due(trace.frames, walk[n - 1])
      <3>1. trace.frames[walk[(n - 1) + 1].frame].end <= Due(trace.frames, walk[n - 1])
        BY <1>1, <1>12, <2>1 DEF Nested
      <3>. QED
        BY <1>4, <2>1, <3>1
    <2>3. PICK then : then = Due(trace.frames, w[n - 1])
      OBVIOUS
    <2>4. w[n - 1] = walk[n - 1] /\ walk[n - 1] \in Visit
      BY <1>1, <1>2, <1>3, <2>1
    <2>5. then \in Nat /\ f.end <= then
      BY <1>2, <2>2, <2>3, <2>4, DueInFrame
    <2>6. NotAfter(Stream', then)
      <3>1. \A i \in 1 .. Len(Stream') : Stream'[i].ts \in Nat
        BY <1>13 DEF Ordered
      <3>. QED
        BY <1>6, <1>13, <2>5, <3>1 DEF NotAfter
    <2>7. Nested(trace.frames, w)
      <3>1. ASSUME NEW d \in 1 .. (n - 1) - 1
            PROVE  trace.frames[w[d + 1].frame].end <= Due(trace.frames, w[d])
        <4>1. d \in 1 .. n - 1 /\ d + 1 \in 1 .. n - 1
          BY <1>3
        <4>. QED
          BY <1>1, <1>3, <1>12, <4>1 DEF Nested
      <3>. QED
        BY <1>3, <3>1 DEF Nested
    <2>8. phase' = "frames" /\ Len(walk') = n - 1
      BY <1>1, <1>3, <1>15 DEF EndFrame
    <2>. QED
      BY <1>1, <1>2, <1>13, <2>3, <2>6, <2>7, <2>8 DEF Timely
  <1>. QED
    BY <1>14, <1>15

\* The packets of an event are in order, since its occurences are sorted; and
\* no other event has its sequence.
LEMMA EventTimely ==
  ASSUME EventsApart, Walking, Timely, ReportEvent
  PROVE  Timely'
  <1>1. PICK e, k : e = trace.events[nextEvent] /\ k = nextEvent
    OBVIOUS
  <1>2. k \in 1 .. Len(trace.events) /\ IsEvent(e) /\ trace \in Traces
    BY <1>1, EventType DEF Walking
  <1>3. /\ outbox = <<>> /\ sent' = sent /\ trace' = trace /\ phase' = "events"
        /\ nextEvent' = k + 1
    BY <1>1 DEF ReportEvent, Ready, Unshared
  <1>4. PICK s, t, n, start : s = sent /\ t = outbox' /\ n = Len(e.occurences)
                              /\ start = trace.frames[trace.root].start
    OBVIOUS
  <1>5. Stream = s /\ IsSeq(s) /\ Stream' = s \o t
    BY <1>3, <1>4, StreamTypes DEF Stream
  <1>6. t = EventPackets(e)
    BY <1>1, <1>4 DEF ReportEvent
  <1>7. /\ n \in Nat /\ IsSeq(t) /\ Len(t) = IF n = 0 THEN 0 ELSE n + 1
        /\ \A i \in 1 .. Len(t) : t[i].seq = EventSequence(e.id)
        /\ n # 0 => t[1].ts = e.occurences[1]
        /\ \A i \in 1 .. n : t[i + 1].ts = e.occurences[i]
    BY <1>2, <1>4, <1>6, EventPiece
  <1>8. start \in Nat
    BY <1>2, <1>4, TracesAssumption DEF IsFrame
  <1>9. /\ \A i \in 1 .. n : e.occurences[i] \in Nat
        /\ \A i, j \in 1 .. n : i <= j => e.occurences[i] <= e.occurences[j]
    BY <1>2, <1>4 DEF IsEvent
  <1>10. EventSequence(e.id) = DataRateSequence => \A i \in 1 .. n : start <= e.occurences[i]
    BY <1>1, <1>2, <1>4 DEF EventsApart
  <1>11. \A i \in 1 .. Len(t) : \E o \in 1 .. n : /\ t[i].ts = e.occurences[o]
                                                  /\ o = IF i = 1 THEN 1 ELSE i - 1
    <2>1. ASSUME NEW i \in 1 .. Len(t)
          PROVE  \E o \in 1 .. n : t[i].ts = e.occurences[o] /\ o = IF i = 1 THEN 1 ELSE i - 1
      <3>1. n # 0 /\ n >= 1 /\ Len(t) = n + 1
        BY <1>7
      <3>2. CASE i = 1
        <4>1. 1 \in 1 .. n
          BY <1>7, <3>1
        <4>. QED
          BY <1>7, <3>1, <3>2, <4>1
      <3>3. CASE i # 1
        <4>1. i - 1 \in 1 .. n /\ (i - 1) + 1 = i
          BY <1>7, <3>1, <3>3
        <4>2. t[(i - 1) + 1].ts = e.occurences[i - 1]
          BY <1>7, <4>1
        <4>. QED
          BY <3>3, <4>1, <4>2
      <3>. QED
        BY <3>2, <3>3
    <2>. QED
      BY <2>1
  <1>12. /\ Ordered(t)
         /\ EventSequence(e.id) = DataRateSequence => \A i \in 1 .. Len(t) : start <= t[i].ts
    <2>1. \A i \in 1 .. Len(t) : t[i].ts \in Nat
      BY <1>9, <1>11
    <2>2. EventSequence(e.id) = DataRateSequence => \A i \in 1 .. Len(t) : start <= t[i].ts
      BY <1>11, <1>10
    <2>3. ASSUME NEW i \in 1 .. Len(t), NEW j \in 1 .. Len(t), i < j
          PROVE  t[i].ts <= t[j].ts
      <3>1. PICK a \in 1 .. n : t[i].ts = e.occurences[a] /\ a = IF i = 1 THEN 1 ELSE i - 1
        BY <1>11
      <3>2. PICK b \in 1 .. n : t[j].ts = e.occurences[b] /\ b = IF j = 1 THEN 1 ELSE j - 1
        BY <1>11
      <3>3. a <= b
        BY <1>7, <2>3, <3>1, <3>2
      <3>. QED
        BY <1>9, <3>1, <3>2, <3>3
    <2>. QED
      BY <2>1, <2>3, <2>2 DEF Ordered
  <1>13. Ordered(s \o t)
    <2>1. ASSUME NEW i \in 1 .. Len(s), NEW j \in 1 .. Len(t), s[i].seq = t[j].seq
          PROVE  s[i].ts <= t[j].ts
      <3>1. k \in nextEvent .. Len(trace.events) /\ s[i].seq = EventSequence(trace.events[k].id)
        BY <1>1, <1>2, <1>7, <2>1
      <3>2. s[i].ts <= start /\ EventSequence(e.id) = DataRateSequence
        BY <1>1, <1>4, <1>5, <3>1 DEF Timely, Unreported
      <3>3. s[i].ts \in Nat /\ t[j].ts \in Nat /\ start <= t[j].ts
        BY <1>5, <1>12, <3>2 DEF Timely, Ordered
      <3>. QED
        BY <1>8, <3>2, <3>3
    <2>. QED
      BY <1>5, <1>7, <1>12, <2>1, JoinedOrdered DEF Timely
  <1>14. Unreported(s \o t, trace, k + 1)
    <2>1. Unreported(s, trace, k + 1)
      <3>1. \A m \in k + 1 .. Len(trace.events) : m \in k .. Len(trace.events)
        BY <1>2
      <3>. QED
        BY <1>1, <1>5, <3>1 DEF Timely, Unreported
    <2>2. Unreported(t, trace, k + 1)
      <3>1. ASSUME NEW m \in k + 1 .. Len(trace.events)
            PROVE  EventSequence(e.id) # EventSequence(trace.events[m].id)
        <4>1. m \in 1 .. Len(trace.events) /\ m # k
          BY <1>2
        <4>2. e.id # trace.events[m].id /\ e.id \in Nat /\ trace.events[m].id \in Nat
          BY <1>1, <1>2, <4>1, TracesAssumption DEF IsEvent, EventsApart
        <4>. QED
          BY <4>2 DEF EventSequence
      <3>. QED
        BY <1>7, <3>1 DEF Unreported
    <2>. QED
      BY <1>5, <1>7, <2>1, <2>2, JoinedUnreported
  <1>. QED
    BY <1>3, <1>5, <1>13, <1>14 DEF Timely

-----------------------------------------------------------------------------
LEMMA TimelyInit == Init => Timely
  <1> SUFFICES ASSUME Init
               PROVE  Timely
    OBVIOUS
  <1>1. PICK s : s = Stream
    OBVIOUS
  <1>2. s = <<>> /\ Len(s) = 0
    BY <1>1 DEF Init, Stream
  <1>3. Ordered(s) /\ Unreported(s, trace, nextEvent)
    BY <1>2 DEF Ordered, Unreported
  <1>. QED
    BY <1>1, <1>3 DEF Timely, Init

LEMMA TimelyNext ==
  ASSUME EventsApart \/ ~ReportEvent, Walking, Timely, [Next]_vars
  PROVE  Timely'
  <1>1. CASE Header
    BY <1>1, HeaderTimely
  <1>2. CASE BeginRoot
    BY <1>2, RootTimely
  <1>3. CASE ProcessChunk
    BY <1>3, ChunkTimely
  <1>4. CASE EndFrame
    BY <1>4, EndTimely
  <1>5. CASE ReportEvent
    BY <1>5, EventTimely
  <1>6. CASE Send
    <2>1. Stream' = Stream
      BY <1>6, MoveHead DEF Send, Stream, Walking
    <2>2. UNCHANGED <<trace, walk, nextEvent, phase>> /\ Root' = Root
      BY <1>6 DEF Send, Root, Frame
    <2>. QED
      BY <2>1, <2>2 DEF Timely
  <1>7. CASE SendFails
    <2>1. IsSeq(sent) /\ IsSeq(outbox) /\ Walking'
      BY WalkingNext DEF Walking
    <2>2. Stream' = sent /\ phase' = "panicked" /\ trace' = trace /\ nextEvent' = nextEvent
      BY <1>7, <2>1, StreamTypes DEF SendFails, Stream
    <2>3. /\ Len(sent) \in Nat /\ Len(Stream) = Len(sent) + Len(outbox) /\ Len(outbox) \in Nat
          /\ \A i \in 1 .. Len(sent) : Stream[i] = sent[i]
      BY <2>1, Joined DEF Stream
    <2>4. \A i \in 1 .. Len(sent) : i \in 1 .. Len(Stream)
      BY <2>3
    <2>5. Ordered(sent) /\ Unreported(sent, trace, nextEvent)
      BY <2>3, <2>4 DEF Timely, Ordered, Unreported
    <2>. QED
      BY <2>2, <2>5 DEF Timely
  <1>8. CASE \/ CreateFile \/ CreateFileFails \/ FinishConversion \/ Join
             \/ Write \/ WriteFails \/ WriterEnds \/ CtrlC \/ Terminated \/ UNCHANGED vars
    <2>1. /\ UNCHANGED <<trace, walk, sent, outbox, nextEvent>>
          /\ phase' \in {"root", "frames"} => phase' = phase
      BY <1>8 DEF CreateFile, CreateFileFails, FinishConversion, Join, Write, WriteFails,
                  WriterEnds, CtrlC, Terminated, converterVars, vars
    <2>2. Stream' = Stream /\ Root' = Root
      BY <2>1 DEF Stream, Root, Frame
    <2>. QED
      BY <2>1, <2>2 DEF Timely
  <1>. QED
    BY <1>1, <1>2, <1>3, <1>4, <1>5, <1>6, <1>7, <1>8 DEF Next, Convert, Writer

\* The packets of a sequence are sent in the order of their times, also when
\* frames are cut at pauses, when a stop closes them early and when an event
\* shares the data rate's sequence (process_frame and start of
\* perfetto/converter.rs).
THEOREM TimestampsAlwaysInOrder ==
  ASSUME EventsApart
  PROVE  Spec => []TimestampsInOrder
  <1>1. ASSUME Walking, Timely
        PROVE  TimestampsInOrder
    <2>1. IsSeq(sent) /\ IsSeq(outbox)
      BY <1>1 DEF Walking
    <2>2. /\ Len(sent) \in Nat /\ Len(Stream) = Len(sent) + Len(outbox) /\ Len(outbox) \in Nat
          /\ \A i \in 1 .. Len(sent) : Stream[i] = sent[i]
      BY <2>1, Joined DEF Stream
    <2>3. \A i \in 1 .. Len(sent) : i \in 1 .. Len(Stream)
      BY <2>2
    <2>. QED
      BY <1>1, <2>2, <2>3 DEF Timely, Ordered, TimestampsInOrder
  <1>2. Init => Walking /\ Timely
    BY WalkingInit, TimelyInit
  <1>3. Walking /\ Timely /\ [Next]_vars => (Walking /\ Timely)'
    BY WalkingNext, TimelyNext
  <1>. QED
    BY <1>1, <1>2, <1>3, PTL DEF Spec

\* What has been sent is fit to be read at any time, stopped or not (the loop of
\* process_frame is left by a break that still ends the frame).
THEOREM SequencesAlwaysReadable ==
  ASSUME EventsApart
  PROVE  Spec => []SequencesReadable
  <1>1. SlicesBalanced /\ TimestampsInOrder => SequencesReadable
    BY DEF SequencesReadable
  <1>. QED
    BY <1>1, SlicesAlwaysBalanced, TimestampsAlwaysInOrder, PTL

-----------------------------------------------------------------------------
(***************************************************************************)
(* Part 4: names are known.                                                *)
(*                                                                         *)
(* A table only grows, and what it has gained is defined by the packet     *)
(* sent next, before which the track packet of the sequence went out: so   *)
(* all of the tables is defined whenever a frame begins, ends or resumes.  *)
(* The annotations of a frame are interned one after another by a fold.    *)
(* What the fold returns is read off the tables with one string interned,  *)
(* two strings, and so on; there are such tables for any number of         *)
(* strings, as there cannot be a least number without.                     *)
(***************************************************************************)

\* A nonempty set of natural numbers has a smallest element.
LEMMA LeastNumber ==
  ASSUME NEW T, T \subseteq Nat, T # {}
  PROVE  \E n \in T : \A m \in T : ~(m < n)
  <1>1. PICK k \in T : \A m \in T : ~(<<m, k>> \in OpToRel(<, Nat))
    BY WFMin, NatLessThanWellFounded, Zenon
  <1>. QED
    BY <1>1 DEF OpToRel

LEMMA MaxOfSome ==
  ASSUME NEW n \in Nat, NEW S \in SUBSET (1 .. n), S # {}
  PROVE  Max(S) \in S /\ \A i \in S : i <= Max(S)
  <1> DEFINE above == {k \in Nat : \A i \in S : i <= k}
  <1>1. n \in above /\ above \subseteq Nat
    OBVIOUS
  <1>2. PICK k \in above : \A m \in above : ~(m < k)
    BY <1>1, LeastNumber
  <1>3. k \in S
    <2> SUFFICES ASSUME k \notin S
                 PROVE  FALSE
      OBVIOUS
    <2>1. PICK i \in S : TRUE
      OBVIOUS
    <2>2. i \in 1 .. n /\ i <= k
      BY <1>2
    <2>3. k - 1 \in above
      BY <1>2, <2>2
    <2>. QED
      BY <1>2, <2>3
  <1>4. \E m \in S : \A i \in S : m >= i
    BY <1>2, <1>3
  <1>5. PICK m : m = Max(S)
    OBVIOUS
  <1>6. m \in S /\ \A i \in S : m >= i
    BY <1>4, <1>5 DEF Max
  <1>. QED
    BY <1>5, <1>6

\* the tables one gets by interning the first, the first two strings, and so on
InternedUpTo(h, base, s) ==
  /\ h[0] = base
  /\ InternAll(base, s) = h[Len(s)]
  /\ \A n \in 1 .. Len(s) : h[n] = Intern(h[n - 1], s[n])

LEMMA InternFold ==
  ASSUME NEW base, NEW s, IsSeq(s)
  PROVE  \E h : InternedUpTo(h, base, s)
  <1> DEFINE D == DOMAIN s
             Body(f, x) == IF x = {} THEN base ELSE Intern(f[x \ {Max(x)}], s[Max(x)])
             Folds(f) == f = [x \in SUBSET D |-> Body(f, x)]
             iter == CHOOSE f : Folds(f)
             Upto(f, n) == \A x \in SUBSET D : Cardinality(x) <= n => f[x] = Body(f, x)
             Missing == {n \in Nat : ~\E f : Upto(f, n)}
  <1>1. Len(s) \in Nat /\ D = 1 .. Len(s)
    BY DEF IsSeq
  <1>2. InternAll(base, s) = iter[D]
    BY DEF InternAll, FoldLeft, MapThenFoldSet
  <1>3. \A x \in SUBSET D : IsFiniteSet(x) /\ Cardinality(x) \in Nat /\ Cardinality(x) <= Len(s)
    <2>1. IsFiniteSet(D) /\ Cardinality(D) = Len(s)
      <3>1. PICK n : n = Len(s)
        OBVIOUS
      <3>2. n \in Nat /\ D = 1 .. n
        BY <1>1, <3>1
      <3>3. IsFiniteSet(1 .. n) /\ Cardinality(1 .. n) = IF 1 <= n THEN n - 1 + 1 ELSE 0
        BY <3>2, FS_Interval
      <3>. QED
        BY <3>1, <3>2, <3>3
    <2>2. \A x \in SUBSET D : IsFiniteSet(x) /\ Cardinality(x) <= Cardinality(D)
      BY <2>1, FS_Subset
    <2>. QED
      BY <2>1, <2>2, FS_CardinalityType
  <1>4. ASSUME NEW x \in SUBSET D, x # {}
        PROVE  /\ Max(x) \in x /\ x \ {Max(x)} \in SUBSET D
               /\ Cardinality(x \ {Max(x)}) = Cardinality(x) - 1
    <2>1. Max(x) \in x
      BY <1>1, <1>4, MaxOfSome
    <2>. QED
      BY <1>3, <2>1, FS_RemoveElement
  <1> HIDE DEF D
  <1>5. Missing = {}
    <2> SUFFICES ASSUME Missing # {}
                 PROVE  FALSE
      OBVIOUS
    <2>1. PICK n \in Missing : \A m \in Missing : ~(m < n)
      BY LeastNumber
    <2>2. \E f : \A x \in SUBSET D : Cardinality(x) < n => f[x] = Body(f, x)
      <3>1. CASE n = 0
        BY <1>3, <3>1
      <3>2. CASE n # 0
        <4>1. n \in Nat
          BY <2>1
        <4>2. n - 1 \in Nat /\ n - 1 < n
          BY <3>2, <4>1
        <4>3. n - 1 \notin Missing
          BY <2>1, <4>2, Zenon
        <4>4. PICK f : Upto(f, n - 1)
          BY <4>2, <4>3
        <4>5. \A x \in SUBSET D : Cardinality(x) < n => Cardinality(x) <= n - 1
          BY <1>3, <4>1
        <4>. QED
          BY <4>4, <4>5
      <3>. QED
        BY <3>1, <3>2
    <2>3. PICK f : \A x \in SUBSET D : Cardinality(x) < n => f[x] = Body(f, x)
      BY <2>2
    <2>4. PICK g : g = [x \in SUBSET D |-> IF Cardinality(x) < n THEN f[x] ELSE Body(f, x)]
      OBVIOUS
    <2>5. ASSUME NEW x \in SUBSET D, Cardinality(x) <= n
          PROVE  g[x] = Body(g, x)
      <3>1. CASE x = {}
        BY <2>3, <2>4, <3>1
      <3>2. CASE x # {}
        <4>1. PICK y : y = x \ {Max(x)}
          OBVIOUS
        <4>2. y \in SUBSET D /\ Cardinality(y) < n
          BY <1>3, <1>4, <2>1, <2>5, <3>2, <4>1
        <4>3. g[y] = f[y]
          BY <2>4, <4>2
        <4>4. g[x] = Body(f, x)
          BY <2>3, <2>4
        <4>. QED
          BY <3>2, <4>1, <4>3, <4>4
      <3>. QED
        BY <3>1, <3>2
    <2>. QED
      BY <2>1, <2>5
  <1>6. Folds(iter)
    <2>1. PICK f : Upto(f, Len(s))
      BY <1>1, <1>5
    <2>2. PICK g : g = [x \in SUBSET D |-> f[x]]
      OBVIOUS
    <2>3. ASSUME NEW x \in SUBSET D
          PROVE  g[x] = Body(g, x)
      <3>1. g[x] = Body(f, x)
        BY <1>3, <2>1, <2>2
      <3>2. x # {} => g[x \ {Max(x)}] = f[x \ {Max(x)}]
        BY <1>4, <2>2
      <3>. QED
        BY <3>1, <3>2
    <2>4. Folds(g)
      BY <2>2, <2>3
    <2>. QED
      BY <2>4
  <1>7. \A x \in SUBSET D : iter[x] = Body(iter, x)
    BY <1>6
  <1> HIDE DEF iter
  <1>8. ASSUME NEW n \in 1 .. Len(s)
        PROVE  iter[1 .. n] = Intern(iter[1 .. n - 1], s[n])
    <2>1. 1 .. n \in SUBSET D /\ 1 .. n # {} /\ n \in 1 .. n
      BY <1>1, <1>8 DEF D
    <2>2. Max(1 .. n) = n
      <3>1. PICK m, S : m = Max(S) /\ S = 1 .. n
        OBVIOUS
      <3>2. n \in Nat /\ S \in SUBSET (1 .. n) /\ S # {} /\ n \in S
        BY <1>1, <2>1, <3>1
      <3>3. m \in S /\ \A i \in S : i <= m
        BY <3>1, <3>2, MaxOfSome
      <3>. QED
        BY <3>1, <3>2, <3>3
    <2>3. (1 .. n) \ {n} = 1 .. n - 1
      OBVIOUS
    <2>. QED
      BY <1>7, <2>1, <2>2, <2>3
  <1>9. {} \in SUBSET D /\ iter[{}] = base
    BY <1>7
  <1>10. PICK h : h = [n \in 0 .. Len(s) |-> iter[1 .. n]]
    OBVIOUS
  <1>11. h[0] = base
    BY <1>1, <1>9, <1>10
  <1>12. InternAll(base, s) = h[Len(s)]
    BY <1>1, <1>2, <1>10
  <1>13. \A n \in 1 .. Len(s) : h[n] = Intern(h[n - 1], s[n])
    BY <1>1, <1>8, <1>10
  <1>. QED
    BY <1>11, <1>12, <1>13 DEF InternedUpTo

\* A table that has only gained strings.
Longer(old, new) ==
  /\ IsSeq(new)
  /\ Len(old) <= Len(new)
  /\ \A i \in 1 .. Len(old) : new[i] = old[i]

LEMMA InternOne ==
  ASSUME NEW table, NEW e, IsSeq(table)
  PROVE  Longer(table, Intern(table, e)) /\ Contains(Intern(table, e), e)
  <1>1. CASE Contains(table, e)
    BY <1>1 DEF Intern, Longer, IsSeq
  <1>2. CASE ~Contains(table, e)
    <2>1. PICK S : table \in Seq(S)
      BY DEF IsSeq
    <2>2. PICK T : T = S \cup {e}
      OBVIOUS
    <2>3. table \in Seq(T) /\ e \in T
      BY <2>1, <2>2
    <2>4. PICK new : new = Append(table, e)
      OBVIOUS
    <2>5. /\ new \in Seq(T) /\ Len(new) = Len(table) + 1 /\ Len(table) \in Nat
          /\ new[Len(table) + 1] = e
          /\ \A i \in 1 .. Len(table) : new[i] = table[i]
      BY <2>3, <2>4
    <2>6. Contains(new, e)
      BY <2>5 DEF Contains
    <2>7. Longer(table, new)
      BY <2>5 DEF Longer, IsSeq
    <2>. QED
      BY <1>2, <2>4, <2>6, <2>7 DEF Intern
  <1>. QED
    BY <1>1, <1>2

LEMMA LongerContains ==
  ASSUME NEW old, NEW new, IsSeq(old), Longer(old, new), NEW e, Contains(old, e)
  PROVE  Contains(new, e)
  <1>1. Len(old) \in Nat /\ Len(new) \in Nat
    BY DEF Longer, IsSeq
  <1>2. PICK i \in 1 .. Len(old) : old[i] = e
    BY DEF Contains
  <1>3. i \in 1 .. Len(new) /\ new[i] = e
    BY <1>1, <1>2 DEF Longer
  <1>. QED
    BY <1>3 DEF Contains

LEMMA LongerTransitive ==
  ASSUME NEW a, NEW b, NEW c, IsSeq(a), Longer(a, b), Longer(b, c)
  PROVE  Longer(a, c)
  <1>1. Len(a) \in Nat /\ Len(b) \in Nat /\ Len(c) \in Nat
    BY DEF Longer, IsSeq
  <1>. QED
    BY <1>1 DEF Longer

LEMMA InternAllKeeps ==
  ASSUME NEW table, NEW s, IsSeq(table), IsSeq(s)
  PROVE  LET new == InternAll(table, s)
         IN  Longer(table, new) /\ \A k \in 1 .. Len(s) : Contains(new, s[k])
  <1>1. PICK h : InternedUpTo(h, table, s)
    BY InternFold
  <1>2. /\ h[0] = table
        /\ InternAll(table, s) = h[Len(s)]
        /\ \A n \in 1 .. Len(s) : h[n] = Intern(h[n - 1], s[n])
    BY <1>1 DEF InternedUpTo
  <1>3. Len(s) \in Nat
    BY DEF IsSeq
  <1> DEFINE Good(n) == Longer(table, h[n]) /\ \A k \in 1 .. n : Contains(h[n], s[k])
             bad == {n \in Nat : n <= Len(s) /\ ~Good(n)}
  <1>4. Good(0)
    BY <1>2 DEF Longer, IsSeq
  <1>5. ASSUME NEW n \in 1 .. Len(s), Good(n - 1)
        PROVE  Good(n)
    <2>1. PICK old, new : old = h[n - 1] /\ new = h[n]
      OBVIOUS
    <2>2. IsSeq(old) /\ Longer(table, old) /\ \A k \in 1 .. n - 1 : Contains(old, s[k])
      BY <1>5, <2>1 DEF Longer
    <2>3. Longer(old, new) /\ Contains(new, s[n])
      BY <1>2, <2>1, <2>2, InternOne
    <2>4. \A k \in 1 .. n - 1 : Contains(new, s[k])
      BY <2>2, <2>3, LongerContains
    <2>5. Longer(table, new)
      BY <2>2, <2>3, LongerTransitive
    <2>6. \A k \in 1 .. n : k \in 1 .. n - 1 \/ k = n
      BY <1>3
    <2>. QED
      BY <2>1, <2>3, <2>4, <2>5, <2>6
  <1> HIDE DEF Good
  <1>6. bad = {}
    <2> SUFFICES ASSUME bad # {}
                 PROVE  FALSE
      OBVIOUS
    <2>1. PICK n \in bad : \A m \in bad : ~(m < n)
      BY LeastNumber
    <2>2. n \in Nat /\ n <= Len(s) /\ ~Good(n)
      BY <2>1
    <2>3. n # 0
      BY <1>4, <2>2
    <2>4. n \in 1 .. Len(s) /\ n - 1 \in Nat /\ n - 1 < n /\ n - 1 <= Len(s)
      BY <1>3, <2>2, <2>3
    <2>5. Good(n - 1)
      BY <2>1, <2>4
    <2>. QED
      BY <1>5, <2>2, <2>4, <2>5
  <1>7. Good(Len(s))
    BY <1>3, <1>6
  <1>. QED
    BY <1>2, <1>7 DEF Good


(***************************************************************************)
(* What is defined.                                                        *)
(***************************************************************************)

\* the definition of the i-th string of a table
Definition(name, table, i) == [table |-> name, iid |-> i, means |-> table[i]]

\* a packet of the trace sequence has defined it, and no track packet has cleared it since
IsOpen(s, use) ==
  \E j \in 1 .. Len(s) :
    /\ s[j].seq = TraceSequence
    /\ use \in s[j].defines
    /\ \A k \in j + 1 .. Len(s) : ~(s[k].kind = "Track" /\ s[k].seq = TraceSequence)

UseKnown(s, i, use) ==
  \E j \in 1 .. i :
    /\ s[j].seq = s[i].seq
    /\ use \in s[j].defines
    /\ \A k \in j + 1 .. i : ~(s[k].kind = "Track" /\ s[k].seq = s[i].seq)

UsesKnown(s) == \A i \in 1 .. Len(s) : \A use \in s[i].uses : UseKnown(s, i, use)

TableNames == {"events", "keys", "values"}

TablesDefined(s, tabs) ==
  \A name \in TableNames : \A i \in 1 .. Len(tabs[name]) :
    IsOpen(s, Definition(name, tabs[name], i))

\* the frame's name and annotations are in the tables
InTables(f, tabs) ==
  /\ Contains(tabs.events, f.name)
  /\ \A i \in 1 .. Len(f.keys) : Contains(tabs.keys, f.keys[i])
  /\ \A i \in 1 .. Len(f.values) : Contains(tabs.values, f.values[i])

IsTables(tabs) ==
  /\ tabs = [events |-> tabs.events, keys |-> tabs.keys, values |-> tabs.values]
  /\ IsSeq(tabs.events) /\ IsSeq(tabs.keys) /\ IsSeq(tabs.values)

Named ==
  /\ IsTables(tables)
  /\ UsesKnown(Stream)
  /\ phase \in {"setup", "header"} => \A name \in TableNames : tables[name] = <<>>
  /\ phase \in {"root", "frames"} => TablesDefined(Stream, tables)
  /\ phase = "frames" => \A d \in 1 .. Len(walk) : InTables(Frame(walk[d].frame), tables)

\* A reference to a string of a table is the definition of one of its strings.
LEMMA ReferenceDefined ==
  ASSUME NEW name, NEW table, IsSeq(table), NEW e, Contains(table, e)
  PROVE  \E i \in 1 .. Len(table) : Reference(name, table, e) = Definition(name, table, i)
  <1>1. DOMAIN table = 1 .. Len(table)
    BY DEF IsSeq
  <1>2. \E i \in DOMAIN table : table[i] = e
    BY <1>1 DEF Contains
  <1>3. PICK i : i = CHOOSE k \in DOMAIN table : table[k] = e
    OBVIOUS
  <1>4. i \in DOMAIN table /\ table[i] = e
    BY <1>2, <1>3
  <1>5. Reference(name, table, e) = [table |-> name, iid |-> i, means |-> e]
    BY <1>3 DEF Reference
  <1>. QED
    BY <1>1, <1>4, <1>5 DEF Definition

\* The uses of a frame's slices are definitions of strings in the tables.
LEMMA FrameUses ==
  ASSUME NEW f, NEW tabs, IsTables(tabs), InTables(f, tabs), IsSeq(f.keys), IsSeq(f.values),
         NEW use \in FrameStrings(f, tabs)
  PROVE  \E name \in TableNames : \E i \in 1 .. Len(tabs[name]) :
           use = Definition(name, tabs[name], i)
  <1>1. ASSUME NEW name \in TableNames, NEW s, IsSeq(s), IsSeq(tabs[name]),
               \A k \in 1 .. Len(s) : Contains(tabs[name], s[k]),
               use \in References(name, tabs[name], s)
        PROVE  \E i \in 1 .. Len(tabs[name]) : use = Definition(name, tabs[name], i)
    <2>1. PICK e \in ToSet(s) : use = Reference(name, tabs[name], e)
      BY <1>1 DEF References
    <2>2. DOMAIN s = 1 .. Len(s)
      BY <1>1 DEF IsSeq
    <2>3. \E k \in 1 .. Len(s) : e = s[k]
      BY <2>1, <2>2 DEF ToSet
    <2>4. Contains(tabs[name], e)
      BY <1>1, <2>3
    <2>. QED
      BY <1>1, <2>1, <2>4, ReferenceDefined
  <1>2. /\ IsSeq(<<f.name>>) /\ \A k \in 1 .. Len(<<f.name>>) : <<f.name>>[k] = f.name
    BY SinglePiece
  <1>3. /\ tabs["events"] = tabs.events /\ tabs["keys"] = tabs.keys
        /\ tabs["values"] = tabs.values
    OBVIOUS
  <1>4. CASE use \in References("events", tabs.events, <<f.name>>)
    BY <1>1, <1>2, <1>3, <1>4 DEF TableNames, IsTables, InTables
  <1>5. CASE use \in References("keys", tabs.keys, f.keys)
    BY <1>1, <1>3, <1>5 DEF TableNames, IsTables, InTables
  <1>6. CASE use \in References("values", tabs.values, f.values)
    BY <1>1, <1>3, <1>6 DEF TableNames, IsTables, InTables
  <1>. QED
    BY <1>4, <1>5, <1>6 DEF FrameStrings

\* What the tables define is open.
LEMMA FrameUsesOpen ==
  ASSUME NEW f, NEW tabs, IsTables(tabs), InTables(f, tabs), IsSeq(f.keys), IsSeq(f.values),
         NEW s, TablesDefined(s, tabs), NEW use \in FrameStrings(f, tabs)
  PROVE  IsOpen(s, use)
  BY FrameUses DEF TablesDefined

\* A piece of the trace sequence without tracks.
LEMMA TracePieceKnown ==
  ASSUME NEW s, NEW t, IsSeq(s), IsSeq(t), UsesKnown(s),
         \A i \in 1 .. Len(t) : t[i].seq = TraceSequence /\ t[i].kind # "Track",
         \A i \in 1 .. Len(t) : \A use \in t[i].uses :
           IsOpen(s, use) \/ \E j \in 1 .. i : use \in t[j].defines
  PROVE  /\ UsesKnown(s \o t)
         /\ \A use : (IsOpen(s, use) \/ \E j \in 1 .. Len(t) : use \in t[j].defines) =>
              IsOpen(s \o t, use)
  <1>1. PICK st : st = s \o t
    OBVIOUS
  <1>2. PICK n, m : n = Len(s) /\ m = Len(t)
    OBVIOUS
  <1>3. /\ n \in Nat /\ m \in Nat /\ Len(st) = n + m
        /\ \A i \in 1 .. n : st[i] = s[i]
        /\ \A i \in 1 .. m : st[n + i] = t[i]
    BY <1>1, <1>2, Joined
  <1>4. \A k \in n + 1 .. n + m : st[k] = t[k - n] /\ k - n \in 1 .. m
    BY <1>3
  <1>5. \A k \in n + 1 .. n + m : st[k].seq = TraceSequence /\ st[k].kind # "Track"
    BY <1>2, <1>4
  <1>6. ASSUME NEW use, NEW i \in n .. n + m, IsOpen(s, use)
        PROVE  \E j \in 1 .. i : /\ st[j].seq = TraceSequence /\ use \in st[j].defines
                                 /\ \A k \in j + 1 .. i :
                                      ~(st[k].kind = "Track" /\ st[k].seq = TraceSequence)
    <2>1. PICK j \in 1 .. n :
            /\ s[j].seq = TraceSequence /\ use \in s[j].defines
            /\ \A k \in j + 1 .. n : ~(s[k].kind = "Track" /\ s[k].seq = TraceSequence)
      BY <1>2, <1>6 DEF IsOpen
    <2>2. j \in 1 .. i /\ st[j] = s[j]
      BY <1>3, <2>1
    <2>3. ASSUME NEW k \in j + 1 .. i
          PROVE  ~(st[k].kind = "Track" /\ st[k].seq = TraceSequence)
      <3>1. k \in j + 1 .. n \/ k \in n + 1 .. n + m
        BY <1>3, <2>1
      <3>2. CASE k \in j + 1 .. n
        BY <1>3, <2>1, <3>2
      <3>3. CASE k \in n + 1 .. n + m
        BY <1>5, <3>3
      <3>. QED
        BY <3>1, <3>2, <3>3
    <2>. QED
      BY <2>1, <2>2, <2>3
  <1>7. ASSUME NEW use, NEW i \in 1 .. m, NEW j \in 1 .. i, use \in t[j].defines
        PROVE  \E l \in 1 .. n + i : /\ st[l].seq = TraceSequence /\ use \in st[l].defines
                                     /\ \A k \in l + 1 .. n + i :
                                          ~(st[k].kind = "Track" /\ st[k].seq = TraceSequence)
    <2>1. /\ n + j \in 1 .. n + i /\ st[n + j] = t[j]
          /\ \A k \in n + j + 1 .. n + i : k \in n + 1 .. n + m
          /\ n + j \in n + 1 .. n + m
      BY <1>3, <1>7
    <2>. QED
      BY <1>5, <1>7, <2>1
  <1>8. UsesKnown(st)
    <2> SUFFICES ASSUME NEW i \in 1 .. n + m, NEW use \in st[i].uses
                 PROVE  UseKnown(st, i, use)
      BY <1>3 DEF UsesKnown
    <2>1. i \in 1 .. n \/ i \in n + 1 .. n + m
      BY <1>3
    <2>2. CASE i \in 1 .. n
      <3>1. st[i] = s[i] /\ UseKnown(s, i, use)
        BY <1>2, <1>3, <2>2 DEF UsesKnown
      <3>2. \A j \in 1 .. i : st[j] = s[j]
        BY <1>3, <2>2
      <3>3. \A j \in 1 .. i : \A k \in j + 1 .. i : k \in 1 .. i
        BY <2>2
      <3>. QED
        BY <3>1, <3>2, <3>3 DEF UseKnown
    <2>3. CASE i \in n + 1 .. n + m
      <3>1. st[i] = t[i - n] /\ i - n \in 1 .. m /\ st[i].seq = TraceSequence /\ n + (i - n) = i
        BY <1>3, <1>4, <1>5, <2>3
      <3>2. IsOpen(s, use) \/ \E j \in 1 .. i - n : use \in t[j].defines
        BY <1>2, <3>1
      <3>3. i \in n .. n + m
        BY <1>3, <2>3
      <3>4. \E j \in 1 .. i : /\ st[j].seq = TraceSequence /\ use \in st[j].defines
                              /\ \A k \in j + 1 .. i :
                                   ~(st[k].kind = "Track" /\ st[k].seq = TraceSequence)
        <4>1. CASE IsOpen(s, use)
          BY <1>6, <3>3, <4>1
        <4>2. CASE \E j \in 1 .. i - n : use \in t[j].defines
          <5>1. PICK p : p = i - n
            OBVIOUS
          <5>2. PICK j \in 1 .. p : use \in t[j].defines
            BY <4>2, <5>1
          <5>3. p \in 1 .. m /\ n + p = i
            BY <3>1, <5>1
          <5>. QED
            BY <1>7, <5>2, <5>3
        <4>. QED
          BY <3>2, <4>1, <4>2
      <3>. QED
        BY <3>1, <3>4 DEF UseKnown
    <2>. QED
      BY <2>1, <2>2, <2>3
  <1>9. ASSUME NEW use, IsOpen(s, use) \/ \E j \in 1 .. m : use \in t[j].defines
        PROVE  IsOpen(st, use)
    <2>1. CASE IsOpen(s, use)
      <3>1. n + m \in n .. n + m
        BY <1>3
      <3>2. \E j \in 1 .. n + m : /\ st[j].seq = TraceSequence /\ use \in st[j].defines
                                  /\ \A k \in j + 1 .. n + m :
                                       ~(st[k].kind = "Track" /\ st[k].seq = TraceSequence)
        BY <1>6, <2>1, <3>1
      <3>. QED
        BY <1>3, <3>2 DEF IsOpen
    <2>2. CASE \E j \in 1 .. m : use \in t[j].defines
      <3>1. PICK j \in 1 .. m : use \in t[j].defines
        BY <2>2
      <3>2. m \in 1 .. m
        BY <1>3, <3>1
      <3>3. \E l \in 1 .. n + m : /\ st[l].seq = TraceSequence /\ use \in st[l].defines
                                  /\ \A k \in l + 1 .. n + m :
                                       ~(st[k].kind = "Track" /\ st[k].seq = TraceSequence)
        BY <1>7, <3>1, <3>2
      <3>. QED
        BY <1>3, <3>3 DEF IsOpen
    <2>. QED
      BY <1>9, <2>1, <2>2
  <1>. QED
    BY <1>1, <1>2, <1>8, <1>9

\* A piece that defines what it uses, whatever it clears.
LEMMA ClosedPieceKnown ==
  ASSUME NEW s, NEW t, IsSeq(s), IsSeq(t), UsesKnown(s), UsesKnown(t)
  PROVE  UsesKnown(s \o t)
  <1>1. PICK st, n, m : st = s \o t /\ n = Len(s) /\ m = Len(t)
    OBVIOUS
  <1>2. /\ n \in Nat /\ m \in Nat /\ Len(st) = n + m
        /\ \A i \in 1 .. n : st[i] = s[i]
        /\ \A i \in 1 .. m : st[n + i] = t[i]
    BY <1>1, Joined
  <1>3. \A k \in n + 1 .. n + m : st[k] = t[k - n] /\ k - n \in 1 .. m
    BY <1>2
  <1> SUFFICES ASSUME NEW i \in 1 .. n + m, NEW use \in st[i].uses
               PROVE  UseKnown(st, i, use)
    BY <1>1, <1>2 DEF UsesKnown
  <1>4. CASE i \in 1 .. n
    <2>1. st[i] = s[i] /\ UseKnown(s, i, use)
      BY <1>1, <1>2, <1>4 DEF UsesKnown
    <2>2. \A j \in 1 .. i : st[j] = s[j]
      BY <1>2, <1>4
    <2>3. \A j \in 1 .. i : \A k \in j + 1 .. i : k \in 1 .. i
      BY <1>4
    <2>. QED
      BY <2>1, <2>2, <2>3 DEF UseKnown
  <1>5. CASE i \in n + 1 .. n + m
    <2>1. PICK p : p = i - n
      OBVIOUS
    <2>2. p \in 1 .. m /\ n + p = i /\ st[i] = t[p]
      BY <1>2, <1>3, <1>5, <2>1
    <2>3. PICK j \in 1 .. p :
            /\ t[j].seq = t[p].seq /\ use \in t[j].defines
            /\ \A k \in j + 1 .. p : ~(t[k].kind = "Track" /\ t[k].seq = t[p].seq)
      <3>1. use \in t[p].uses /\ p \in 1 .. Len(t)
        BY <1>1, <2>2
      <3>2. UseKnown(t, p, use)
        BY <3>1 DEF UsesKnown
      <3>. QED
        BY <3>2 DEF UseKnown
    <2>4. n + j \in 1 .. i /\ st[n + j] = t[j]
      BY <1>2, <2>2, <2>3
    <2>5. ASSUME NEW k \in n + j + 1 .. i
          PROVE  ~(st[k].kind = "Track" /\ st[k].seq = st[i].seq)
      <3>1. k \in n + 1 .. n + m /\ k - n \in j + 1 .. p
        BY <1>2, <2>2, <2>3
      <3>. QED
        BY <1>3, <2>2, <2>3, <3>1
    <2>. QED
      BY <2>2, <2>3, <2>4, <2>5 DEF UseKnown
  <1>. QED
    BY <1>2, <1>4, <1>5

(***************************************************************************)
(* The steps.                                                              *)
(***************************************************************************)

\* The tables after a frame's strings have been interned: they are longer, and the
\* packet defines what they have gained.
LEMMA InternedTables ==
  ASSUME IsTables(tables), NEW f, IsFrame(trace, f)
  PROVE  LET new == Interned(f.name, f.keys, f.values)
         IN  /\ IsTables(new) /\ InTables(f, new)
             /\ \A name \in TableNames : Longer(tables[name], new[name])
  <1>1. IsSeq(f.keys) /\ IsSeq(f.values)
    BY DEF IsFrame, IsSeq
  <1>2. PICK a, b, c : /\ a = Intern(tables.events, f.name)
                       /\ b = InternAll(tables.keys, f.keys)
                       /\ c = InternAll(tables.values, f.values)
    OBVIOUS
  <1>3. /\ Longer(tables.events, a) /\ Contains(a, f.name)
        /\ Longer(tables.keys, b) /\ \A k \in 1 .. Len(f.keys) : Contains(b, f.keys[k])
        /\ Longer(tables.values, c) /\ \A k \in 1 .. Len(f.values) : Contains(c, f.values[k])
    BY <1>1, <1>2, InternOne, InternAllKeeps DEF IsTables
  <1>4. PICK new : new = [events |-> a, keys |-> b, values |-> c]
    OBVIOUS
  <1>5. /\ new.events = a /\ new.keys = b /\ new.values = c
        /\ new["events"] = a /\ new["keys"] = b /\ new["values"] = c
        /\ tables["events"] = tables.events /\ tables["keys"] = tables.keys
        /\ tables["values"] = tables.values
    BY <1>4
  <1>6. IsTables(new)
    BY <1>3, <1>4, <1>5 DEF IsTables, Longer
  <1>7. InTables(f, new)
    BY <1>3, <1>5 DEF InTables
  <1>8. \A name \in TableNames : Longer(tables[name], new[name])
    BY <1>3, <1>5 DEF TableNames
  <1>9. Interned(f.name, f.keys, f.values) = new
    BY <1>2, <1>4 DEF Interned
  <1>. QED
    BY <1>6, <1>7, <1>8, <1>9

\* What was in longer tables stays, and what they gained can be read in the packet.
LEMMA GainedDefined ==
  ASSUME NEW name, NEW old, NEW new, IsSeq(old), Longer(old, new), NEW i \in 1 .. Len(new)
  PROVE  \/ i \in 1 .. Len(old) /\ Definition(name, new, i) = Definition(name, old, i)
         \/ Definition(name, new, i) \in Gained(name, old, new)
  <1>1. Len(old) \in Nat /\ Len(new) \in Nat
    BY DEF Longer, IsSeq
  <1>2. CASE i \in 1 .. Len(old)
    BY <1>2 DEF Longer, Definition
  <1>3. CASE i \in Len(old) + 1 .. Len(new)
    BY <1>3 DEF Definition, Gained
  <1>. QED
    BY <1>1, <1>2, <1>3

LEMMA TablesStayDefined ==
  ASSUME NEW s, NEW t, IsSeq(s), IsSeq(t), IsTables(tables), NEW new,
         \A name \in TableNames : Longer(tables[name], new[name]),
         TablesDefined(s, tables),
         \A name \in TableNames : \A i \in 1 .. Len(new[name]) :
           Definition(name, new[name], i) \in Gained(name, tables[name], new[name]) =>
             \E j \in 1 .. Len(t) : Definition(name, new[name], i) \in t[j].defines,
         \A use : (IsOpen(s, use) \/ \E j \in 1 .. Len(t) : use \in t[j].defines) =>
                    IsOpen(s \o t, use)
  PROVE  TablesDefined(s \o t, new)
  <1> SUFFICES ASSUME NEW name \in TableNames, NEW i \in 1 .. Len(new[name])
               PROVE  IsOpen(s \o t, Definition(name, new[name], i))
    BY DEF TablesDefined
  <1>1. IsSeq(tables[name])
    BY DEF IsTables, TableNames
  <1>2. \/ /\ i \in 1 .. Len(tables[name])
           /\ Definition(name, new[name], i) = Definition(name, tables[name], i)
        \/ Definition(name, new[name], i) \in Gained(name, tables[name], new[name])
    BY <1>1, GainedDefined
  <1>3. IsOpen(s, Definition(name, new[name], i))
          \/ \E j \in 1 .. Len(t) : Definition(name, new[name], i) \in t[j].defines
    BY <1>2 DEF TablesDefined
  <1>. QED
    BY <1>3

LEMMA InTablesStays ==
  ASSUME NEW f, NEW old, NEW new, IsTables(old), InTables(f, old),
         \A name \in TableNames : Longer(old[name], new[name])
  PROVE  InTables(f, new)
  <1>1. /\ old["events"] = old.events /\ old["keys"] = old.keys /\ old["values"] = old.values
        /\ new["events"] = new.events /\ new["keys"] = new.keys /\ new["values"] = new.values
    OBVIOUS
  <1>2. /\ Longer(old.events, new.events) /\ Longer(old.keys, new.keys)
        /\ Longer(old.values, new.values)
    BY <1>1 DEF TableNames
  <1>. QED
    BY <1>2, LongerContains DEF InTables, IsTables

\* A frame is begun with names that are known.
LEMMA BeginNamed ==
  ASSUME Walking, Named, NEW id \in DOMAIN trace.frames, NEW callers, BeginFrame(id, callers),
         callers \in Seq(Visit), phase \in {"root", "frames"}, phase' = "frames",
         outbox = <<>>, sent' = sent, trace' = trace,
         \A d \in 1 .. Len(callers) : InTables(Frame(callers[d].frame), tables)
  PROVE  Named'
  <1>1. trace \in Traces
    BY DEF Walking
  <1>2. PICK f : f = Frame(id)
    OBVIOUS
  <1>3. IsFrame(trace, f)
    BY <1>1, <1>2, TracesAssumption DEF Frame
  <1>4. PICK new : new = Interned(f.name, f.keys, f.values)
    OBVIOUS
  <1>5. /\ IsTables(new) /\ InTables(f, new) /\ IsTables(tables)
        /\ \A name \in TableNames : Longer(tables[name], new[name])
    BY <1>3, <1>4, InternedTables DEF Named
  <1>6. PICK p : p = SliceBegin(TraceSequence, f.start,
                                UNION {Gained(t, tables[t], new[t]) : t \in DOMAIN tables},
                                FrameStrings(f, new), f.start_rate)
    OBVIOUS
  <1>7. outbox' = <<p>> /\ tables' = new
    BY <1>2, <1>4, <1>6 DEF BeginFrame
  <1>8. /\ p.kind = "Begin" /\ p.seq = TraceSequence /\ p.uses = FrameStrings(f, new)
        /\ p.defines = UNION {Gained(t, tables[t], new[t]) : t \in DOMAIN tables}
    BY <1>6 DEF SliceBegin, Packet
  <1>9. DOMAIN tables = TableNames
    BY <1>5 DEF IsTables, TableNames
  <1>10. \A name \in TableNames : Gained(name, tables[name], new[name]) \subseteq p.defines
    BY <1>8, <1>9
  <1>11. /\ IsSeq(<<p>>) /\ Len(<<p>>) = 1 /\ <<p>>[1] = p
    BY SinglePiece
  <1>12. PICK t : t = <<p>>
    OBVIOUS
  <1>13. IsSeq(t) /\ Len(t) = 1 /\ t[1] = p
    BY <1>11, <1>12
  <1>14. Stream = sent /\ Stream' = Stream \o t /\ IsSeq(Stream)
    BY <1>7, <1>12, StreamTypes DEF Stream, IsSeq
  <1>15. UsesKnown(Stream) /\ TablesDefined(Stream, tables)
    BY DEF Named
  <1>16. ASSUME NEW use \in p.uses
         PROVE  IsOpen(Stream, use) \/ use \in p.defines
    <2>1. IsSeq(f.keys) /\ IsSeq(f.values)
      BY <1>3 DEF IsFrame, IsSeq
    <2>2. PICK name \in TableNames : \E i \in 1 .. Len(new[name]) :
                                       use = Definition(name, new[name], i)
      BY <1>5, <1>8, <1>16, <2>1, FrameUses
    <2>3. PICK i \in 1 .. Len(new[name]) : use = Definition(name, new[name], i)
      BY <2>2
    <2>4. IsSeq(tables[name])
      BY <1>5 DEF IsTables, TableNames
    <2>5. \/ /\ i \in 1 .. Len(tables[name])
             /\ use = Definition(name, tables[name], i)
          \/ use \in Gained(name, tables[name], new[name])
      BY <1>5, <2>3, <2>4, GainedDefined
    <2>. QED
      BY <1>10, <1>15, <2>5 DEF TablesDefined
  <1>17. /\ UsesKnown(Stream \o t)
         /\ \A use : (IsOpen(Stream, use) \/ \E j \in 1 .. Len(t) : use \in t[j].defines) =>
              IsOpen(Stream \o t, use)
    <2>1. \A i \in 1 .. Len(t) : i = 1 /\ t[i] = p /\ 1 \in 1 .. i
      BY <1>13
    <2>2. \A i \in 1 .. Len(t) : t[i].seq = TraceSequence /\ t[i].kind # "Track"
      BY <1>8, <2>1
    <2>3. \A i \in 1 .. Len(t) : \A use \in t[i].uses :
            IsOpen(Stream, use) \/ \E j \in 1 .. i : use \in t[j].defines
      BY <1>13, <1>16, <2>1
    <2>. QED
      BY <1>13, <1>14, <1>15, <2>2, <2>3, TracePieceKnown
  <1>18. TablesDefined(Stream \o t, new)
    <2>1. 1 \in 1 .. Len(t)
      BY <1>13
    <2>2. \A name \in TableNames : \A i \in 1 .. Len(new[name]) :
            Definition(name, new[name], i) \in Gained(name, tables[name], new[name]) =>
              \E j \in 1 .. Len(t) : Definition(name, new[name], i) \in t[j].defines
      BY <1>10, <1>13, <2>1
    <2>. QED
      BY <1>5, <1>13, <1>14, <1>15, <1>17, <2>2, TablesStayDefined
  <1>19. \A d \in 1 .. Len(walk') : InTables(Frame(walk'[d].frame), new)
    <2>1. /\ Len(walk') = Len(callers) + 1 /\ Len(callers) \in Nat
          /\ \A i \in 1 .. Len(callers) : walk'[i] = callers[i]
          /\ walk'[Len(callers) + 1] = [frame |-> id, next |-> 1]
      BY <1>1, BeginFrameWalks
    <2>2. \A d \in 1 .. Len(callers) : InTables(Frame(callers[d].frame), new)
      BY <1>5, InTablesStays
    <2>3. walk'[Len(callers) + 1].frame = id
      BY <2>1
    <2>4. \A d \in 1 .. Len(walk') : d \in 1 .. Len(callers) \/ d = Len(callers) + 1
      BY <2>1
    <2>. QED
      BY <1>2, <1>5, <2>1, <2>2, <2>3, <2>4
  <1>20. (\A d \in 1 .. Len(walk) : InTables(Frame(walk[d].frame), tables))'
    BY <1>7, <1>19 DEF Frame
  <1>21. IsTables(tables)' /\ UsesKnown(Stream)' /\ TablesDefined(Stream, tables)'
    BY <1>5, <1>7, <1>14, <1>17, <1>18
  <1>. QED
    BY <1>20, <1>21 DEF Named

\* At a pause: frames resume with names that are still defined, or the pause has its own.
LEMMA PauseNamed ==
  ASSUME Walking, Named, phase = "frames", phase' = "frames", NEW pause, RenderGap(pause),
         outbox = <<>>, sent' = sent, trace' = trace
  PROVE  Named'
  <1>1. /\ walk \in Seq(Visit) /\ walk # <<>> /\ trace \in Traces
        /\ IsTables(tables) /\ UsesKnown(Stream) /\ TablesDefined(Stream, tables)
        /\ \A d \in 1 .. Len(walk) : InTables(Frame(walk[d].frame), tables)
    BY DEF Walking, Named
  <1>2. /\ Len(walk) \in Nat /\ Len(walk') = Len(walk)
        /\ \A d \in 1 .. Len(walk) : walk'[d].frame = walk[d].frame
    <2>1. /\ Len(walk) \in Nat /\ Len(walk) >= 1 /\ Len(walk') = Len(walk)
          /\ \A i \in 1 .. Len(walk) - 1 : walk'[i] = walk[i]
          /\ Current = walk[Len(walk)]
          /\ walk'[Len(walk)] = [frame |-> Current.frame, next |-> Current.next + 1]
      BY <1>1, AdvancedWalks DEF RenderGap
    <2>2. walk'[Len(walk)].frame = walk[Len(walk)].frame
      BY <2>1
    <2>3. \A d \in 1 .. Len(walk) : d \in 1 .. Len(walk) - 1 \/ d = Len(walk)
      BY <2>1
    <2>. QED
      BY <2>1, <2>2, <2>3
  <1>3. PICK t : t = outbox'
    OBVIOUS
  <1>4. Stream = sent /\ Stream' = Stream \o t /\ IsSeq(Stream)
    BY <1>3, StreamTypes DEF Stream, IsSeq
  <1>5. CASE renderPauses = "Gap" /\ t = GapPackets(pause) /\ tables' = tables
    <2>1. PICK n : n = Len(walk)
      OBVIOUS
    <2>2. /\ n \in Nat /\ IsSeq(t) /\ Len(t) = n + n
          /\ \A i \in 1 .. n : t[i].kind = "End" /\ t[i].seq = TraceSequence
          /\ \A i \in n + 1 .. n + n : t[i].kind = "Begin" /\ t[i].seq = TraceSequence
      BY <1>1, <1>5, <2>1, GapPacketsPiece
    <2>3. PICK a, b :
            /\ a = [i \in 1 .. n |-> SliceEnd(TraceSequence, pause.start, {})]
            /\ b = [i \in 1 .. n |-> SliceBegin(TraceSequence, pause.end, {},
                                                FrameStrings(Frame(walk[i].frame), tables), {})]
      OBVIOUS
    <2>4. t = a \o b
      BY <1>5, <2>1, <2>3 DEF GapPackets
    <2>5. IsSeq(a) /\ Len(a) = n /\ IsSeq(b) /\ Len(b) = n
      BY <2>2, <2>3, FunctionIsSeq
    <2>6. /\ \A i \in 1 .. n : t[i] = a[i]
          /\ \A i \in 1 .. n : t[n + i] = b[i]
      BY <2>4, <2>5, Joined
    <2>7. \A i \in 1 .. n : t[i].uses = {}
      BY <2>3, <2>6 DEF SliceEnd, Packet
    <2>8. \A i \in 1 .. n : t[n + i].uses = FrameStrings(Frame(walk[i].frame), tables)
      BY <2>3, <2>6 DEF SliceBegin, Packet
    <2>9. ASSUME NEW d \in 1 .. n, NEW use \in FrameStrings(Frame(walk[d].frame), tables)
          PROVE  IsOpen(Stream, use)
      <3>1. walk[d] \in Visit
        BY <1>1, <2>1
      <3>2. PICK f : f = Frame(walk[d].frame)
        OBVIOUS
      <3>3. IsFrame(trace, f)
        BY <1>1, <3>1, <3>2, TracesAssumption DEF Frame, Visit
      <3>4. IsSeq(f.keys) /\ IsSeq(f.values)
        BY <3>3 DEF IsFrame, IsSeq
      <3>5. InTables(f, tables)
        BY <1>1, <2>1, <3>2
      <3>. QED
        BY <1>1, <2>9, <3>2, <3>4, <3>5, FrameUsesOpen
    <2>10. \A i \in 1 .. Len(t) : \A use \in t[i].uses : IsOpen(Stream, use)
      <3> SUFFICES ASSUME NEW i \in 1 .. n + n, NEW use \in t[i].uses
                   PROVE  IsOpen(Stream, use)
        BY <2>2
      <3>1. i \in 1 .. n \/ (i - n \in 1 .. n /\ n + (i - n) = i)
        BY <2>2
      <3>2. CASE i \in 1 .. n
        BY <2>7, <3>2
      <3>3. CASE i - n \in 1 .. n /\ n + (i - n) = i
        <4>1. PICK d \in 1 .. n : n + d = i
          BY <3>3
        <4>2. t[i].uses = FrameStrings(Frame(walk[d].frame), tables)
          BY <2>8, <4>1
        <4>. QED
          BY <2>9, <4>2
      <3>. QED
        BY <3>1, <3>2, <3>3
    <2>11. \A i \in 1 .. Len(t) : t[i].seq = TraceSequence /\ t[i].kind # "Track"
      <3>1. \A i \in 1 .. Len(t) : i \in 1 .. n \/ i \in n + 1 .. n + n
        BY <2>2
      <3>. QED
        BY <2>2, <3>1
    <2>12. /\ UsesKnown(Stream \o t)
           /\ \A use : IsOpen(Stream, use) => IsOpen(Stream \o t, use)
      BY <1>1, <1>4, <2>2, <2>10, <2>11, TracePieceKnown
    <2>13. TablesDefined(Stream \o t, tables)
      BY <1>1, <2>12 DEF TablesDefined
    <2>14. (\A d \in 1 .. Len(walk) : InTables(Frame(walk[d].frame), tables))'
      BY <1>1, <1>2, <1>5 DEF Frame
    <2>15. IsTables(tables)' /\ UsesKnown(Stream)' /\ TablesDefined(Stream, tables)'
      BY <1>1, <1>4, <1>5, <2>12, <2>13
    <2>. QED
      BY <2>14, <2>15 DEF Named
  <1>6. CASE /\ tables' = [tables EXCEPT !.events = Intern(@, PauseName)]
             /\ t = BlockPackets(pause, tables'.events)
    <2>1. PICK events : events = Intern(tables.events, PauseName)
      OBVIOUS
    <2>2. PICK new : new = [events |-> events, keys |-> tables.keys, values |-> tables.values]
      OBVIOUS
    <2>3. tables' = new /\ tables'.events = events
      BY <1>1, <1>6, <2>1, <2>2 DEF IsTables
    <2>4. /\ new["events"] = events /\ new["keys"] = tables.keys /\ new["values"] = tables.values
          /\ new.events = events /\ new.keys = tables.keys /\ new.values = tables.values
          /\ tables["events"] = tables.events /\ tables["keys"] = tables.keys
          /\ tables["values"] = tables.values
      BY <2>2
    <2>5. Longer(tables.events, events) /\ Contains(events, PauseName)
      BY <1>1, <2>1, InternOne DEF IsTables
    <2>6. \A s : IsSeq(s) => Longer(s, s)
      BY DEF Longer, IsSeq
    <2>7. IsTables(new) /\ \A name \in TableNames : Longer(tables[name], new[name])
      <3>1. Longer(tables.keys, tables.keys) /\ Longer(tables.values, tables.values)
        BY <1>1, <2>6 DEF IsTables
      <3>2. IsTables(new)
        BY <1>1, <2>2, <2>4, <2>5 DEF IsTables, Longer
      <3>. QED
        BY <2>4, <2>5, <3>1, <3>2 DEF TableNames
    <2>8. PICK p, q : /\ p = SliceBegin(TraceSequence, pause.start,
                                        Gained("events", tables.events, events),
                                        References("events", events, <<PauseName>>), {})
                      /\ q = SliceEnd(TraceSequence, pause.end, {})
      OBVIOUS
    <2>9. t = <<p, q>>
      BY <1>6, <2>3, <2>8 DEF BlockPackets
    <2>10. /\ p.kind = "Begin" /\ p.seq = TraceSequence
           /\ p.defines = Gained("events", tables.events, events)
           /\ p.uses = References("events", events, <<PauseName>>)
           /\ q.kind = "End" /\ q.seq = TraceSequence /\ q.uses = {} /\ q.defines = {}
      BY <2>8 DEF SliceBegin, SliceEnd, Packet
    <2>11. <<p, q>> \in Seq({p, q}) /\ Len(<<p, q>>) = 2 /\ <<p, q>>[1] = p /\ <<p, q>>[2] = q
      OBVIOUS
    <2>12. IsSeq(t) /\ Len(t) = 2 /\ t[1] = p /\ t[2] = q
      BY <2>9, <2>11 DEF IsSeq
    <2>13. ASSUME NEW use \in p.uses
           PROVE  IsOpen(Stream, use) \/ use \in p.defines
      <3>1. use = Reference("events", events, PauseName)
        <4>1. ToSet(<<PauseName>>) = {PauseName}
          BY DEF ToSet
        <4>. QED
          BY <2>10, <2>13, <4>1 DEF References
      <3>2. IsSeq(events) /\ IsSeq(tables.events)
        BY <1>1, <2>5 DEF Longer, IsTables
      <3>3. PICK i \in 1 .. Len(events) : use = Definition("events", events, i)
        BY <2>5, <3>1, <3>2, ReferenceDefined
      <3>4. \/ i \in 1 .. Len(tables.events) /\ use = Definition("events", tables.events, i)
            \/ use \in Gained("events", tables.events, events)
        BY <2>5, <3>2, <3>3, GainedDefined
      <3>5. "events" \in TableNames
        BY DEF TableNames
      <3>. QED
        BY <1>1, <2>4, <2>10, <3>4, <3>5 DEF TablesDefined
    <2>14. /\ UsesKnown(Stream \o t)
           /\ \A use : (IsOpen(Stream, use) \/ \E j \in 1 .. Len(t) : use \in t[j].defines) =>
                IsOpen(Stream \o t, use)
      <3>1. \A i \in 1 .. Len(t) : (i = 1 \/ i = 2) /\ 1 \in 1 .. i
        BY <2>12
      <3>2. \A i \in 1 .. Len(t) : t[i].seq = TraceSequence /\ t[i].kind # "Track"
        BY <2>10, <2>12, <3>1
      <3>3. \A i \in 1 .. Len(t) : \A use \in t[i].uses :
              IsOpen(Stream, use) \/ \E j \in 1 .. i : use \in t[j].defines
        BY <2>10, <2>12, <2>13, <3>1
      <3>. QED
        BY <1>1, <1>4, <2>12, <3>2, <3>3, TracePieceKnown
    <2>15. TablesDefined(Stream \o t, new)
      <3>1. 1 \in 1 .. Len(t)
        BY <2>12
      <3>2. ASSUME NEW name \in TableNames, NEW i \in 1 .. Len(new[name]),
                   Definition(name, new[name], i) \in Gained(name, tables[name], new[name])
            PROVE  \E j \in 1 .. Len(t) : Definition(name, new[name], i) \in t[j].defines
        <4>1. CASE name = "events"
          BY <2>4, <2>10, <2>12, <3>1, <3>2, <4>1
        <4>2. CASE name # "events"
          <5>1. new[name] = tables[name] /\ IsSeq(tables[name])
            BY <1>1, <2>4, <4>2 DEF TableNames, IsTables
          <5>2. Gained(name, tables[name], new[name]) = {}
            <6>1. PICK l : l = Len(tables[name])
              OBVIOUS
            <6>2. l \in Nat /\ l + 1 .. l = {}
              BY <5>1, <6>1 DEF IsSeq
            <6>. QED
              BY <5>1, <6>1, <6>2 DEF Gained
          <5>. QED
            BY <3>2, <5>2
        <4>. QED
          BY <4>1, <4>2
      <3>. QED
        BY <1>1, <1>4, <2>7, <2>12, <2>14, <3>2, TablesStayDefined
    <2>16. \A d \in 1 .. Len(walk) : InTables(Frame(walk[d].frame), new)
      BY <1>1, <2>7, InTablesStays
    <2>17. (\A d \in 1 .. Len(walk) : InTables(Frame(walk[d].frame), tables))'
      BY <1>2, <2>3, <2>16 DEF Frame
    <2>18. IsTables(tables)' /\ UsesKnown(Stream)' /\ TablesDefined(Stream, tables)'
      BY <1>4, <2>3, <2>7, <2>14, <2>15
    <2>. QED
      BY <2>17, <2>18 DEF Named
  <1>. QED
    BY <1>3, <1>5, <1>6 DEF RenderGap

\* The other pieces use nothing, or define it themselves.
LEMMA ClosedNamed ==
  ASSUME Walking, Named, outbox = <<>>, sent' = sent, NEW t, t = outbox', IsSeq(t), UsesKnown(t)
  PROVE  UsesKnown(Stream)' /\ Stream = sent /\ Stream' = Stream \o t /\ IsSeq(Stream)
  <1>1. Stream = sent /\ Stream' = Stream \o t /\ IsSeq(Stream)
    BY StreamTypes DEF Stream, IsSeq
  <1>2. UsesKnown(Stream \o t)
    BY <1>1, ClosedPieceKnown DEF Named
  <1>. QED
    BY <1>1, <1>2

LEMMA HeaderNamed ==
  ASSUME Walking, Named, Header
  PROVE  Named'
  <1>1. PICK t : t = outbox'
    OBVIOUS
  <1>2. /\ phase = "header" /\ phase' = "root" /\ outbox = <<>> /\ sent' = sent
        /\ tables' = tables /\ IsTables(tables)
    BY DEF Header, Unshared, Walking, Named
  <1>3. IsSeq(t) /\ Len(t) = 5
    BY <1>1, HeaderPiece
  <1>4. \A i \in 1 .. 5 : t[i].uses = {}
    <2>1. t = << Track(GlobalSequence, Root.start, {}, {}),
                 SliceBegin(GlobalSequence, Root.start, {}, {}, {}),
                 SliceEnd(GlobalSequence, Root.end, {}),
                 Track(DataRateSequence, Root.start, {}, {}),
                 Track(TraceSequence, Root.start, {}, {DataRateTrack}) >>
      BY <1>1 DEF Header
    <2>2. /\ t[1].uses = {} /\ t[2].uses = {} /\ t[3].uses = {} /\ t[4].uses = {}
          /\ t[5].uses = {}
      BY <2>1 DEF Track, SliceBegin, SliceEnd, Packet
    <2>3. \A i \in 1 .. 5 : i = 1 \/ i = 2 \/ i = 3 \/ i = 4 \/ i = 5
      OBVIOUS
    <2>. QED
      BY <2>2, <2>3
  <1>5. UsesKnown(t)
    BY <1>3, <1>4 DEF UsesKnown
  <1>6. UsesKnown(Stream)'
    BY <1>1, <1>2, <1>3, <1>5, ClosedNamed
  <1>7. \A s : TablesDefined(s, tables)
    <2>1. \A name \in TableNames : Len(tables[name]) = 0
      BY <1>2 DEF Named
    <2>. QED
      BY <2>1 DEF TablesDefined
  <1>. QED
    BY <1>2, <1>6, <1>7 DEF Named

LEMMA ChunkNamed ==
  ASSUME Walking, Named, ProcessChunk
  PROVE  Named'
  <1>1. /\ phase = "frames" /\ phase' = "frames" /\ outbox = <<>> /\ sent' = sent
        /\ trace' = trace /\ walk \in Seq(Visit) /\ walk # <<>>
        /\ Current.next <= Len(CurrentFrame.chunks)
    BY DEF ProcessChunk, InFrame, Ready, Unshared, Walking
  <1>2. CASE NextChunk.kind = "Pause" /\ RenderGap(NextChunk)
    BY <1>1, <1>2, PauseNamed
  <1>3. CASE NextChunk.kind = "Frame" /\ BeginFrame(NextChunk.id, Advanced)
    <2>1. PICK id, callers : id = NextChunk.id /\ callers = Advanced
      OBVIOUS
    <2>2. id \in DOMAIN trace.frames
      BY <1>1, <1>3, <2>1, ChunkType
    <2>3. /\ Len(walk) \in Nat /\ Len(walk) >= 1
          /\ callers \in Seq(Visit) /\ Len(callers) = Len(walk)
          /\ \A i \in 1 .. Len(walk) - 1 : callers[i] = walk[i]
          /\ Current = walk[Len(walk)]
          /\ callers[Len(walk)] = [frame |-> Current.frame, next |-> Current.next + 1]
      BY <1>1, <2>1, AdvancedWalks
    <2>4. \A d \in 1 .. Len(walk) : InTables(Frame(walk[d].frame), tables)
      BY <1>1 DEF Named
    <2>5. \A d \in 1 .. Len(callers) : InTables(Frame(callers[d].frame), tables)
      <3>1. callers[Len(walk)].frame = walk[Len(walk)].frame
        BY <2>3
      <3>2. \A d \in 1 .. Len(walk) : d \in 1 .. Len(walk) - 1 \/ d = Len(walk)
        BY <2>3
      <3>. QED
        BY <2>3, <2>4, <3>1, <3>2
    <2>6. BeginFrame(id, callers)
      BY <1>3, <2>1
    <2>. QED
      BY <1>1, <2>2, <2>3, <2>5, <2>6, BeginNamed
  <1>. QED
    BY <1>2, <1>3 DEF ProcessChunk

LEMMA RootNamed ==
  ASSUME Walking, Named, BeginRoot
  PROVE  Named'
  <1>1. /\ phase = "root" /\ phase' = "frames" /\ outbox = <<>> /\ sent' = sent
        /\ trace' = trace /\ walk = <<>> /\ walk \in Seq(Visit)
        /\ BeginFrame(trace.root, walk)
    BY DEF BeginRoot, Ready, Unshared, Walking
  <1>2. trace.root \in DOMAIN trace.frames
    BY TracesAssumption DEF Walking
  <1>3. \A d \in 1 .. Len(walk) : InTables(Frame(walk[d].frame), tables)
    BY <1>1
  <1>. QED
    BY <1>1, <1>2, <1>3, BeginNamed

LEMMA EndNamed ==
  ASSUME Walking, Named, EndFrame
  PROVE  Named'
  <1>1. /\ phase = "frames" /\ phase' \in {"frames", "events"} /\ outbox = <<>> /\ sent' = sent
        /\ tables' = tables /\ trace' = trace /\ walk \in Seq(Visit) /\ walk # <<>>
        /\ walk' = Front(walk)
    BY DEF EndFrame, InFrame, Ready, Unshared, Walking
  <1>2. PICK p : p = SliceEnd(TraceSequence, CurrentFrame.end, CurrentFrame.end_rate)
    OBVIOUS
  <1>3. PICK t : t = outbox'
    OBVIOUS
  <1>4. t = <<p>> /\ p.uses = {} /\ p.seq = TraceSequence /\ p.kind = "End"
    BY <1>2, <1>3 DEF EndFrame, SliceEnd, Packet
  <1>5. IsSeq(t) /\ Len(t) = 1 /\ t[1] = p
    BY <1>4, SinglePiece
  <1>6. \A i \in 1 .. Len(t) : t[i] = p
    BY <1>5
  <1>7. Stream' = Stream \o t /\ IsSeq(Stream) /\ UsesKnown(Stream) /\ TablesDefined(Stream, tables)
    BY <1>1, <1>3, StreamTypes DEF Stream, IsSeq, Named
  <1>8. UsesKnown(Stream \o t) /\ \A use : IsOpen(Stream, use) => IsOpen(Stream \o t, use)
    BY <1>4, <1>5, <1>6, <1>7, TracePieceKnown
  <1>9. TablesDefined(Stream \o t, tables)
    BY <1>7, <1>8 DEF TablesDefined
  <1>10. \A d \in 1 .. Len(walk') : InTables(Frame(walk'[d].frame), tables)
    <2>1. Len(walk) \in Nat /\ Len(walk') = Len(walk) - 1
          /\ \A i \in 1 .. Len(walk) - 1 : walk'[i] = walk[i]
      BY <1>1, FrontWalks
    <2>2. \A d \in 1 .. Len(walk') : d \in 1 .. Len(walk) /\ d \in 1 .. Len(walk) - 1
      BY <2>1
    <2>. QED
      BY <1>1, <2>1, <2>2 DEF Named
  <1>11. (\A d \in 1 .. Len(walk) : InTables(Frame(walk[d].frame), tables))'
    BY <1>1, <1>10 DEF Frame
  <1>12. IsTables(tables)' /\ UsesKnown(Stream)' /\ TablesDefined(Stream, tables)'
    BY <1>1, <1>7, <1>8, <1>9 DEF Named
  <1>. QED
    BY <1>1, <1>11, <1>12 DEF Named

LEMMA EventNamed ==
  ASSUME Walking, Named, ReportEvent
  PROVE  Named'
  <1>1. PICK e, t, n : e = trace.events[nextEvent] /\ t = outbox' /\ n = Len(e.occurences)
    OBVIOUS
  <1>2. IsEvent(e)
    BY <1>1, EventType
  <1>3. /\ phase' = "events" /\ outbox = <<>> /\ sent' = sent /\ tables' = tables
        /\ t = EventPackets(e)
    BY <1>1 DEF ReportEvent, Ready, Unshared
  <1>4. /\ n \in Nat /\ IsSeq(t) /\ Len(t) = IF n = 0 THEN 0 ELSE n + 1
        /\ \A i \in 1 .. Len(t) : t[i].seq = EventSequence(e.id)
    BY <1>1, <1>2, <1>3, EventPiece
  <1>5. CASE n = 0
    <2>1. UsesKnown(t)
      BY <1>4, <1>5 DEF UsesKnown
    <2>. QED
      BY <1>1, <1>3, <1>4, <2>1, ClosedNamed DEF Named
  <1>6. CASE n # 0
    <2>1. PICK name : name = [table |-> "events", iid |-> 1, means |-> e.description]
      OBVIOUS
    <2>2. PICK p, f : /\ p = Track(EventSequence(e.id), Head(e.occurences), {name}, {})
                      /\ f = [i \in 1 .. n |-> Instant(e, e.occurences[i])]
      OBVIOUS
    <2>3. IsSeq(f) /\ Len(f) = n
      <3>1. f = [i \in 1 .. n |-> f[i]]
        BY <2>2
      <3>. QED
        BY <1>4, <3>1, FunctionIsSeq
    <2>4. IsSeq(<<p>>) /\ Len(<<p>>) = 1 /\ <<p>>[1] = p
      BY SinglePiece
    <2>5. t = <<p>> \o f
      <3>1. e.occurences # <<>>
        BY <1>1, <1>6
      <3>. QED
        BY <1>1, <1>3, <2>1, <2>2, <3>1 DEF EventPackets
    <2>6. t[1] = p /\ \A i \in 1 .. n : t[i + 1] = f[i]
      <3>1. /\ \A i \in 1 .. 1 : t[i] = <<p>>[i]
            /\ \A i \in 1 .. n : t[1 + i] = f[i]
        BY <2>3, <2>4, <2>5, Joined
      <3>2. 1 \in 1 .. 1 /\ \A i \in 1 .. n : i + 1 = 1 + i
        BY <1>4
      <3>. QED
        BY <2>4, <3>1, <3>2
    <2>7. p.defines = {name} /\ p.uses = {}
      BY <2>2 DEF Track, Packet
    <2>8. \A i \in 1 .. n : f[i].kind = "Instant" /\ f[i].uses = {name}
      BY <2>1, <2>2 DEF Instant, Packet
    <2>9. \A i \in 2 .. n + 1 : t[i].kind = "Instant" /\ t[i].uses = {name}
      <3>1. \A i \in 2 .. n + 1 : i - 1 \in 1 .. n /\ (i - 1) + 1 = i
        BY <1>4
      <3>2. \A j \in 1 .. n : t[j + 1].kind = "Instant" /\ t[j + 1].uses = {name}
        BY <2>6, <2>8
      <3>. QED
        BY <3>1, <3>2
    <2>10. UsesKnown(t)
      <3> SUFFICES ASSUME NEW i \in 1 .. Len(t), NEW use \in t[i].uses
                   PROVE  UseKnown(t, i, use)
        BY DEF UsesKnown
      <3>1. Len(t) = n + 1
        BY <1>4, <1>6
      <3>2. i \in 2 .. n + 1
        BY <1>4, <2>6, <2>7, <3>1
      <3>3. use \in t[1].defines
        BY <2>6, <2>7, <2>9, <3>2
      <3>4. 1 \in 1 .. i /\ 1 \in 1 .. Len(t)
        BY <1>4, <3>1, <3>2
      <3>5. t[1].seq = t[i].seq
        BY <1>4, <3>4
      <3>6. \A k \in 1 + 1 .. i : t[k].kind # "Track"
        <4>1. \A k \in 1 + 1 .. i : k \in 2 .. n + 1
          BY <1>4, <3>2
        <4>. QED
          BY <2>9, <4>1
      <3>. QED
        BY <3>3, <3>4, <3>5, <3>6 DEF UseKnown
    <2>. QED
      BY <1>1, <1>3, <1>4, <2>10, ClosedNamed DEF Named
  <1>. QED
    BY <1>5, <1>6

\* What was known stays known when the rest of the stream is cut off.
LEMMA PrefixKnown ==
  ASSUME NEW s, NEW t, IsSeq(s), IsSeq(t), UsesKnown(s \o t)
  PROVE  UsesKnown(s)
  <1>1. PICK st : st = s \o t
    OBVIOUS
  <1>2. /\ Len(s) \in Nat /\ Len(t) \in Nat /\ Len(st) = Len(s) + Len(t)
        /\ \A i \in 1 .. Len(s) : st[i] = s[i]
    BY <1>1, Joined
  <1> SUFFICES ASSUME NEW i \in 1 .. Len(s), NEW use \in s[i].uses
               PROVE  UseKnown(s, i, use)
    BY DEF UsesKnown
  <1>3. i \in 1 .. Len(st) /\ use \in st[i].uses
    BY <1>2
  <1>4. UseKnown(st, i, use)
    BY <1>1, <1>3 DEF UsesKnown
  <1>5. \A j \in 1 .. i : st[j] = s[j]
    BY <1>2
  <1>6. \A j \in 1 .. i : \A k \in j + 1 .. i : k \in 1 .. i
    OBVIOUS
  <1>7. i \in 1 .. i
    OBVIOUS
  <1>. QED
    BY <1>4, <1>5, <1>6, <1>7 DEF UseKnown

LEMMA NamedInit == Init => Named
  <1> SUFFICES ASSUME Init
               PROVE  Named
    OBVIOUS
  <1>1. PICK s : s = Stream
    OBVIOUS
  <1>2. s = <<>> /\ Len(s) = 0
    BY <1>1 DEF Init, Stream
  <1>3. UsesKnown(s)
    BY <1>2 DEF UsesKnown
  <1>4. phase = "setup" /\ tables = [events |-> <<>>, keys |-> <<>>, values |-> <<>>]
    BY DEF Init
  <1>5. IsTables(tables)
    BY <1>4, IsSeqOperations DEF IsTables
  <1>6. \A name \in TableNames : tables[name] = <<>>
    BY <1>4 DEF TableNames
  <1>. QED
    BY <1>1, <1>3, <1>4, <1>5, <1>6 DEF Named

LEMMA NamedNext ==
  ASSUME Walking, Named, [Next]_vars
  PROVE  Named'
  <1>1. CASE Header
    BY <1>1, HeaderNamed
  <1>2. CASE BeginRoot
    BY <1>2, RootNamed
  <1>3. CASE ProcessChunk
    BY <1>3, ChunkNamed
  <1>4. CASE EndFrame
    BY <1>4, EndNamed
  <1>5. CASE ReportEvent
    BY <1>5, EventNamed
  <1>6. CASE Send
    <2>1. Stream' = Stream
      BY <1>6, MoveHead DEF Send, Stream, Walking
    <2>2. UNCHANGED <<trace, walk, tables, phase>>
      BY <1>6 DEF Send
    <2>. QED
      BY <2>1, <2>2 DEF Named, Frame
  <1>7. CASE SendFails
    <2>1. IsSeq(sent) /\ IsSeq(outbox) /\ Walking'
      BY WalkingNext DEF Walking
    <2>2. Stream' = sent /\ phase' = "panicked" /\ tables' = tables
      BY <1>7, <2>1, StreamTypes DEF SendFails, Stream
    <2>3. UsesKnown(sent)
      BY <2>1, PrefixKnown DEF Named, Stream
    <2>. QED
      BY <2>2, <2>3 DEF Named
  <1>8. CASE \/ CreateFile \/ CreateFileFails \/ FinishConversion \/ Join
             \/ Write \/ WriteFails \/ WriterEnds \/ CtrlC \/ Terminated \/ UNCHANGED vars
    <2>1. /\ UNCHANGED <<trace, walk, sent, outbox, tables>>
          /\ phase' \in {"root", "frames"} => phase' = phase
          /\ phase' \in {"setup", "header"} => phase \in {"setup", "header"}
      BY <1>8 DEF CreateFile, CreateFileFails, FinishConversion, Join, Write, WriteFails,
                  WriterEnds, CtrlC, Terminated, converterVars, vars
    <2>2. Stream' = Stream
      BY <2>1 DEF Stream
    <2>. QED
      BY <2>1, <2>2 DEF Named, Frame
  <1>. QED
    BY <1>1, <1>2, <1>3, <1>4, <1>5, <1>6, <1>7, <1>8 DEF Next, Convert, Writer

\* Every string a packet refers to by number has been defined on its sequence,
\* by it or before it, and not been cleared since, wherever frames resume after a
\* pause and whenever the conversion is stopped (intern_string, render_gap and
\* create_track of perfetto/converter.rs).
THEOREM NamesAlwaysKnown == Spec => []NamesKnown
  <1>1. ASSUME Walking, Named
        PROVE  NamesKnown
    <2>1. UsesKnown(sent)
      BY <1>1, PrefixKnown DEF Walking, Named, Stream
    <2>. QED
      BY <2>1 DEF UsesKnown, UseKnown, NamesKnown
  <1>2. Init => Walking /\ Named
    BY WalkingInit, NamedInit
  <1>3. Walking /\ Named /\ [Next]_vars => (Walking /\ Named)'
    BY WalkingNext, NamedNext
  <1>. QED
    BY <1>1, <1>2, <1>3, PTL DEF Spec

-----------------------------------------------------------------------------
(***************************************************************************)
(* Part 5: what is read back.                                              *)
(*                                                                         *)
(* The slices that are open are those of the frames on the walk, and each  *)
(* runs from where its frame started or the last pause ended.  What has    *)
(* been read, together with what the open slices will be when their frames *)
(* end, are the pieces of the frames begun so far, cut at the pauses       *)
(* passed so far; a pause cuts exactly the frames on the walk, since all   *)
(* others are over when it starts or have yet to begin when it ends.  In   *)
(* the end all frames have been begun and all pauses passed.               *)
(***************************************************************************)
Level(s, n) == OpenIn(s, TraceSequence, n)

IsBegin(s, i) == i \in 1 .. Len(s) /\ s[i].kind = "Begin" /\ s[i].seq = TraceSequence

\* the slice that begins with the i-th packet ends with the j-th
Closes(s, i, j) ==
  /\ j \in 1 .. Len(s) /\ i < j /\ s[j].kind = "End" /\ s[j].seq = TraceSequence
  /\ Level(s, j) < Level(s, i)
  /\ \A k \in i .. j - 1 : Level(s, k) >= Level(s, i)

NameOf(p) == CHOOSE name \in {u.means : u \in {v \in p.uses : v.table = "events"}} : TRUE

SliceOf(s, i, j) == <<NameOf(s[i]), s[i].ts, s[j].ts>>

IsRead(s, x) == \E i, j \in 1 .. Len(s) : IsBegin(s, i) /\ Closes(s, i, j) /\ x = SliceOf(s, i, j)

\* b has the packets that began the n slices that are open
OpenSlices(s, n, b) ==
  /\ n \in Nat /\ Level(s, Len(s)) = n
  /\ \A d \in 1 .. n : /\ IsBegin(s, b[d]) /\ Level(s, b[d]) = d
                       /\ \A k \in b[d] .. Len(s) : Level(s, k) >= d

\* What follows leaves what has been read as it is.
LEMMA StillRead ==
  ASSUME NEW s, NEW t, IsSeq(s), IsSeq(t)
  PROVE  /\ IsSeq(s \o t) /\ Len(s \o t) = Len(s) + Len(t) /\ Len(s) \in Nat /\ Len(t) \in Nat
         /\ \A i \in 1 .. Len(s) : (s \o t)[i] = s[i] /\ i \in 1 .. Len(s \o t)
         /\ \A i \in 1 .. Len(t) : (s \o t)[Len(s) + i] = t[i]
         /\ \A k \in 0 .. Len(s) : Level(s \o t, k) = Level(s, k)
         /\ \A m \in 0 .. Len(t) : Level(s \o t, Len(s) + m) = Level(s, Len(s)) + Level(t, m)
         /\ \A i \in 1 .. Len(s) : IsBegin(s, i) <=> IsBegin(s \o t, i)
         /\ \A i, j \in 1 .. Len(s) : Closes(s, i, j) =>
              Closes(s \o t, i, j) /\ SliceOf(s \o t, i, j) = SliceOf(s, i, j)
         /\ \A x : IsRead(s, x) => IsRead(s \o t, x)
  <1>1. PICK r : r = s \o t
    OBVIOUS
  <1>2. /\ IsSeq(r) /\ Len(r) = Len(s) + Len(t) /\ Len(s) \in Nat /\ Len(t) \in Nat
        /\ \A i \in 1 .. Len(s) : r[i] = s[i]
        /\ \A i \in 1 .. Len(t) : r[Len(s) + i] = t[i]
    BY <1>1, Joined
  <1>3. /\ \A k \in 0 .. Len(s) : Level(r, k) = Level(s, k)
        /\ \A m \in 0 .. Len(t) : Level(r, Len(s) + m) = Level(s, Len(s)) + Level(t, m)
    <2>1. /\ \A k \in 0 .. Len(s) : OpenIn(s \o t, TraceSequence, k) = OpenIn(s, TraceSequence, k)
          /\ \A m \in 0 .. Len(t) : OpenIn(s \o t, TraceSequence, Len(s) + m) =
               OpenIn(s, TraceSequence, Len(s)) + OpenIn(t, TraceSequence, m)
      BY OpenConcat
    <2>. QED
      BY <1>1, <2>1 DEF Level
  <1>4. \A i \in 1 .. Len(s) : r[i] = s[i] /\ i \in 1 .. Len(r) /\ i \in 0 .. Len(s)
    BY <1>2
  <1>5. \A i \in 1 .. Len(s) : IsBegin(s, i) <=> IsBegin(r, i)
    BY <1>4 DEF IsBegin
  <1>6. ASSUME NEW i \in 1 .. Len(s), NEW j \in 1 .. Len(s), Closes(s, i, j)
        PROVE  Closes(r, i, j) /\ SliceOf(r, i, j) = SliceOf(s, i, j)
    <2>1. \A k \in i .. j - 1 : k \in 0 .. Len(s)
      BY <1>2
    <2>2. /\ j \in 1 .. Len(r) /\ i < j /\ r[j].kind = "End" /\ r[j].seq = TraceSequence
          /\ Level(r, j) < Level(r, i)
      BY <1>3, <1>4, <1>6 DEF Closes
    <2>3. \A k \in i .. j - 1 : Level(r, k) >= Level(r, i)
      BY <1>3, <1>4, <1>6, <2>1 DEF Closes
    <2>4. SliceOf(r, i, j) = SliceOf(s, i, j)
      BY <1>4 DEF SliceOf
    <2>. QED
      BY <2>2, <2>3, <2>4 DEF Closes
  <1>7. ASSUME NEW x, IsRead(s, x)
        PROVE  IsRead(r, x)
    <2>1. PICK i, j \in 1 .. Len(s) : IsBegin(s, i) /\ Closes(s, i, j) /\ x = SliceOf(s, i, j)
      BY <1>7 DEF IsRead
    <2>. QED
      BY <1>4, <1>5, <1>6, <2>1 DEF IsRead
  <1>. QED
    BY <1>1, <1>2, <1>3, <1>4, <1>5, <1>6, <1>7

\* An End closes the slice that was opened last.
LEMMA LastCloses ==
  ASSUME NEW s, NEW t, IsSeq(s), IsSeq(t), NEW n, NEW b, OpenSlices(s, n, b), NEW d \in 1 .. n,
         NEW k \in 1 .. Len(t), t[k].kind = "End", t[k].seq = TraceSequence,
         Level(t, k) = d - n - 1, \A m \in 0 .. k - 1 : Level(t, m) >= d - n
  PROVE  Closes(s \o t, b[d], Len(s) + k) /\ IsBegin(s \o t, b[d])
  <1>1. PICK r : r = s \o t
    OBVIOUS
  <1>2. PICK l : l = Len(s)
    OBVIOUS
  <1>3. /\ Len(r) = l + Len(t) /\ l \in Nat /\ Len(t) \in Nat
        /\ \A i \in 1 .. Len(t) : r[l + i] = t[i]
        /\ \A i \in 0 .. l : Level(r, i) = Level(s, i)
        /\ \A m \in 0 .. Len(t) : Level(r, l + m) = Level(s, l) + Level(t, m)
        /\ \A i \in 1 .. l : IsBegin(s, i) <=> IsBegin(r, i)
    BY <1>1, <1>2, StillRead
  <1>4. /\ n \in Nat /\ Level(s, l) = n /\ b[d] \in 1 .. l /\ IsBegin(s, b[d])
        /\ Level(s, b[d]) = d /\ \A i \in b[d] .. l : Level(s, i) >= d
    BY <1>2 DEF OpenSlices, IsBegin
  <1>5. \A m \in 0 .. Len(t) : Level(t, m) \in Int
    BY OpenNext DEF Level
  <1>6. Level(r, l + k) = d - 1 /\ Level(r, b[d]) = d
    <2>1. k \in 0 .. Len(t) /\ b[d] \in 0 .. l
      BY <1>3, <1>4
    <2>2. Level(r, l + k) = n + (d - n - 1)
      BY <1>3, <1>4, <2>1
    <2>. QED
      BY <1>3, <1>4, <2>1, <2>2
  <1>7. ASSUME NEW i \in b[d] .. (l + k) - 1
        PROVE  Level(r, i) >= d
    <2>1. CASE i <= l
      <3>1. i \in b[d] .. l /\ i \in 0 .. l
        BY <1>3, <1>4, <2>1
      <3>. QED
        BY <1>3, <1>4, <3>1
    <2>2. CASE i > l
      <3>1. PICK m \in 0 .. k - 1 : i = l + m
        <4>1. i - l \in 0 .. k - 1 /\ i = l + (i - l)
          BY <1>3, <1>4, <2>2
        <4>. QED
          BY <4>1
      <3>2. m \in 0 .. Len(t) /\ Level(t, m) \in Int /\ Level(t, m) >= d - n
        BY <1>3, <1>5, <3>1
      <3>3. Level(r, i) = n + Level(t, m)
        BY <1>3, <1>4, <3>1, <3>2
      <3>. QED
        BY <1>4, <3>2, <3>3
    <2>. QED
      BY <1>3, <1>4, <2>1, <2>2
  <1>8. /\ l + k \in 1 .. Len(r) /\ b[d] < l + k /\ r[l + k].kind = "End"
        /\ r[l + k].seq = TraceSequence
    <2>1. PICK o : o = b[d]
      OBVIOUS
    <2>2. l \in Nat /\ o \in 1 .. l /\ Len(t) \in Nat /\ Len(r) = l + Len(t)
      BY <1>3, <1>4, <2>1
    <2>3. l + k \in 1 .. Len(r) /\ o < l + k
      BY <2>2
    <2>4. r[l + k] = t[k]
      BY <1>3
    <2>. QED
      BY <2>1, <2>3, <2>4
  <1>9. Closes(r, b[d], l + k)
    BY <1>6, <1>7, <1>8 DEF Closes
  <1>. QED
    BY <1>1, <1>2, <1>3, <1>4, <1>9

-----------------------------------------------------------------------------
(***************************************************************************)
(* Cutting frames at pauses.                                               *)
(***************************************************************************)
Span == {p \in [start : Nat, end : Nat] : p.start < p.end}

Starts(f, cut) == {f.start} \cup {p.end : p \in During(f, cut)}
Ends(f, cut) == {f.end} \cup {p.start : p \in During(f, cut)}

\* the last piece of a frame starts here
LastStart(f, o, cut) ==
  /\ o \in Starts(f, cut)
  /\ \A a \in Starts(f, cut) : a = o \/ \E p \in During(f, cut) : a <= p.start /\ p.end <= o
  /\ \A p \in During(f, cut) : p.end <= o

IsTimed(f) == f.start \in Nat /\ f.end \in Nat /\ f.start <= f.end

LEMMA PieceIs ==
  ASSUME NEW f, NEW cut, NEW x
  PROVE  x \in Pieces(f, cut) <=>
           \E a \in Starts(f, cut), e \in Ends(f, cut) :
             /\ x = <<f.name, a, e>> /\ a <= e
             /\ ~\E p \in During(f, cut) : a <= p.start /\ p.end <= e
  <1>1. ASSUME x \in Pieces(f, cut)
        PROVE  \E a \in Starts(f, cut), e \in Ends(f, cut) :
                 /\ x = <<f.name, a, e>> /\ a <= e
                 /\ ~\E p \in During(f, cut) : a <= p.start /\ p.end <= e
    <2>1. PICK q \in Starts(f, cut) \X Ends(f, cut) :
            /\ x = <<f.name, q[1], q[2]>> /\ q[1] <= q[2]
            /\ ~\E p \in During(f, cut) : q[1] <= p.start /\ p.end <= q[2]
      BY <1>1 DEF Pieces, Starts, Ends
    <2>2. q[1] \in Starts(f, cut) /\ q[2] \in Ends(f, cut)
      OBVIOUS
    <2>. QED
      BY <2>1, <2>2
  <1>2. ASSUME NEW a \in Starts(f, cut), NEW e \in Ends(f, cut), x = <<f.name, a, e>>, a <= e,
               ~\E p \in During(f, cut) : a <= p.start /\ p.end <= e
        PROVE  x \in Pieces(f, cut)
    <2>1. PICK q : q = <<a, e>>
      OBVIOUS
    <2>2. /\ q \in Starts(f, cut) \X Ends(f, cut) /\ q[1] = a /\ q[2] = e
      BY <2>1
    <2>3. /\ x = <<f.name, q[1], q[2]>> /\ q[1] <= q[2]
          /\ ~\E p \in During(f, cut) : q[1] <= p.start /\ p.end <= q[2]
      BY <1>2, <2>2
    <2>. QED
      BY <2>2, <2>3 DEF Pieces, Starts, Ends
  <1>. QED
    BY <1>1, <1>2

\* the points of time in question
LEMMA PointsOfTime ==
  ASSUME NEW f, IsTimed(f), NEW cut \in SUBSET Span
  PROVE  /\ \A p \in During(f, cut) : /\ p \in cut /\ p.start \in Nat /\ p.end \in Nat /\ p.start < p.end
                                      /\ f.start <= p.start /\ p.end <= f.end
         /\ \A a \in Starts(f, cut) : a \in Nat /\ f.start <= a /\ a <= f.end
         /\ \A e \in Ends(f, cut) : e \in Nat /\ f.start <= e /\ e <= f.end
  <1>1. \A p \in During(f, cut) : /\ p \in cut /\ p.start \in Nat /\ p.end \in Nat /\ p.start < p.end
                                  /\ f.start <= p.start /\ p.end <= f.end
    BY DEF During, Span
  <1>. QED
    BY <1>1 DEF Starts, Ends, IsTimed

\* Pauses that are over when the frame starts do not matter.
LEMMA WholePiece ==
  ASSUME NEW f, IsTimed(f), NEW cut \in SUBSET Span, \A p \in cut : p.end <= f.start
  PROVE  Pieces(f, cut) = {<<f.name, f.start, f.end>>} /\ LastStart(f, f.start, cut)
  <1>1. During(f, cut) = {}
    <2>1. ASSUME NEW p \in During(f, cut)
          PROVE  FALSE
      <3>1. /\ p \in cut /\ p.start \in Nat /\ p.end \in Nat /\ p.start < p.end
            /\ f.start <= p.start
        BY PointsOfTime
      <3>. QED
        BY <3>1 DEF IsTimed
    <2>. QED
      BY <2>1
  <1>2. Starts(f, cut) = {f.start} /\ Ends(f, cut) = {f.end}
    BY <1>1 DEF Starts, Ends
  <1>3. \A x : x \in Pieces(f, cut) <=> x = <<f.name, f.start, f.end>>
    BY <1>1, <1>2, PieceIs DEF IsTimed
  <1>. QED
    BY <1>1, <1>2, <1>3 DEF LastStart

\* The last piece of a frame runs to its end.
LEMMA LastPiece ==
  ASSUME NEW f, IsTimed(f), NEW cut \in SUBSET Span, NEW o, LastStart(f, o, cut)
  PROVE  <<f.name, o, f.end>> \in Pieces(f, cut)
  <1>1. o \in Starts(f, cut) /\ o \in Nat /\ o <= f.end /\ f.end \in Ends(f, cut)
    BY PointsOfTime DEF LastStart, Ends
  <1>2. ASSUME NEW p \in During(f, cut), o <= p.start
        PROVE  FALSE
    <2>1. p.start \in Nat /\ p.end \in Nat /\ p.start < p.end /\ p.end <= o
      BY PointsOfTime DEF LastStart
    <2>. QED
      BY <1>1, <1>2, <2>1
  <1>. QED
    BY <1>1, <1>2, PieceIs

\* A pause that comes later leaves a piece as it is.
LEMMA PieceKept ==
  ASSUME NEW f, IsTimed(f), NEW cut \in SUBSET Span, NEW p \in Span,
         NEW x \in Pieces(f, cut), x[3] <= p.start
  PROVE  x \in Pieces(f, cut \cup {p})
  <1>1. PICK a \in Starts(f, cut), e \in Ends(f, cut) :
          /\ x = <<f.name, a, e>> /\ a <= e
          /\ ~\E q \in During(f, cut) : a <= q.start /\ q.end <= e
    BY PieceIs
  <1>2. a \in Starts(f, cut \cup {p}) /\ e \in Ends(f, cut \cup {p})
    BY DEF Starts, Ends, During
  <1>3. ASSUME NEW q \in During(f, cut \cup {p}), a <= q.start, q.end <= e
        PROVE  FALSE
    <2>1. CASE q = p
      <3>1. p.start \in Nat /\ p.end \in Nat /\ p.start < p.end /\ e \in Nat /\ e <= p.start
        BY <1>1, PointsOfTime DEF Span
      <3>. QED
        BY <1>3, <2>1, <3>1
    <2>2. CASE q # p
      BY <1>1, <1>3, <2>2 DEF During
    <2>. QED
      BY <2>1, <2>2
  <1>. QED
    BY <1>1, <1>2, <1>3, PieceIs

\* A frame that has ended is not cut any more.
LEMMA PiecesPassed ==
  ASSUME NEW f, IsTimed(f), NEW cut, NEW p \in Span, f.end <= p.start
  PROVE  Pieces(f, cut \cup {p}) = Pieces(f, cut)
  <1>1. During(f, cut \cup {p}) = During(f, cut)
    <2>1. ~(p.end <= f.end)
      BY DEF Span, IsTimed
    <2>. QED
      BY <2>1 DEF During
  <1>. QED
    BY <1>1 DEF Pieces

\* A pause cuts the last piece.
LEMMA PieceCut ==
  ASSUME NEW f, IsTimed(f), NEW cut \in SUBSET Span, NEW o, LastStart(f, o, cut),
         NEW p \in Span, f.start <= p.start, p.end <= f.end, \A q \in cut : q.end <= p.start
  PROVE  /\ <<f.name, o, p.start>> \in Pieces(f, cut \cup {p})
         /\ LastStart(f, p.end, cut \cup {p})
         /\ \A x \in Pieces(f, cut \cup {p}) : \/ x \in Pieces(f, cut) /\ x[3] <= p.start
                                              \/ x = <<f.name, o, p.start>>
                                              \/ x = <<f.name, p.end, f.end>>
  <1>1. During(f, cut \cup {p}) = During(f, cut) \cup {p}
    BY DEF During
  <1>2. /\ \A a : a \in Starts(f, cut \cup {p}) <=> a \in Starts(f, cut) \/ a = p.end
        /\ \A e : e \in Ends(f, cut \cup {p}) <=> e \in Ends(f, cut) \/ e = p.start
    BY <1>1 DEF Starts, Ends
  <1>3. /\ p.start \in Nat /\ p.end \in Nat /\ p.start < p.end
        /\ f.start \in Nat /\ f.end \in Nat
    BY DEF Span, IsTimed
  <1>4. /\ \A q \in During(f, cut) : /\ q.start \in Nat /\ q.end \in Nat /\ q.start < q.end
                                      /\ q.end <= p.start
        /\ \A a \in Starts(f, cut) : a \in Nat /\ a <= p.start
        /\ \A e \in Ends(f, cut) : e \in Nat /\ (e = f.end \/ e <= p.start)
    <2>1. \A q \in During(f, cut) : /\ q.start \in Nat /\ q.end \in Nat /\ q.start < q.end
                                    /\ q.end <= p.start
      BY PointsOfTime
    <2>2. /\ \A a \in Starts(f, cut) : a \in Nat
          /\ \A e \in Ends(f, cut) : e \in Nat
      BY PointsOfTime
    <2>3. \A a \in Starts(f, cut) : a = f.start \/ \E q \in During(f, cut) : a = q.end
      BY DEF Starts
    <2>4. \A e \in Ends(f, cut) : e = f.end \/ \E q \in During(f, cut) : e = q.start
      BY DEF Ends
    <2>5. \A q \in During(f, cut) : q.start <= p.start
      BY <1>3, <2>1
    <2>. QED
      BY <1>3, <2>1, <2>2, <2>3, <2>4, <2>5
  <1>5. o \in Starts(f, cut) /\ o \in Nat /\ o <= p.start
    BY <1>4 DEF LastStart
  <1>6. <<f.name, o, p.start>> \in Pieces(f, cut \cup {p})
    <2>1. ASSUME NEW q \in During(f, cut \cup {p}), o <= q.start, q.end <= p.start
          PROVE  FALSE
      <3>1. CASE q = p
        BY <1>3, <2>1, <3>1
      <3>2. CASE q # p
        <4>1. q \in During(f, cut) /\ q.end <= o
          BY <1>1, <3>2 DEF LastStart
        <4>. QED
          BY <1>4, <1>5, <2>1, <4>1
      <3>. QED
        BY <3>1, <3>2
    <2>. QED
      BY <1>2, <1>5, <2>1, PieceIs
  <1>7. LastStart(f, p.end, cut \cup {p})
    <2>1. p.end \in Starts(f, cut \cup {p})
      BY <1>2
    <2>2. ASSUME NEW a \in Starts(f, cut \cup {p})
          PROVE  a = p.end \/ \E q \in During(f, cut \cup {p}) : a <= q.start /\ q.end <= p.end
      <3>1. CASE a \in Starts(f, cut)
        <4>1. p \in During(f, cut \cup {p})
          BY <1>1
        <4>2. a <= p.start /\ p.end <= p.end
          BY <1>3, <1>4, <3>1
        <4>. QED
          BY <4>1, <4>2
      <3>. QED
        BY <1>2, <3>1
    <2>3. ASSUME NEW q \in During(f, cut \cup {p})
          PROVE  q.end <= p.end
      <3>1. CASE q \in During(f, cut)
        <4>1. q.end \in Nat /\ q.end <= p.start
          BY <1>4, <3>1
        <4>. QED
          BY <1>3, <4>1
      <3>. QED
        BY <1>1, <1>3, <3>1
    <2>. QED
      BY <2>1, <2>2, <2>3 DEF LastStart
  <1>8. ASSUME NEW x \in Pieces(f, cut \cup {p})
        PROVE  \/ x \in Pieces(f, cut) /\ x[3] <= p.start
               \/ x = <<f.name, o, p.start>>
               \/ x = <<f.name, p.end, f.end>>
    <2>1. PICK a \in Starts(f, cut \cup {p}), e \in Ends(f, cut \cup {p}) :
            /\ x = <<f.name, a, e>> /\ a <= e
            /\ ~\E q \in During(f, cut \cup {p}) : a <= q.start /\ q.end <= e
      BY PieceIs
    <2>2. x[3] = e
      BY <2>1
    <2>3. ~(a <= p.start /\ p.end <= e) /\ ~\E q \in During(f, cut) : a <= q.start /\ q.end <= e
      BY <1>1, <2>1
    <2>4. CASE a = p.end
      <3>1. CASE e \in Ends(f, cut)
        <4>1. e \in Nat /\ (e = f.end \/ e <= p.start) /\ p.end <= e
          BY <1>4, <2>1, <2>4, <3>1
        <4>2. e = f.end
          BY <1>3, <4>1
        <4>. QED
          BY <2>1, <2>4, <4>2
      <3>2. CASE e = p.start
        BY <1>3, <2>1, <2>4, <3>2
      <3>. QED
        BY <1>2, <3>1, <3>2
    <2>5. CASE a # p.end /\ e = p.start
      <3>1. a \in Starts(f, cut)
        BY <1>2, <2>5
      <3>2. a = o \/ \E q \in During(f, cut) : a <= q.start /\ q.end <= o
        BY <3>1 DEF LastStart
      <3>3. \A q \in During(f, cut) : q.end <= e
        BY <1>4, <2>5
      <3>4. a = o
        BY <2>3, <3>2, <3>3
      <3>. QED
        BY <2>1, <2>5, <3>4
    <2>6. CASE a # p.end /\ e # p.start
      <3>1. a \in Starts(f, cut) /\ e \in Ends(f, cut)
        BY <1>2, <2>6
      <3>2. a \in Nat /\ a <= p.start /\ e \in Nat /\ (e = f.end \/ e <= p.start)
        BY <1>4, <3>1
      <3>3. e <= p.start
        BY <1>3, <2>3, <3>2
      <3>4. x \in Pieces(f, cut)
        BY <2>1, <2>3, <3>1, PieceIs
      <3>. QED
        BY <2>2, <3>3, <3>4
    <2>. QED
      BY <2>4, <2>5, <2>6
  <1>. QED
    BY <1>6, <1>7, <1>8

-----------------------------------------------------------------------------
(***************************************************************************)
(* What can be read back after each piece.  fs has the frames of the open  *)
(* slices, cut the pauses they have been cut at, and X the pieces of all   *)
(* frames that have been begun.                                            *)
(***************************************************************************)
OpenPiece(s, f, i) == <<f.name, s[i].ts, f.end>>

\* the open slices are those of the frames
NamedSlices(s, n, fs, b, cut) ==
  \A d \in 1 .. n : NameOf(s[b[d]]) = fs[d].name /\ LastStart(fs[d], s[b[d]].ts, cut)

\* every slice is one of the pieces
NoneInvented(s, n, b, X) ==
  \A i \in 1 .. Len(s) : IsBegin(s, i) =>
    \/ \E d \in 1 .. n : b[d] = i
    \/ \E j \in 1 .. Len(s) : Closes(s, i, j) /\ SliceOf(s, i, j) \in X

\* every piece is a slice or will be
NoneLost(s, n, fs, b, X) ==
  \A x \in X : IsRead(s, x) \/ \E d \in 1 .. n : x = OpenPiece(s, fs[d], b[d])

ReadBack(s, n, fs, b, cut, X) ==
  /\ OpenSlices(s, n, b)
  /\ NamedSlices(s, n, fs, b, cut)
  /\ NoneInvented(s, n, b, X)
  /\ NoneLost(s, n, fs, b, X)

\* Slices stay open as long as no more than the others are closed.
LEMMA StillOpen ==
  ASSUME NEW s, NEW t, IsSeq(s), IsSeq(t), NEW n, NEW b, OpenSlices(s, n, b), NEW k \in 0 .. n,
         \A m \in 0 .. Len(t) : Level(t, m) >= k - n
  PROVE  \A d \in 1 .. k : /\ b[d] \in 1 .. Len(s) /\ (s \o t)[b[d]] = s[b[d]]
                           /\ IsBegin(s \o t, b[d]) /\ Level(s \o t, b[d]) = d
                           /\ \A i \in b[d] .. Len(s \o t) : Level(s \o t, i) >= d
  <1>1. PICK r, l : r = s \o t /\ l = Len(s)
    OBVIOUS
  <1>2. /\ Len(r) = l + Len(t) /\ l \in Nat /\ Len(t) \in Nat
        /\ \A i \in 1 .. l : r[i] = s[i]
        /\ \A i \in 0 .. l : Level(r, i) = Level(s, i)
        /\ \A m \in 0 .. Len(t) : Level(r, l + m) = Level(s, l) + Level(t, m)
        /\ \A i \in 1 .. l : IsBegin(s, i) <=> IsBegin(r, i)
    BY <1>1, StillRead
  <1>3. n \in Nat /\ Level(s, l) = n
    BY <1>1 DEF OpenSlices
  <1>4. \A m \in 0 .. Len(t) : Level(t, m) \in Int
    BY OpenNext DEF Level
  <1>. SUFFICES ASSUME NEW d \in 1 .. k
                PROVE  /\ b[d] \in 1 .. l /\ r[b[d]] = s[b[d]]
                       /\ IsBegin(r, b[d]) /\ Level(r, b[d]) = d
                       /\ \A i \in b[d] .. Len(r) : Level(r, i) >= d
    BY <1>1
  <1>5. /\ d \in 1 .. n /\ b[d] \in 1 .. l /\ IsBegin(s, b[d]) /\ Level(s, b[d]) = d
        /\ \A i \in b[d] .. l : Level(s, i) >= d
    BY <1>1, <1>3 DEF OpenSlices, IsBegin
  <1>6. ASSUME NEW i \in b[d] .. Len(r)
        PROVE  Level(r, i) >= d
    <2>1. CASE i <= l
      <3>1. i \in b[d] .. l /\ i \in 0 .. l
        BY <1>2, <1>5, <2>1
      <3>. QED
        BY <1>2, <1>5, <3>1
    <2>2. CASE i > l
      <3>1. PICK m \in 0 .. Len(t) : i = l + m
        <4>1. i - l \in 0 .. Len(t) /\ i = l + (i - l)
          BY <1>2, <1>5, <2>2
        <4>. QED
          BY <4>1
      <3>2. Level(t, m) \in Int /\ Level(t, m) >= k - n
        BY <1>4
      <3>3. Level(r, i) = n + Level(t, m)
        BY <1>2, <1>3, <3>1
      <3>. QED
        BY <1>3, <3>2, <3>3
    <2>. QED
      BY <1>2, <1>5, <2>1, <2>2
  <1>7. b[d] \in 0 .. l
    BY <1>2, <1>5
  <1>. QED
    BY <1>2, <1>5, <1>6, <1>7

\* A frame or a pause begins.
LEMMA ReadBegin ==
  ASSUME NEW s, IsSeq(s), NEW n, NEW fs, NEW b, NEW cut, NEW X, ReadBack(s, n, fs, b, cut, X),
         NEW p, p.kind = "Begin", p.seq = TraceSequence,
         NEW gs, NEW f, \A d \in 1 .. n : gs[d] = fs[d], gs[n + 1] = f,
         NameOf(p) = f.name, LastStart(f, p.ts, cut)
  PROVE  \E c : ReadBack(s \o <<p>>, n + 1, gs, c, cut, X \cup {<<f.name, p.ts, f.end>>})
  <1>0. PICK t : t = <<p>>
    OBVIOUS
  <1>1. PICK r, l : r = s \o t /\ l = Len(s)
    OBVIOUS
  <1>2. IsSeq(t) /\ Len(t) = 1 /\ t[1] = p /\ Level(t, 0) = 0 /\ Level(t, 1) = 1
    BY <1>0, SinglePiece DEF Level
  <1>20. IsSeq(t)
    BY <1>2
  <1>3. /\ IsSeq(r) /\ Len(r) = l + Len(t) /\ l \in Nat
        /\ \A i \in 1 .. l : r[i] = s[i] /\ i \in 1 .. Len(r)
        /\ \A i \in 1 .. Len(t) : r[l + i] = t[i]
        /\ \A m \in 0 .. Len(t) : Level(r, l + m) = Level(s, l) + Level(t, m)
        /\ \A i \in 1 .. l : IsBegin(s, i) <=> IsBegin(r, i)
        /\ \A i, j \in 1 .. l : Closes(s, i, j) =>
             Closes(r, i, j) /\ SliceOf(r, i, j) = SliceOf(s, i, j)
        /\ \A x : IsRead(s, x) => IsRead(r, x)
    BY <1>1, <1>20, StillRead
  <1>4. /\ OpenSlices(s, n, b) /\ NamedSlices(s, n, fs, b, cut) /\ NoneInvented(s, n, b, X)
        /\ NoneLost(s, n, fs, b, X)
    BY DEF ReadBack
  <1>5. n \in Nat /\ Level(s, l) = n
    BY <1>1, <1>4 DEF OpenSlices
  <1>6. PICK c : c = [d \in 1 .. n + 1 |-> IF d <= n THEN b[d] ELSE l + 1]
    OBVIOUS
  <1>7. /\ \A d \in 1 .. n : c[d] = b[d] /\ d \in 1 .. n + 1
        /\ c[n + 1] = l + 1 /\ n + 1 \in 1 .. n + 1
        /\ \A d \in 1 .. n + 1 : d \in 1 .. n \/ d = n + 1
    BY <1>5, <1>6
  <1>8. /\ l + 1 \in 1 .. Len(r) /\ Len(r) = l + 1 /\ r[l + 1] = p /\ Level(r, l + 1) = n + 1
        /\ IsBegin(r, l + 1)
    <2>1. Len(t) = 1 /\ 1 \in 1 .. Len(t) /\ 1 \in 0 .. Len(t)
      BY <1>2
    <2>2. Len(r) = l + 1 /\ r[l + 1] = p /\ Level(r, l + 1) = n + 1 /\ l + 1 \in 1 .. Len(r)
      BY <1>2, <1>3, <1>5, <2>1
    <2>. QED
      BY <2>2 DEF IsBegin
  <1>9. \A d \in 1 .. n : /\ b[d] \in 1 .. l /\ r[b[d]] = s[b[d]]
                          /\ IsBegin(r, b[d]) /\ Level(r, b[d]) = d
                          /\ \A i \in b[d] .. Len(r) : Level(r, i) >= d
    <2>1. \A m \in 0 .. Len(t) : m = 0 \/ m = 1
      BY <1>2
    <2>2. PICK k : k = n
      OBVIOUS
    <2>3. \A m \in 0 .. Len(t) : Level(t, m) >= k - n
      BY <1>2, <1>5, <2>1, <2>2
    <2>4. k \in 0 .. n /\ OpenSlices(s, n, b)
      BY <1>4, <1>5, <2>2
    <2>5. \A d \in 1 .. k : /\ b[d] \in 1 .. Len(s) /\ (s \o t)[b[d]] = s[b[d]]
                            /\ IsBegin(s \o t, b[d]) /\ Level(s \o t, b[d]) = d
                            /\ \A i \in b[d] .. Len(s \o t) : Level(s \o t, i) >= d
      BY <1>20, <2>3, <2>4, StillOpen
    <2>. QED
      BY <1>1, <2>2, <2>5
  <1>10. OpenSlices(r, n + 1, c)
    <2>1. \A i \in l + 1 .. Len(r) : i = l + 1
      BY <1>3, <1>8
    <2>2. ASSUME NEW d \in 1 .. n + 1
          PROVE  /\ IsBegin(r, c[d]) /\ Level(r, c[d]) = d
                 /\ \A k \in c[d] .. Len(r) : Level(r, k) >= d
      <3>1. CASE d \in 1 .. n
        BY <1>7, <1>9, <3>1
      <3>2. CASE d = n + 1
        <4>1. \A k \in l + 1 .. Len(r) : Level(r, k) >= n + 1
          BY <1>5, <1>8, <2>1
        <4>. QED
          BY <1>7, <1>8, <3>2, <4>1
      <3>. QED
        BY <1>7, <3>1, <3>2
    <2>3. n + 1 \in Nat /\ Level(r, Len(r)) = n + 1
      BY <1>5, <1>8
    <2>. QED
      BY <2>2, <2>3 DEF OpenSlices
  <1>11. NamedSlices(r, n + 1, gs, c, cut)
    <2>1. ASSUME NEW d \in 1 .. n + 1
          PROVE  NameOf(r[c[d]]) = gs[d].name /\ LastStart(gs[d], r[c[d]].ts, cut)
      <3>1. CASE d \in 1 .. n
        BY <1>4, <1>7, <1>9, <3>1 DEF NamedSlices
      <3>2. CASE d = n + 1
        BY <1>7, <1>8, <3>2
      <3>. QED
        BY <1>7, <3>1, <3>2
    <2>. QED
      BY <2>1 DEF NamedSlices
  <1>12. PICK Z : Z = X \cup {<<f.name, p.ts, f.end>>}
    OBVIOUS
  <1>13. NoneInvented(r, n + 1, c, Z)
    <2>1. ASSUME NEW i \in 1 .. Len(r), IsBegin(r, i)
          PROVE  \/ \E d \in 1 .. n + 1 : c[d] = i
                 \/ \E j \in 1 .. Len(r) : Closes(r, i, j) /\ SliceOf(r, i, j) \in Z
      <3>1. CASE i = l + 1
        BY <1>7, <3>1
      <3>2. CASE i # l + 1
        <4>1. i \in 1 .. l /\ IsBegin(s, i)
          BY <1>3, <1>8, <2>1, <3>2
        <4>2. \/ \E d \in 1 .. n : b[d] = i
              \/ \E j \in 1 .. l : Closes(s, i, j) /\ SliceOf(s, i, j) \in X
          BY <1>1, <1>4, <4>1 DEF NoneInvented
        <4>3. CASE \E d \in 1 .. n : b[d] = i
          BY <1>7, <4>3
        <4>4. CASE \E j \in 1 .. l : Closes(s, i, j) /\ SliceOf(s, i, j) \in X
          <5>1. PICK j \in 1 .. l : Closes(s, i, j) /\ SliceOf(s, i, j) \in X
            BY <4>4
          <5>2. j \in 1 .. Len(r) /\ Closes(r, i, j) /\ SliceOf(r, i, j) \in X
            BY <1>3, <4>1, <5>1
          <5>. QED
            BY <1>12, <5>2
        <4>. QED
          BY <4>2, <4>3, <4>4
      <3>. QED
        BY <3>1, <3>2
    <2>. QED
      BY <2>1 DEF NoneInvented
  <1>14. NoneLost(r, n + 1, gs, c, Z)
    <2>1. ASSUME NEW x \in Z
          PROVE  IsRead(r, x) \/ \E d \in 1 .. n + 1 : x = OpenPiece(r, gs[d], c[d])
      <3>1. CASE x \in X
        <4>1. IsRead(s, x) \/ \E d \in 1 .. n : x = OpenPiece(s, fs[d], b[d])
          BY <1>4, <3>1 DEF NoneLost
        <4>2. CASE \E d \in 1 .. n : x = OpenPiece(s, fs[d], b[d])
          <5>1. PICK d \in 1 .. n : x = OpenPiece(s, fs[d], b[d])
            BY <4>2
          <5>2. OpenPiece(r, gs[d], c[d]) = OpenPiece(s, fs[d], b[d])
            BY <1>7, <1>9 DEF OpenPiece
          <5>. QED
            BY <1>7, <5>1, <5>2
        <4>. QED
          BY <1>3, <4>1, <4>2
      <3>2. CASE x = <<f.name, p.ts, f.end>>
        <4>1. OpenPiece(r, gs[n + 1], c[n + 1]) = <<f.name, p.ts, f.end>>
          BY <1>7, <1>8 DEF OpenPiece
        <4>. QED
          BY <1>7, <3>2, <4>1
      <3>. QED
        BY <1>12, <3>1, <3>2
    <2>. QED
      BY <2>1 DEF NoneLost
  <1>15. ReadBack(r, n + 1, gs, c, cut, Z)
    BY <1>10, <1>11, <1>13, <1>14 DEF ReadBack
  <1>. QED
    BY <1>0, <1>1, <1>12, <1>15

\* The frame or the pause that was begun last ends.
LEMMA ReadEnd ==
  ASSUME NEW s, IsSeq(s), NEW n, NEW fs, NEW b, NEW cut, NEW X, ReadBack(s, n, fs, b, cut, X),
         n >= 1, NEW q, q.kind = "End", q.seq = TraceSequence, q.ts = fs[n].end,
         NEW gs, \A d \in 1 .. n - 1 : gs[d] = fs[d],
         OpenPiece(s, fs[n], b[n]) \in X
  PROVE  ReadBack(s \o <<q>>, n - 1, gs, b, cut, X)
  <1>0. PICK t : t = <<q>>
    OBVIOUS
  <1>1. PICK r, l : r = s \o t /\ l = Len(s)
    OBVIOUS
  <1>2. IsSeq(t) /\ Len(t) = 1 /\ t[1] = q /\ Level(t, 0) = 0 /\ Level(t, 1) = -1
    BY <1>0, SinglePiece DEF Level
  <1>20. IsSeq(t)
    BY <1>2
  <1>3. /\ IsSeq(r) /\ Len(r) = l + Len(t) /\ l \in Nat
        /\ \A i \in 1 .. l : r[i] = s[i] /\ i \in 1 .. Len(r)
        /\ \A i \in 1 .. Len(t) : r[l + i] = t[i]
        /\ \A m \in 0 .. Len(t) : Level(r, l + m) = Level(s, l) + Level(t, m)
        /\ \A i \in 1 .. l : IsBegin(s, i) <=> IsBegin(r, i)
        /\ \A i, j \in 1 .. l : Closes(s, i, j) =>
             Closes(r, i, j) /\ SliceOf(r, i, j) = SliceOf(s, i, j)
        /\ \A x : IsRead(s, x) => IsRead(r, x)
    BY <1>1, <1>20, StillRead
  <1>4. /\ OpenSlices(s, n, b) /\ NamedSlices(s, n, fs, b, cut) /\ NoneInvented(s, n, b, X)
        /\ NoneLost(s, n, fs, b, X)
    BY DEF ReadBack
  <1>5. n \in Nat /\ Level(s, l) = n /\ n - 1 \in Nat /\ n \in 1 .. n
    BY <1>1, <1>4 DEF OpenSlices
  <1>6. Len(r) = l + 1 /\ r[l + 1] = q /\ Level(r, l + 1) = n - 1 /\ l + 1 \in 1 .. Len(r)
    <2>1. 1 \in 1 .. Len(t) /\ 1 \in 0 .. Len(t)
      BY <1>2
    <2>. QED
      BY <1>2, <1>3, <1>5, <2>1
  <1>7. \A d \in 1 .. n - 1 : /\ b[d] \in 1 .. l /\ r[b[d]] = s[b[d]]
                              /\ IsBegin(r, b[d]) /\ Level(r, b[d]) = d
                              /\ \A i \in b[d] .. Len(r) : Level(r, i) >= d
    <2>1. \A m \in 0 .. Len(t) : m = 0 \/ m = 1
      BY <1>2
    <2>2. PICK k : k = n - 1
      OBVIOUS
    <2>3. \A m \in 0 .. Len(t) : Level(t, m) >= k - n
      BY <1>2, <1>5, <2>1, <2>2
    <2>4. k \in 0 .. n /\ OpenSlices(s, n, b)
      BY <1>4, <1>5, <2>2
    <2>5. \A d \in 1 .. k : /\ b[d] \in 1 .. Len(s) /\ (s \o t)[b[d]] = s[b[d]]
                            /\ IsBegin(s \o t, b[d]) /\ Level(s \o t, b[d]) = d
                            /\ \A i \in b[d] .. Len(s \o t) : Level(s \o t, i) >= d
      BY <1>20, <2>3, <2>4, StillOpen
    <2>. QED
      BY <1>1, <2>2, <2>5
  <1>8. OpenSlices(r, n - 1, b)
    BY <1>5, <1>6, <1>7 DEF OpenSlices
  <1>9. \A d \in 1 .. n - 1 : d \in 1 .. n
    BY <1>5
  <1>10. NamedSlices(r, n - 1, gs, b, cut)
    BY <1>4, <1>7, <1>9 DEF NamedSlices
  <1>11. b[n] \in 1 .. l /\ Closes(r, b[n], l + 1) /\ SliceOf(r, b[n], l + 1) = OpenPiece(s, fs[n], b[n])
    <2>1. b[n] \in 1 .. l
      BY <1>1, <1>4, <1>5 DEF OpenSlices, IsBegin
    <2>2. Closes(r, b[n], l + 1)
      <3>1. 1 \in 1 .. Len(t) /\ t[1].kind = "End" /\ t[1].seq = TraceSequence
        BY <1>2
      <3>2. Level(t, 1) = n - n - 1 /\ \A m \in 0 .. 1 - 1 : Level(t, m) >= n - n
        BY <1>2, <1>5
      <3>. QED
        BY <1>1, <1>2, <1>4, <1>5, <3>1, <3>2, LastCloses
    <2>3. SliceOf(r, b[n], l + 1) = <<NameOf(s[b[n]]), s[b[n]].ts, q.ts>>
      BY <1>3, <1>6, <2>1 DEF SliceOf
    <2>. QED
      BY <1>4, <1>5, <2>1, <2>2, <2>3 DEF NamedSlices, OpenPiece
  <1>12. NoneInvented(r, n - 1, b, X)
    <2>1. ASSUME NEW i \in 1 .. Len(r), IsBegin(r, i)
          PROVE  \/ \E d \in 1 .. n - 1 : b[d] = i
                 \/ \E j \in 1 .. Len(r) : Closes(r, i, j) /\ SliceOf(r, i, j) \in X
      <3>1. i # l + 1
        BY <1>6, <2>1 DEF IsBegin
      <3>2. i \in 1 .. l /\ IsBegin(s, i)
        BY <1>3, <1>6, <2>1, <3>1
      <3>3. \/ \E d \in 1 .. n : b[d] = i
            \/ \E j \in 1 .. l : Closes(s, i, j) /\ SliceOf(s, i, j) \in X
        BY <1>1, <1>4, <3>2 DEF NoneInvented
      <3>4. CASE \E d \in 1 .. n : b[d] = i
        <4>1. PICK d \in 1 .. n : b[d] = i
          BY <3>4
        <4>2. d \in 1 .. n - 1 \/ d = n
          BY <1>5
        <4>. QED
          BY <1>6, <1>11, <4>1, <4>2
      <3>5. CASE \E j \in 1 .. l : Closes(s, i, j) /\ SliceOf(s, i, j) \in X
        <4>1. PICK j \in 1 .. l : Closes(s, i, j) /\ SliceOf(s, i, j) \in X
          BY <3>5
        <4>2. j \in 1 .. Len(r) /\ Closes(r, i, j) /\ SliceOf(r, i, j) \in X
          BY <1>3, <3>2, <4>1
        <4>. QED
          BY <4>2
      <3>. QED
        BY <3>3, <3>4, <3>5
    <2>. QED
      BY <2>1 DEF NoneInvented
  <1>13. NoneLost(r, n - 1, gs, b, X)
    <2>1. ASSUME NEW x \in X
          PROVE  IsRead(r, x) \/ \E d \in 1 .. n - 1 : x = OpenPiece(r, gs[d], b[d])
      <3>1. IsRead(s, x) \/ \E d \in 1 .. n : x = OpenPiece(s, fs[d], b[d])
        BY <1>4 DEF NoneLost
      <3>2. CASE \E d \in 1 .. n : x = OpenPiece(s, fs[d], b[d])
        <4>1. PICK d \in 1 .. n : x = OpenPiece(s, fs[d], b[d])
          BY <3>2
        <4>2. CASE d \in 1 .. n - 1
          BY <1>7, <4>1, <4>2 DEF OpenPiece
        <4>3. CASE d = n
          <5>1. b[n] \in 1 .. Len(r) /\ IsBegin(r, b[n])
            BY <1>1, <1>3, <1>4, <1>5, <1>11 DEF OpenSlices
          <5>. QED
            BY <1>6, <1>11, <4>1, <4>3, <5>1 DEF IsRead
        <4>4. d \in 1 .. n - 1 \/ d = n
          BY <1>5
        <4>. QED
          BY <4>2, <4>3, <4>4
      <3>. QED
        BY <1>3, <3>1, <3>2
    <2>. QED
      BY <2>1 DEF NoneLost
  <1>14. ReadBack(r, n - 1, gs, b, cut, X)
    BY <1>8, <1>10, <1>12, <1>13 DEF ReadBack
  <1>. QED
    BY <1>0, <1>1, <1>14

\* Packets of other sequences, tracks and instants change nothing.
LEMMA ReadNeutral ==
  ASSUME NEW s, IsSeq(s), NEW n, NEW fs, NEW b, NEW cut, NEW X, ReadBack(s, n, fs, b, cut, X),
         NEW t, IsSeq(t),
         \A i \in 1 .. Len(t) : t[i].seq # TraceSequence \/ t[i].kind \notin {"Begin", "End"}
  PROVE  ReadBack(s \o t, n, fs, b, cut, X)
  <1>1. PICK r, l : r = s \o t /\ l = Len(s)
    OBVIOUS
  <1>2. /\ IsSeq(r) /\ Len(r) = l + Len(t) /\ l \in Nat /\ Len(t) \in Nat
        /\ \A i \in 1 .. l : r[i] = s[i] /\ i \in 1 .. Len(r)
        /\ \A i \in 1 .. Len(t) : r[l + i] = t[i]
        /\ \A m \in 0 .. Len(t) : Level(r, l + m) = Level(s, l) + Level(t, m)
        /\ \A i \in 1 .. l : IsBegin(s, i) <=> IsBegin(r, i)
        /\ \A i, j \in 1 .. l : Closes(s, i, j) =>
             Closes(r, i, j) /\ SliceOf(r, i, j) = SliceOf(s, i, j)
        /\ \A x : IsRead(s, x) => IsRead(r, x)
    BY <1>1, StillRead
  <1>3. /\ OpenSlices(s, n, b) /\ NamedSlices(s, n, fs, b, cut) /\ NoneInvented(s, n, b, X)
        /\ NoneLost(s, n, fs, b, X)
    BY DEF ReadBack
  <1>4. n \in Nat /\ Level(s, l) = n
    BY <1>1, <1>3 DEF OpenSlices
  <1>5. \A m \in 0 .. Len(t) : Level(t, m) = 0
    BY <1>2, NeutralPiece DEF Level
  <1>6. \A d \in 1 .. n : /\ b[d] \in 1 .. l /\ r[b[d]] = s[b[d]]
                          /\ IsBegin(r, b[d]) /\ Level(r, b[d]) = d
                          /\ \A i \in b[d] .. Len(r) : Level(r, i) >= d
    <2>1. PICK k : k = n
      OBVIOUS
    <2>2. \A m \in 0 .. Len(t) : Level(t, m) >= k - n
      BY <1>4, <1>5, <2>1
    <2>3. k \in 0 .. n
      BY <1>4, <2>1
    <2>4. \A d \in 1 .. k : /\ b[d] \in 1 .. Len(s) /\ (s \o t)[b[d]] = s[b[d]]
                            /\ IsBegin(s \o t, b[d]) /\ Level(s \o t, b[d]) = d
                            /\ \A i \in b[d] .. Len(s \o t) : Level(s \o t, i) >= d
      BY <1>3, <2>2, <2>3, StillOpen
    <2>. QED
      BY <1>1, <2>1, <2>4
  <1>7. Level(r, Len(r)) = n
    <2>1. Len(t) \in 0 .. Len(t)
      BY <1>2
    <2>. QED
      BY <1>2, <1>4, <1>5, <2>1
  <1>8. OpenSlices(r, n, b)
    BY <1>4, <1>6, <1>7 DEF OpenSlices
  <1>9. NamedSlices(r, n, fs, b, cut)
    BY <1>3, <1>6 DEF NamedSlices
  <1>10. NoneInvented(r, n, b, X)
    <2>1. ASSUME NEW i \in 1 .. Len(r), IsBegin(r, i)
          PROVE  \/ \E d \in 1 .. n : b[d] = i
                 \/ \E j \in 1 .. Len(r) : Closes(r, i, j) /\ SliceOf(r, i, j) \in X
      <3>1. i \in 1 .. l
        <4>1. CASE i > l
          <5>1. PICK k \in 1 .. Len(t) : i = l + k
            <6>1. i - l \in 1 .. Len(t) /\ i = l + (i - l)
              BY <1>2, <4>1
            <6>. QED
              BY <6>1
          <5>2. r[i] = t[k]
            BY <1>2, <5>1
          <5>. QED
            BY <2>1, <5>2 DEF IsBegin
        <4>. QED
          BY <1>2, <4>1
      <3>2. \/ \E d \in 1 .. n : b[d] = i
            \/ \E j \in 1 .. l : Closes(s, i, j) /\ SliceOf(s, i, j) \in X
        BY <1>1, <1>2, <1>3, <2>1, <3>1 DEF NoneInvented
      <3>3. CASE \E j \in 1 .. l : Closes(s, i, j) /\ SliceOf(s, i, j) \in X
        <4>1. PICK j \in 1 .. l : Closes(s, i, j) /\ SliceOf(s, i, j) \in X
          BY <3>3
        <4>2. j \in 1 .. Len(r) /\ Closes(r, i, j) /\ SliceOf(r, i, j) \in X
          BY <1>2, <3>1, <4>1
        <4>. QED
          BY <4>2
      <3>. QED
        BY <3>2, <3>3
    <2>. QED
      BY <2>1 DEF NoneInvented
  <1>11. NoneLost(r, n, fs, b, X)
    <2>1. ASSUME NEW x \in X
          PROVE  IsRead(r, x) \/ \E d \in 1 .. n : x = OpenPiece(r, fs[d], b[d])
      <3>1. IsRead(s, x) \/ \E d \in 1 .. n : x = OpenPiece(s, fs[d], b[d])
        BY <1>3 DEF NoneLost
      <3>2. \A d \in 1 .. n : OpenPiece(r, fs[d], b[d]) = OpenPiece(s, fs[d], b[d])
        BY <1>6 DEF OpenPiece
      <3>. QED
        BY <1>2, <3>1, <3>2
    <2>. QED
      BY <2>1 DEF NoneLost
  <1>12. ReadBack(r, n, fs, b, cut, X)
    BY <1>8, <1>9, <1>10, <1>11 DEF ReadBack
  <1>. QED
    BY <1>1, <1>12

\* What matters of the frames.
LEMMA ReadSame ==
  ASSUME NEW s, NEW n, NEW fs, NEW gs, NEW b, NEW cut, NEW X, ReadBack(s, n, fs, b, cut, X),
         \A d \in 1 .. n : gs[d] = fs[d]
  PROVE  ReadBack(s, n, gs, b, cut, X)
  BY DEF ReadBack, NamedSlices, NoneLost

\* A pause is shown as a slice of its own: it begins and ends like a frame.
LEMMA ReadBlock ==
  ASSUME NEW s, IsSeq(s), NEW n, NEW fs, NEW b, NEW X, ReadBack(s, n, fs, b, {}, X),
         NEW p, p.kind = "Begin", p.seq = TraceSequence,
         NEW q, q.kind = "End", q.seq = TraceSequence
  PROVE  \E c : ReadBack(s \o <<p, q>>, n, fs, c, {}, X \cup {<<NameOf(p), p.ts, q.ts>>})
  <1>1. PICK f : f = [name |-> NameOf(p), start |-> p.ts, end |-> q.ts]
    OBVIOUS
  <1>2. f.name = NameOf(p) /\ f.start = p.ts /\ f.end = q.ts
    BY <1>1
  <1>3. n \in Nat /\ n + 1 >= 1 /\ (n + 1) - 1 = n
    BY DEF ReadBack, OpenSlices
  <1>4. PICK gs : gs = [d \in 1 .. n + 1 |-> IF d <= n THEN fs[d] ELSE f]
    OBVIOUS
  <1>5. (\A d \in 1 .. n : gs[d] = fs[d]) /\ gs[n + 1] = f
    BY <1>3, <1>4
  <1>6. LastStart(f, p.ts, {})
    <2>1. During(f, {}) = {}
      BY DEF During
    <2>. QED
      BY <1>2, <2>1 DEF LastStart, Starts
  <1>7. PICK t, Z : t = s \o <<p>> /\ Z = X \cup {<<f.name, p.ts, f.end>>}
    OBVIOUS
  <1>8. PICK c : ReadBack(t, n + 1, gs, c, {}, Z)
    <2>1. PICK cut : cut = {}
      OBVIOUS
    <2>2. ReadBack(s, n, fs, b, cut, X) /\ LastStart(f, p.ts, cut)
      BY <1>6, <2>1
    <2>3. \A d \in 1 .. n : gs[d] = fs[d]
      BY <1>5
    <2>4. gs[n + 1] = f /\ NameOf(p) = f.name
      BY <1>2, <1>5
    <2>5. \E c : ReadBack(s \o <<p>>, n + 1, gs, c, cut, X \cup {<<f.name, p.ts, f.end>>})
      BY <2>2, <2>3, <2>4, ReadBegin
    <2>. QED
      BY <1>7, <2>1, <2>5
  <1>9. IsSeq(t) /\ Len(t) = Len(s) + 1 /\ Len(s) \in Nat /\ t[Len(s) + 1] = p
    <2>1. IsSeq(<<p>>) /\ Len(<<p>>) = 1 /\ <<p>>[1] = p
      BY SinglePiece
    <2>2. PICK u : u = <<p>>
      OBVIOUS
    <2>3. IsSeq(u) /\ Len(u) = 1 /\ u[1] = p
      BY <2>1, <2>2
    <2>31. IsSeq(u)
      BY <2>3
    <2>4. /\ IsSeq(s \o u) /\ Len(s \o u) = Len(s) + Len(u) /\ Len(s) \in Nat
          /\ \A i \in 1 .. Len(u) : (s \o u)[Len(s) + i] = u[i]
      BY <2>31, Joined
    <2>5. t = s \o u
      BY <1>7, <2>2
    <2>6. 1 \in 1 .. Len(u)
      BY <2>3
    <2>. QED
      BY <2>3, <2>4, <2>5, <2>6
  <1>10. OpenPiece(t, gs[n + 1], c[n + 1]) \in Z
    <2>1. LastStart(gs[n + 1], t[c[n + 1]].ts, {}) /\ n + 1 \in 1 .. n + 1
      BY <1>3, <1>8 DEF ReadBack, NamedSlices
    <2>2. t[c[n + 1]].ts = f.start
      BY <1>5, <2>1 DEF LastStart, Starts, During
    <2>. QED
      BY <1>2, <1>5, <1>7, <2>2 DEF OpenPiece
  <1>11. ReadBack(t \o <<q>>, n, fs, c, {}, Z)
    <2>1. PICK m : m = n + 1
      OBVIOUS
    <2>2. /\ ReadBack(t, m, gs, c, {}, Z) /\ m >= 1 /\ q.ts = gs[m].end /\ m - 1 = n
          /\ OpenPiece(t, gs[m], c[m]) \in Z
      BY <1>2, <1>3, <1>5, <1>8, <1>10, <2>1
    <2>3. \A d \in 1 .. m - 1 : fs[d] = gs[d]
      BY <1>5, <2>2
    <2>4. ReadBack(t \o <<q>>, m - 1, fs, c, {}, Z)
      BY <1>9, <2>2, <2>3, ReadEnd
    <2>. QED
      BY <2>2, <2>4
  <1>12. t \o <<q>> = s \o <<p, q>>
    <2>1. PICK S : s \in Seq(S)
      BY DEF IsSeq
    <2>2. s \in Seq(S \cup {p, q}) /\ <<p>> \in Seq(S \cup {p, q}) /\ <<q>> \in Seq(S \cup {p, q})
      BY <2>1
    <2>. QED
      BY <1>7, <2>2
  <1>. QED
    BY <1>2, <1>7, <1>11, <1>12

\* the packets of a gap
EndsAndResumes(t, n, start, end, fs) ==
  /\ IsSeq(t) /\ Len(t) = n + n
  /\ \A i \in 1 .. n : t[i].kind = "End" /\ t[i].seq = TraceSequence /\ t[i].ts = start
  /\ \A i \in n + 1 .. n + n : t[i].kind = "Begin" /\ t[i].seq = TraceSequence /\ t[i].ts = end
  /\ \A d \in 1 .. n : NameOf(t[n + d]) = fs[d].name

\* what becomes of the pieces X
CutAt(s, n, fs, b, X, start, end, also, Z) ==
  /\ \A x \in X : x[3] <= start => x \in Z
  /\ \A d \in 1 .. n : /\ <<fs[d].name, s[b[d]].ts, start>> \in Z /\ LastStart(fs[d], end, also)
                       /\ ~(fs[d].end <= start)
  /\ \A x \in Z : \/ x \in X /\ x[3] <= start
                  \/ \E d \in 1 .. n : \/ x = <<fs[d].name, s[b[d]].ts, start>>
                                       \/ x = <<fs[d].name, end, fs[d].end>>

\* At a gap the slices of all frames end, the ones opened last first, and new ones
\* are opened: the pieces are now cut at the pause.
LEMMA ReadGap ==
  ASSUME NEW s, IsSeq(s), NEW n, NEW fs, NEW b, NEW cut, NEW X, ReadBack(s, n, fs, b, cut, X),
         NEW start, NEW end, NotAfter(s, start),
         NEW t, EndsAndResumes(t, n, start, end, fs),
         NEW also, NEW Z, CutAt(s, n, fs, b, X, start, end, also, Z)
  PROVE  \E c : ReadBack(s \o t, n, fs, c, also, Z)
  <1>0. IsSeq(t) /\ Len(t) = n + n
    BY DEF EndsAndResumes
  <1>01. IsSeq(t)
    BY <1>0
  <1>1. PICK r, l : r = s \o t /\ l = Len(s)
    OBVIOUS
  <1>2. /\ IsSeq(r) /\ Len(r) = l + Len(t) /\ l \in Nat
        /\ \A i \in 1 .. l : r[i] = s[i] /\ i \in 1 .. Len(r)
        /\ \A i \in 1 .. Len(t) : r[l + i] = t[i]
        /\ \A m \in 0 .. Len(t) : Level(r, l + m) = Level(s, l) + Level(t, m)
        /\ \A i \in 1 .. l : IsBegin(s, i) <=> IsBegin(r, i)
        /\ \A i, j \in 1 .. l : Closes(s, i, j) =>
             Closes(r, i, j) /\ SliceOf(r, i, j) = SliceOf(s, i, j)
        /\ \A x : IsRead(s, x) => IsRead(r, x)
    BY <1>01, <1>1, StillRead
  <1>3. /\ OpenSlices(s, n, b) /\ NamedSlices(s, n, fs, b, cut) /\ NoneInvented(s, n, b, X)
        /\ NoneLost(s, n, fs, b, X)
    BY DEF ReadBack
  <1>4. n \in Nat /\ Level(s, l) = n
    BY <1>1, <1>3 DEF OpenSlices
  <1>5. \A m \in 0 .. n + n : Level(t, m) = IF m <= n THEN -m ELSE m - n - n
    <2>1. \A i \in 1 .. n : t[i].kind = "End" /\ t[i].seq = TraceSequence
      BY DEF EndsAndResumes
    <2>2. \A i \in n + 1 .. n + n : t[i].kind = "Begin" /\ t[i].seq = TraceSequence
      BY DEF EndsAndResumes
    <2>3. \A m \in 0 .. n + n : OpenIn(t, TraceSequence, m) = IF m <= n THEN -m ELSE m - n - n
      <3>1. PICK seq : seq = TraceSequence
        OBVIOUS
      <3>2. n \in Nat
        BY <1>4
      <3>3. \A i \in 1 .. n : t[i].kind = "End" /\ t[i].seq = seq
        BY <2>1, <3>1
      <3>4. \A i \in n + 1 .. n + n : t[i].kind = "Begin" /\ t[i].seq = seq
        BY <2>2, <3>1
      <3>5. \A m \in 0 .. n + n : OpenIn(t, seq, m) = IF m <= n THEN -m ELSE m - n - n
        BY <3>2, <3>3, <3>4, GapPiece
      <3>. QED
        BY <3>1, <3>5
    <2>. QED
      BY <2>3 DEF Level
  \* the slices that were open are closed
  <1>6. ASSUME NEW d \in 1 .. n
        PROVE  /\ b[d] \in 1 .. l /\ IsBegin(r, b[d])
               /\ \E j \in 1 .. Len(r) : /\ Closes(r, b[d], j)
                                         /\ SliceOf(r, b[d], j) = <<fs[d].name, s[b[d]].ts, start>>
    <2>1. PICK k : k = n + 1 - d
      OBVIOUS
    <2>2. /\ k \in 1 .. Len(t) /\ k \in 1 .. n /\ k \in 0 .. n + n /\ -k = d - n - 1
          /\ \A m \in 0 .. k - 1 : m \in 0 .. n + n /\ m <= n /\ -m >= d - n
      BY <1>0, <1>4, <2>1
    <2>3. Level(t, k) = d - n - 1 /\ \A m \in 0 .. k - 1 : Level(t, m) >= d - n
      <3>1. Level(t, k) = -k
        BY <1>5, <2>2
      <3>2. \A m \in 0 .. k - 1 : Level(t, m) = -m
        BY <1>5, <2>2
      <3>. QED
        BY <2>2, <3>1, <3>2
    <2>4. t[k].kind = "End" /\ t[k].seq = TraceSequence /\ t[k].ts = start
      BY <2>2 DEF EndsAndResumes
    <2>5. Closes(s \o t, b[d], Len(s) + k) /\ IsBegin(s \o t, b[d])
      BY <1>0, <1>3, <2>2, <2>3, <2>4, LastCloses
    <2>6. Closes(r, b[d], l + k) /\ IsBegin(r, b[d])
      BY <1>1, <2>5
    <2>7. b[d] \in 1 .. l
      BY <1>1, <1>3 DEF OpenSlices, IsBegin
    <2>8. l + k \in 1 .. Len(r) /\ r[l + k] = t[k]
      BY <1>2, <2>2
    <2>9. SliceOf(r, b[d], l + k) = <<fs[d].name, s[b[d]].ts, start>>
      BY <1>2, <1>3, <2>4, <2>7, <2>8 DEF SliceOf, NamedSlices
    <2>. QED
      BY <2>6, <2>7, <2>8, <2>9
  <1>7. PICK c : c = [d \in 1 .. n |-> l + n + d]
    OBVIOUS
  \* the new ones are open
  <1>8. ASSUME NEW d \in 1 .. n
        PROVE  /\ c[d] \in 1 .. Len(r) /\ r[c[d]] = t[n + d] /\ IsBegin(r, c[d]) /\ Level(r, c[d]) = d
               /\ \A i \in c[d] .. Len(r) : Level(r, i) >= d
    <2>1. PICK m : m = n + d
      OBVIOUS
    <2>2. m \in n + 1 .. n + n /\ m \in 1 .. Len(t) /\ m \in 0 .. Len(t) /\ ~(m <= n) /\ c[d] = l + m
      BY <1>0, <1>2, <1>4, <1>7, <2>1
    <2>3. Level(t, m) = d - n
      BY <1>4, <1>5, <2>1, <2>2
    <2>4. c[d] \in 1 .. Len(r) /\ r[c[d]] = t[m]
      BY <1>2, <2>2
    <2>5. Level(r, c[d]) = d
      BY <1>2, <1>4, <2>2, <2>3
    <2>6. IsBegin(r, c[d])
      BY <2>2, <2>4 DEF IsBegin, EndsAndResumes
    <2>7. ASSUME NEW i \in c[d] .. Len(r)
          PROVE  Level(r, i) >= d
      <3>1. PICK k \in m .. n + n : i = l + k
        <4>1. i - l \in m .. n + n /\ i = l + (i - l)
          BY <1>0, <1>2, <1>4, <2>2
        <4>. QED
          BY <4>1
      <3>2. k \in 0 .. Len(t) /\ ~(k <= n) /\ k \in Nat
        BY <1>0, <1>4, <2>2, <3>1
      <3>3. Level(t, k) = k - n - n
        BY <1>5, <3>2
      <3>4. Level(r, i) = n + (k - n - n)
        BY <1>2, <1>4, <3>1, <3>2, <3>3
      <3>. QED
        BY <1>4, <2>1, <3>1, <3>2, <3>4
    <2>. QED
      BY <2>1, <2>4, <2>5, <2>6, <2>7
  <1>9. OpenSlices(r, n, c)
    <2>1. Level(r, Len(r)) = n
      <3>1. n + n \in 0 .. n + n /\ Len(t) \in 0 .. Len(t)
        BY <1>0, <1>4
      <3>2. Level(t, n + n) = IF n + n <= n THEN -(n + n) ELSE (n + n) - n - n
        BY <1>5, <3>1
      <3>3. Level(t, Len(t)) = 0
        BY <1>0, <1>4, <3>2
      <3>. QED
        BY <1>0, <1>2, <1>4, <3>1, <3>3
    <2>. QED
      BY <1>4, <1>8, <2>1 DEF OpenSlices
  <1>10. \A d \in 1 .. n : n + d \in n + 1 .. n + n
    BY <1>4
  <1>11. NamedSlices(r, n, fs, c, also)
    <2>1. ASSUME NEW d \in 1 .. n
          PROVE  NameOf(r[c[d]]) = fs[d].name /\ LastStart(fs[d], r[c[d]].ts, also)
      <3>1. r[c[d]] = t[n + d]
        BY <1>8
      <3>2. NameOf(t[n + d]) = fs[d].name /\ t[n + d].ts = end
        BY <1>10 DEF EndsAndResumes
      <3>3. LastStart(fs[d], end, also)
        BY DEF CutAt
      <3>. QED
        BY <3>1, <3>2, <3>3
    <2>. QED
      BY <2>1 DEF NamedSlices
  <1>12. NoneInvented(r, n, c, Z)
    <2>1. ASSUME NEW i \in 1 .. Len(r), IsBegin(r, i)
          PROVE  \/ \E d \in 1 .. n : c[d] = i
                 \/ \E j \in 1 .. Len(r) : Closes(r, i, j) /\ SliceOf(r, i, j) \in Z
      <3>1. CASE i > l
        <4>1. PICK k \in 1 .. Len(t) : i = l + k
          <5>1. i - l \in 1 .. Len(t) /\ i = l + (i - l)
            BY <1>2, <1>4, <3>1
          <5>. QED
            BY <5>1
        <4>2. r[i] = t[k]
          BY <1>2, <4>1
        <4>3. k \notin 1 .. n
          BY <2>1, <4>2 DEF IsBegin, EndsAndResumes
        <4>4. k - n \in 1 .. n /\ c[k - n] = i
          <5>1. k - n \in 1 .. n /\ l + n + (k - n) = i
            BY <1>0, <1>2, <1>4, <4>1, <4>3
          <5>. QED
            BY <1>7, <5>1
        <4>. QED
          BY <4>4
      <3>2. CASE i <= l
        <4>1. i \in 1 .. l /\ IsBegin(s, i)
          BY <1>2, <2>1, <3>2
        <4>2. \/ \E d \in 1 .. n : b[d] = i
              \/ \E j \in 1 .. l : Closes(s, i, j) /\ SliceOf(s, i, j) \in X
          BY <1>1, <1>3, <4>1 DEF NoneInvented
        <4>3. CASE \E d \in 1 .. n : b[d] = i
          <5>1. PICK d \in 1 .. n : b[d] = i
            BY <4>3
          <5>2. PICK j \in 1 .. Len(r) :
                  Closes(r, b[d], j) /\ SliceOf(r, b[d], j) = <<fs[d].name, s[b[d]].ts, start>>
            BY <1>6
          <5>3. <<fs[d].name, s[b[d]].ts, start>> \in Z
            BY DEF CutAt
          <5>. QED
            BY <5>1, <5>2, <5>3
        <4>4. CASE \E j \in 1 .. l : Closes(s, i, j) /\ SliceOf(s, i, j) \in X
          <5>1. PICK j \in 1 .. l : Closes(s, i, j) /\ SliceOf(s, i, j) \in X
            BY <4>4
          <5>2. j \in 1 .. Len(r) /\ Closes(r, i, j) /\ SliceOf(r, i, j) = SliceOf(s, i, j)
            BY <1>2, <4>1, <5>1
          <5>3. SliceOf(s, i, j)[3] = s[j].ts /\ s[j].ts <= start
            BY <1>1, <5>1 DEF SliceOf, Closes, NotAfter
          <5>4. SliceOf(s, i, j) \in Z
            BY <5>1, <5>3 DEF CutAt
          <5>. QED
            BY <5>2, <5>4
        <4>. QED
          BY <4>2, <4>3, <4>4
      <3>. QED
        BY <1>2, <3>1, <3>2
    <2>. QED
      BY <2>1 DEF NoneInvented
  <1>13. NoneLost(r, n, fs, c, Z)
    <2>1. ASSUME NEW x \in Z
          PROVE  IsRead(r, x) \/ \E d \in 1 .. n : x = OpenPiece(r, fs[d], c[d])
      <3>1. CASE x \in X /\ x[3] <= start
        <4>1. IsRead(s, x) \/ \E d \in 1 .. n : x = OpenPiece(s, fs[d], b[d])
          BY <1>3, <3>1 DEF NoneLost
        <4>2. \A d \in 1 .. n : OpenPiece(s, fs[d], b[d])[3] = fs[d].end
          BY DEF OpenPiece
        <4>3. ~\E d \in 1 .. n : x = OpenPiece(s, fs[d], b[d])
          BY <3>1, <4>2 DEF CutAt
        <4>. QED
          BY <1>2, <4>1, <4>3
      <3>2. ASSUME NEW d \in 1 .. n, x = <<fs[d].name, s[b[d]].ts, start>>
            PROVE  IsRead(r, x)
        <4>1. PICK j \in 1 .. Len(r) : Closes(r, b[d], j) /\ SliceOf(r, b[d], j) = x
          BY <1>6, <3>2
        <4>2. b[d] \in 1 .. Len(r) /\ IsBegin(r, b[d])
          BY <1>2, <1>6
        <4>. QED
          BY <4>1, <4>2 DEF IsRead
      <3>3. ASSUME NEW d \in 1 .. n, x = <<fs[d].name, end, fs[d].end>>
            PROVE  x = OpenPiece(r, fs[d], c[d])
        BY <1>8, <1>10, <3>3 DEF OpenPiece, EndsAndResumes
      <3>. QED
        BY <3>1, <3>2, <3>3 DEF CutAt
    <2>. QED
      BY <2>1 DEF NoneLost
  <1>14. ReadBack(r, n, fs, c, also, Z)
    BY <1>9, <1>11, <1>12, <1>13 DEF ReadBack
  <1>. QED
    BY <1>1, <1>14

-----------------------------------------------------------------------------
(***************************************************************************)
(* What has been converted.  V are the frames that have been begun and P   *)
(* the pauses that have been passed; a chunk that was handled is one of    *)
(* them.  They are over when the frame on top is due, up to the frames on  *)
(* the walk, which have started by then and end one inside the other.      *)
(***************************************************************************)
CutOut(P) == IF renderPauses = "Gap" THEN P ELSE {}

PiecesOf(V, P) ==
  (UNION {Pieces(Frame(id), CutOut(P)) : id \in V})
    \cup {<<PauseName, p.start, p.end>> : p \in IF renderPauses = "Gap" THEN {} ELSE P}

FramesOn == [d \in 1 .. Len(walk) |-> Frame(walk[d].frame)]

Handled(c, V, P) ==
  /\ c.kind = "Frame" => c.id \in V
  /\ c.kind = "Pause" => [start |-> c.start, end |-> c.end] \in P

Waiting(visits, id, i) == \E d \in 1 .. Len(visits) : visits[d].frame = id /\ visits[d].next <= i

Explored(V, P) ==
  /\ V \subseteq DOMAIN trace.frames /\ P \subseteq Pauses
  /\ \A d \in 1 .. Len(walk) : walk[d].frame \in V
  /\ \A id \in V : \A i \in 1 .. Len(Frame(id).chunks) :
       Handled(Frame(id).chunks[i], V, P) \/ Waiting(walk, id, i)
  /\ phase \in {"setup", "header", "root"} => V = {} /\ P = {}
  /\ phase \in {"frames", "events", "joining", "succeeded"} => trace.root \in V

Passed(V, P, now) ==
  /\ \A p \in P : p.end <= now
  /\ \A id \in V : Frame(id).end <= now \/ \E d \in 1 .. Len(walk) : walk[d].frame = id
  /\ \A d \in 1 .. Len(walk) : Frame(walk[d].frame).start <= now

Inside(visits) ==
  \A d, e \in 1 .. Len(visits) :
    d < e => Frame(visits[e].frame).end <= Due(trace.frames, visits[d])

Elapsed(V, P, now) == Passed(V, P, now) /\ Inside(walk)

ReadTo(V, P, b) == ReadBack(Stream, Len(walk), FramesOn, b, CutOut(P), PiecesOf(V, P))

\* the data rates that have been sent or will be when a frame ends
EndRates(f) == {<<f.end, v>> : v \in f.end_rate}

AllRates(V) == UNION {RatesOf(Frame(id)) : id \in V}

Sampled(s, n, fs, Y) ==
  /\ \A i \in 1 .. Len(s) : \A v \in s[i].value : s[i].seq = TraceSequence /\ <<s[i].ts, v>> \in Y
  /\ \A y \in Y : \/ \E i \in 1 .. Len(s) : \E v \in s[i].value : y = <<s[i].ts, v>>
                  \/ \E d \in 1 .. n : y \in EndRates(fs[d])

SampledTo(V) == Sampled(Stream, Len(walk), FramesOn, AllRates(V))

ConvertedTo(V, P, b) ==
  /\ Explored(V, P)
  /\ phase = "frames" => Elapsed(V, P, Due(trace.frames, walk[Len(walk)]))
  /\ ReadTo(V, P, b)
  /\ SampledTo(V)

Converted == ~stop /\ phase # "panicked" => \E V, P, b : ConvertedTo(V, P, b)

\* The pauses take time, and are found in the chunks.
LEMMA PausesAreChunks ==
  ASSUME PausesTakeTime, trace \in Traces
  PROVE  /\ Pauses \subseteq Span
         /\ \A id \in DOMAIN trace.frames : \A i \in 1 .. Len(Frame(id).chunks) :
              LET c == Frame(id).chunks[i]
              IN  c.kind = "Pause" => [start |-> c.start, end |-> c.end] \in Pauses
         /\ \A p \in Pauses : \E id \in DOMAIN trace.frames : \E i \in 1 .. Len(Frame(id).chunks) :
              LET c == Frame(id).chunks[i]
              IN  c.kind = "Pause" /\ p = [start |-> c.start, end |-> c.end]
  <1>1. \A id \in DOMAIN trace.frames : /\ Frame(id).chunks \in Seq(Chunk)
                                        /\ \A i \in 1 .. Len(Frame(id).chunks) : Frame(id).chunks[i] \in Chunk
                                        /\ ToSet(Frame(id).chunks) =
                                             {Frame(id).chunks[i] : i \in 1 .. Len(Frame(id).chunks)}
    <2>1. ASSUME NEW id \in DOMAIN trace.frames
          PROVE  Frame(id).chunks \in Seq(Chunk)
      BY TracesAssumption DEF IsFrame, Frame
    <2>2. ASSUME NEW cs \in Seq(Chunk)
          PROVE  /\ \A i \in 1 .. Len(cs) : cs[i] \in Chunk
                 /\ ToSet(cs) = {cs[i] : i \in 1 .. Len(cs)}
      BY DEF ToSet
    <2>. QED
      BY <2>1, <2>2
  <1>2. \A p \in Pauses : \E id \in DOMAIN trace.frames : \E i \in 1 .. Len(Frame(id).chunks) :
              LET c == Frame(id).chunks[i]
              IN  c.kind = "Pause" /\ p = [start |-> c.start, end |-> c.end]
    <2>1. ASSUME NEW p \in Pauses
          PROVE  \E id \in DOMAIN trace.frames : \E i \in 1 .. Len(Frame(id).chunks) :
                   LET c == Frame(id).chunks[i]
                   IN  c.kind = "Pause" /\ p = [start |-> c.start, end |-> c.end]
      <3>1. PICK c \in UNION {ToSet(trace.frames[x].chunks) : x \in DOMAIN trace.frames} :
              c.kind = "Pause" /\ p = [start |-> c.start, end |-> c.end]
        BY DEF Pauses
      <3>2. PICK id \in DOMAIN trace.frames : c \in ToSet(Frame(id).chunks)
        BY <3>1 DEF Frame
      <3>3. PICK i \in 1 .. Len(Frame(id).chunks) : c = Frame(id).chunks[i]
        BY <1>1, <3>2
      <3>. QED
        BY <3>1, <3>3
    <2>. QED
      BY <2>1
  <1>3. \A id \in DOMAIN trace.frames : \A i \in 1 .. Len(Frame(id).chunks) :
              LET c == Frame(id).chunks[i]
              IN  c.kind = "Pause" => [start |-> c.start, end |-> c.end] \in Pauses
    <2>1. ASSUME NEW id \in DOMAIN trace.frames, NEW i \in 1 .. Len(Frame(id).chunks), NEW c,
                 c = Frame(id).chunks[i], c.kind = "Pause"
          PROVE  [start |-> c.start, end |-> c.end] \in Pauses
      <3>1. c \in ToSet(trace.frames[id].chunks)
        BY <1>1, <2>1 DEF Frame
      <3>2. c \in UNION {ToSet(trace.frames[x].chunks) : x \in DOMAIN trace.frames}
        BY <3>1
      <3>. QED
        BY <2>1, <3>2 DEF Pauses
    <2>. QED
      BY <2>1
  <1>4. ASSUME NEW p \in Pauses
        PROVE  p \in Span
    <2>1. PICK id \in DOMAIN trace.frames : \E i \in 1 .. Len(Frame(id).chunks) :
              LET c == Frame(id).chunks[i]
              IN  c.kind = "Pause" /\ p = [start |-> c.start, end |-> c.end]
      BY <1>2
    <2>2. PICK i \in 1 .. Len(Frame(id).chunks) :
              LET c == Frame(id).chunks[i]
              IN  c.kind = "Pause" /\ p = [start |-> c.start, end |-> c.end]
      BY <2>1
    <2>3. PICK c : c = Frame(id).chunks[i]
      OBVIOUS
    <2>4. c \in Chunk /\ c.kind = "Pause" /\ p = [start |-> c.start, end |-> c.end]
      BY <1>1, <2>2, <2>3
    <2>5. c.start < c.end
      BY <2>2, <2>3, <2>4 DEF PausesTakeTime, Frame
    <2>6. c.start \in Nat /\ c.end \in Nat
      BY <2>4 DEF Chunk
    <2>. QED
      BY <2>4, <2>5, <2>6 DEF Span
  <1>. QED
    BY <1>2, <1>3, <1>4

\* The slice of a frame is called what the frame is.
LEMMA FrameName ==
  ASSUME NEW f, NEW tabs, NEW p, p.uses = FrameStrings(f, tabs)
  PROVE  NameOf(p) = f.name
  <1>1. ToSet(<<f.name>>) = {f.name}
    BY DEF ToSet
  <1>2. References("events", tabs.events, <<f.name>>) = {Reference("events", tabs.events, f.name)}
    BY <1>1 DEF References
  <1>3. PICK u : u = Reference("events", tabs.events, f.name)
    OBVIOUS
  <1>4. u.table = "events" /\ u.means = f.name
    BY <1>3 DEF Reference
  <1>5. /\ \A v \in References("keys", tabs.keys, f.keys) : v.table # "events"
        /\ \A v \in References("values", tabs.values, f.values) : v.table # "events"
    BY DEF References, Reference
  <1>6. {v \in p.uses : v.table = "events"} = {u}
    BY <1>2, <1>3, <1>4, <1>5 DEF FrameStrings
  <1>7. {w.means : w \in {v \in p.uses : v.table = "events"}} = {f.name}
    BY <1>4, <1>6
  <1>. QED
    BY <1>7 DEF NameOf

LEMMA PauseNameIs ==
  ASSUME NEW table, NEW p, p.uses = References("events", table, <<PauseName>>)
  PROVE  NameOf(p) = PauseName
  <1>1. ToSet(<<PauseName>>) = {PauseName}
    BY DEF ToSet
  <1>2. PICK u : u = Reference("events", table, PauseName)
    OBVIOUS
  <1>3. u.table = "events" /\ u.means = PauseName
    BY <1>2 DEF Reference
  <1>4. p.uses = {u}
    BY <1>1, <1>2 DEF References
  <1>5. {v \in p.uses : v.table = "events"} = {u}
    BY <1>3, <1>4
  <1>6. {w.means : w \in {v \in p.uses : v.table = "events"}} = {PauseName}
    BY <1>3, <1>5
  <1>. QED
    BY <1>6 DEF NameOf

-----------------------------------------------------------------------------
(***************************************************************************)
(* The data rates.                                                         *)
(***************************************************************************)
LEMMA SampledBegin ==
  ASSUME NEW s, IsSeq(s), NEW n \in Nat, NEW fs, NEW Y, Sampled(s, n, fs, Y),
         NEW f, NEW p, p.seq = TraceSequence, p.ts = f.start, p.value = f.start_rate,
         NEW gs, \A d \in 1 .. n : gs[d] = fs[d], gs[n + 1] = f
  PROVE  Sampled(s \o <<p>>, n + 1, gs, Y \cup RatesOf(f))
  <1>0. PICK t : t = <<p>>
    OBVIOUS
  <1>1. PICK r, l : r = s \o t /\ l = Len(s)
    OBVIOUS
  <1>2. Len(t) = 1 /\ t[1] = p
    BY <1>0, SinglePiece
  <1>3. IsSeq(t)
    BY <1>0, SinglePiece
  <1>4. Len(r) = l + 1 /\ l \in Nat /\ r[l + 1] = p /\ \A i \in 1 .. l : r[i] = s[i]
    <2>1. /\ Len(r) = l + Len(t) /\ l \in Nat /\ \A i \in 1 .. l : r[i] = s[i]
          /\ \A i \in 1 .. Len(t) : r[l + i] = t[i]
      BY <1>1, <1>3, Joined
    <2>2. 1 \in 1 .. Len(t)
      BY <1>2
    <2>. QED
      BY <1>2, <2>1, <2>2
  <1>5. /\ \A i \in 1 .. Len(r) : i \in 1 .. l \/ i = l + 1
        /\ \A i \in 1 .. l : i \in 1 .. Len(r)
        /\ l + 1 \in 1 .. Len(r)
        /\ \A d \in 1 .. n : d \in 1 .. n + 1
        /\ n + 1 \in 1 .. n + 1
    BY <1>4
  <1>6. \A y : y \in RatesOf(f) <=> y \in EndRates(f) \/ \E v \in p.value : y = <<p.ts, v>>
    BY DEF RatesOf, EndRates
  <1>7. PICK Z : Z = Y \cup RatesOf(f)
    OBVIOUS
  <1>8. ASSUME NEW i \in 1 .. Len(r), NEW v \in r[i].value
        PROVE  r[i].seq = TraceSequence /\ <<r[i].ts, v>> \in Z
    <2>1. CASE i \in 1 .. l
      BY <1>1, <1>4, <1>7, <1>8, <2>1 DEF Sampled
    <2>2. CASE i = l + 1
      BY <1>4, <1>6, <1>7, <1>8, <2>2
    <2>. QED
      BY <1>5, <2>1, <2>2
  <1>9. ASSUME NEW y \in Z
        PROVE  \/ \E i \in 1 .. Len(r) : \E v \in r[i].value : y = <<r[i].ts, v>>
               \/ \E d \in 1 .. n + 1 : y \in EndRates(gs[d])
    <2>1. CASE y \in Y
      <3>1. \/ \E i \in 1 .. l : \E v \in s[i].value : y = <<s[i].ts, v>>
            \/ \E d \in 1 .. n : y \in EndRates(fs[d])
        BY <1>1, <2>1 DEF Sampled
      <3>2. CASE \E i \in 1 .. l : \E v \in s[i].value : y = <<s[i].ts, v>>
        BY <1>4, <1>5, <3>2
      <3>3. CASE \E d \in 1 .. n : y \in EndRates(fs[d])
        BY <1>5, <3>3
      <3>. QED
        BY <3>1, <3>2, <3>3
    <2>2. CASE y \in EndRates(f)
      BY <1>5, <2>2
    <2>3. CASE \E v \in p.value : y = <<p.ts, v>>
      BY <1>4, <1>5, <2>3
    <2>. QED
      BY <1>6, <1>7, <2>1, <2>2, <2>3
  <1>10. Sampled(r, n + 1, gs, Z)
    BY <1>8, <1>9 DEF Sampled
  <1>. QED
    BY <1>0, <1>1, <1>7, <1>10

LEMMA SampledEnd ==
  ASSUME NEW s, IsSeq(s), NEW n \in Nat, n >= 1, NEW fs, NEW Y, Sampled(s, n, fs, Y),
         NEW q, q.seq = TraceSequence, q.ts = fs[n].end, q.value = fs[n].end_rate,
         EndRates(fs[n]) \subseteq Y, NEW gs, \A d \in 1 .. n - 1 : gs[d] = fs[d]
  PROVE  Sampled(s \o <<q>>, n - 1, gs, Y)
  <1>0. PICK t : t = <<q>>
    OBVIOUS
  <1>1. PICK r, l : r = s \o t /\ l = Len(s)
    OBVIOUS
  <1>2. Len(t) = 1 /\ t[1] = q
    BY <1>0, SinglePiece
  <1>3. IsSeq(t)
    BY <1>0, SinglePiece
  <1>4. Len(r) = l + 1 /\ l \in Nat /\ r[l + 1] = q /\ \A i \in 1 .. l : r[i] = s[i]
    <2>1. /\ Len(r) = l + Len(t) /\ l \in Nat /\ \A i \in 1 .. l : r[i] = s[i]
          /\ \A i \in 1 .. Len(t) : r[l + i] = t[i]
      BY <1>1, <1>3, Joined
    <2>2. 1 \in 1 .. Len(t)
      BY <1>2
    <2>. QED
      BY <1>2, <2>1, <2>2
  <1>5. /\ \A i \in 1 .. Len(r) : i \in 1 .. l \/ i = l + 1
        /\ \A i \in 1 .. l : i \in 1 .. Len(r)
        /\ l + 1 \in 1 .. Len(r)
        /\ \A d \in 1 .. n : d \in 1 .. n - 1 \/ d = n
    BY <1>4
  <1>6. \A y : y \in EndRates(fs[n]) <=> \E v \in q.value : y = <<q.ts, v>>
    BY DEF EndRates
  <1>7. ASSUME NEW i \in 1 .. Len(r), NEW v \in r[i].value
        PROVE  r[i].seq = TraceSequence /\ <<r[i].ts, v>> \in Y
    <2>1. CASE i \in 1 .. l
      BY <1>1, <1>4, <1>7, <2>1 DEF Sampled
    <2>2. CASE i = l + 1
      BY <1>4, <1>6, <1>7, <2>2
    <2>. QED
      BY <1>5, <2>1, <2>2
  <1>8. ASSUME NEW y \in Y
        PROVE  \/ \E i \in 1 .. Len(r) : \E v \in r[i].value : y = <<r[i].ts, v>>
               \/ \E d \in 1 .. n - 1 : y \in EndRates(gs[d])
    <2>1. \/ \E i \in 1 .. l : \E v \in s[i].value : y = <<s[i].ts, v>>
          \/ \E d \in 1 .. n : y \in EndRates(fs[d])
      BY <1>1, <1>8 DEF Sampled
    <2>2. CASE \E i \in 1 .. l : \E v \in s[i].value : y = <<s[i].ts, v>>
      BY <1>4, <1>5, <2>2
    <2>3. CASE \E d \in 1 .. n : y \in EndRates(fs[d])
      BY <1>4, <1>5, <1>6, <2>3
    <2>. QED
      BY <2>1, <2>2, <2>3
  <1>9. Sampled(r, n - 1, gs, Y)
    BY <1>7, <1>8 DEF Sampled
  <1>. QED
    BY <1>0, <1>1, <1>9

\* Packets without a value change nothing.
LEMMA SampledNeutral ==
  ASSUME NEW s, IsSeq(s), NEW n, NEW fs, NEW Y, Sampled(s, n, fs, Y),
         NEW t, IsSeq(t), \A i \in 1 .. Len(t) : t[i].value = {},
         NEW gs, \A d \in 1 .. n : gs[d] = fs[d]
  PROVE  Sampled(s \o t, n, gs, Y)
  <1>1. PICK r, l : r = s \o t /\ l = Len(s)
    OBVIOUS
  <1>2. /\ Len(r) = l + Len(t) /\ l \in Nat /\ Len(t) \in Nat /\ \A i \in 1 .. l : r[i] = s[i]
        /\ \A i \in 1 .. Len(t) : r[l + i] = t[i]
    BY <1>1, Joined
  <1>3. ASSUME NEW i \in 1 .. Len(r), i \notin 1 .. l
        PROVE  r[i].value = {}
    <2>1. i - l \in 1 .. Len(t) /\ l + (i - l) = i
      BY <1>2, <1>3
    <2>2. PICK k \in 1 .. Len(t) : l + k = i
      BY <2>1
    <2>. QED
      BY <1>2, <2>2
  <1>4. \A i \in 1 .. l : i \in 1 .. Len(r)
    BY <1>2
  <1>5. \A i \in 1 .. Len(r) : \A v \in r[i].value : r[i].seq = TraceSequence /\ <<r[i].ts, v>> \in Y
    BY <1>1, <1>2, <1>3 DEF Sampled
  <1>6. ASSUME NEW y \in Y
        PROVE  \/ \E i \in 1 .. Len(r) : \E v \in r[i].value : y = <<r[i].ts, v>>
               \/ \E d \in 1 .. n : y \in EndRates(gs[d])
    <2>1. \/ \E i \in 1 .. l : \E v \in s[i].value : y = <<s[i].ts, v>>
          \/ \E d \in 1 .. n : y \in EndRates(fs[d])
      BY <1>1, <1>6 DEF Sampled
    <2>. QED
      BY <1>2, <1>4, <2>1
  <1>7. Sampled(r, n, gs, Y)
    BY <1>5, <1>6 DEF Sampled
  <1>. QED
    BY <1>1, <1>7

-----------------------------------------------------------------------------
(***************************************************************************)
(* The chunks.                                                             *)
(***************************************************************************)

\* The chunk the frame on top goes past is handled.
LEMMA AdvancedWaits ==
  ASSUME Walking, ProcessChunk, NEW V, NEW P, Explored(V, P),
         NEW W, NEW Q, V \subseteq W, P \subseteq Q, Handled(NextChunk, W, Q)
  PROVE  /\ Len(Advanced) = Len(walk) /\ Advanced \in Seq(Visit)
         /\ \A d \in 1 .. Len(walk) : Advanced[d].frame = walk[d].frame
         /\ \A id \in V : \A i \in 1 .. Len(Frame(id).chunks) :
              Handled(Frame(id).chunks[i], W, Q) \/ Waiting(Advanced, id, i)
  <1>1. PICK n, w, c : n = Len(walk) /\ w = Advanced /\ c = NextChunk
    OBVIOUS
  <1>2. /\ n \in Nat /\ n >= 1 /\ w \in Seq(Visit) /\ Len(w) = n /\ walk \in Seq(Visit)
        /\ \A i \in 1 .. n - 1 : w[i] = walk[i]
        /\ Current = walk[n] /\ Current \in Visit
        /\ w[n] = [frame |-> Current.frame, next |-> Current.next + 1]
    BY <1>1, AdvancedWalks DEF Walking, ProcessChunk, InFrame
  <1>3. /\ \A d \in 1 .. n : d \in 1 .. n - 1 \/ d = n
        /\ n \in 1 .. n /\ w[n].frame = walk[n].frame /\ w[n].next = walk[n].next + 1
        /\ walk[n].next \in Nat
    BY <1>2 DEF Visit
  <1>4. \A d \in 1 .. n : w[d].frame = walk[d].frame
    BY <1>2, <1>3
  <1>5. \A x : Handled(x, V, P) => Handled(x, W, Q)
    BY DEF Handled
  <1>6. ASSUME NEW id \in V, NEW i \in 1 .. Len(Frame(id).chunks)
        PROVE  Handled(Frame(id).chunks[i], W, Q) \/ Waiting(w, id, i)
    <2>1. Handled(Frame(id).chunks[i], V, P) \/ Waiting(walk, id, i)
      BY DEF Explored
    <2>2. CASE Waiting(walk, id, i)
      <3>1. PICK d \in 1 .. n : walk[d].frame = id /\ walk[d].next <= i
        BY <1>1, <2>2 DEF Waiting
      <3>2. CASE d \in 1 .. n - 1
        BY <1>2, <3>1, <3>2 DEF Waiting
      <3>3. CASE d = n /\ walk[n].next = i
        <4>1. Frame(id).chunks[i] = c
          BY <1>1, <1>2, <3>1, <3>3 DEF NextChunk, CurrentFrame
        <4>. QED
          BY <1>1, <4>1
      <3>4. CASE d = n /\ walk[n].next # i
        <4>1. i \in Nat
          OBVIOUS
        <4>2. w[n].next <= i
          BY <1>3, <3>1, <3>4, <4>1
        <4>. QED
          BY <1>2, <1>3, <3>1, <3>4, <4>2 DEF Waiting
      <3>. QED
        BY <1>3, <3>2, <3>3, <3>4
    <2>. QED
      BY <1>5, <2>1, <2>2
  <1>. QED
    BY <1>1, <1>2, <1>4, <1>6

\* A frame is begun.
MayBegin(id, callers, V, P) ==
  /\ callers \in Seq(Visit) /\ Len(callers) = Len(walk)
  /\ \A d \in 1 .. Len(walk) : callers[d].frame = walk[d].frame
  /\ \A x \in V : \A i \in 1 .. Len(Frame(x).chunks) :
       Handled(Frame(x).chunks[i], V \cup {id}, P) \/ Waiting(callers, x, i)
  /\ Inside(callers)
  /\ \A d \in 1 .. Len(callers) : Frame(id).end <= Due(trace.frames, callers[d])
  /\ Passed(V, P, Frame(id).start)

\* The walk when a frame begins.
LEMMA BeginWalk ==
  ASSUME Walking, NEW id \in DOMAIN trace.frames, NEW callers, BeginFrame(id, callers),
         NEW V, NEW P, MayBegin(id, callers, V, P)
  PROVE  /\ walk' \in Seq(Visit) /\ Len(walk) \in Nat /\ Len(walk') = Len(walk) + 1
         /\ \A d \in 1 .. Len(walk) : walk'[d] = callers[d] /\ callers[d].frame = walk[d].frame
         /\ walk'[Len(walk) + 1] = [frame |-> id, next |-> 1]
         /\ \A d \in 1 .. Len(walk) : d \in 1 .. Len(walk') /\ d < Len(walk')
         /\ \A d \in 1 .. Len(walk') : d \in 1 .. Len(walk) \/ d = Len(walk) + 1
         /\ Len(walk) + 1 \in 1 .. Len(walk')
  <1>1. /\ walk' \in Seq(Visit) /\ Len(walk') = Len(callers) + 1 /\ Len(callers) \in Nat
        /\ \A i \in 1 .. Len(callers) : walk'[i] = callers[i]
        /\ walk'[Len(callers) + 1] = [frame |-> id, next |-> 1]
    BY BeginFrameWalks DEF Walking, MayBegin
  <1>2. Len(callers) = Len(walk) /\ \A d \in 1 .. Len(walk) : callers[d].frame = walk[d].frame
    BY DEF MayBegin
  <1>. QED
    BY <1>1, <1>2

LEMMA BeginExplored ==
  ASSUME Walking, NEW id \in DOMAIN trace.frames, NEW callers, BeginFrame(id, callers),
         trace' = trace, phase' = "frames", NEW V, NEW P, MayBegin(id, callers, V, P),
         V \subseteq DOMAIN trace.frames, P \subseteq Pauses,
         \A d \in 1 .. Len(walk) : walk[d].frame \in V, trace.root \in V \cup {id}
  PROVE  /\ Explored(V \cup {id}, P)'
         /\ Elapsed(V \cup {id}, P, Due(trace.frames, walk[Len(walk)]))'
  <1>1. PICK n, w, W : n = Len(walk) /\ w = walk' /\ W = V \cup {id}
    OBVIOUS
  <1>2. /\ w \in Seq(Visit) /\ n \in Nat /\ Len(w) = n + 1
        /\ \A d \in 1 .. n : w[d] = callers[d] /\ callers[d].frame = walk[d].frame
        /\ w[n + 1] = [frame |-> id, next |-> 1]
        /\ \A d \in 1 .. n : d \in 1 .. n + 1 /\ d < n + 1
        /\ \A d \in 1 .. n + 1 : d \in 1 .. n \/ d = n + 1
        /\ n + 1 \in 1 .. n + 1
    BY <1>1, BeginWalk
  <1>3. w[n + 1].frame = id /\ w[n + 1].next = 1
    BY <1>2
  <1>4. \A d \in 1 .. n + 1 : w[d].frame \in W
    BY <1>1, <1>2, <1>3
  <1>5. ASSUME NEW x \in W, NEW i \in 1 .. Len(Frame(x).chunks)
        PROVE  Handled(Frame(x).chunks[i], W, P) \/ Waiting(w, x, i)
    <2>1. CASE x = id
      BY <1>2, <1>3, <2>1 DEF Waiting
    <2>2. CASE x \in V
      <3>1. Handled(Frame(x).chunks[i], W, P) \/ Waiting(callers, x, i)
        BY <1>1, <2>2 DEF MayBegin
      <3>2. Len(callers) = n
        BY <1>1 DEF MayBegin
      <3>. QED
        BY <1>2, <3>1, <3>2 DEF Waiting
    <2>. QED
      BY <1>1, <2>1, <2>2
  <1>6. Explored(W, P)'
    <2>1. W \subseteq DOMAIN trace.frames /\ trace.root \in W
      BY <1>1
    <2>2. (P \subseteq Pauses)'
      BY DEF Pauses
    <2>3. (\A d \in 1 .. Len(walk) : walk[d].frame \in W)'
      BY <1>1, <1>2, <1>4
    <2>4. (\A x \in W : \A i \in 1 .. Len(Frame(x).chunks) :
             Handled(Frame(x).chunks[i], W, P) \/ Waiting(walk, x, i))'
      BY <1>1, <1>5 DEF Frame
    <2>. QED
      BY <2>1, <2>2, <2>3, <2>4 DEF Explored
  <1>7. PICK now : now = Due(trace.frames, w[n + 1])
    OBVIOUS
  <1>8. /\ now \in Nat /\ Frame(id).start \in Nat /\ Frame(id).start <= now
    <2>1. w[n + 1] \in Visit /\ trace \in Traces
      BY <1>2 DEF Walking
    <2>. QED
      BY <1>3, <1>7, <2>1, DueInFrame DEF Frame
  <1>9. /\ \A x \in DOMAIN trace.frames : Frame(x).start \in Nat /\ Frame(x).end \in Nat
        /\ \A p \in P : p.end \in Nat
    <2>1. trace \in Traces
      BY DEF Walking
    <2>2. \A x \in DOMAIN trace.frames : Frame(x).start \in Nat /\ Frame(x).end \in Nat
      BY <2>1, TracesAssumption DEF IsFrame, Frame
    <2>3. \A x \in DOMAIN trace.frames : \A c \in ToSet(Frame(x).chunks) : c \in Chunk
      <3>1. \A x \in DOMAIN trace.frames : Frame(x).chunks \in Seq(Chunk)
        BY <2>1, TracesAssumption DEF IsFrame, Frame
      <3>2. ASSUME NEW cs \in Seq(Chunk)
            PROVE  \A c \in ToSet(cs) : c \in Chunk
        BY DEF ToSet
      <3>. QED
        BY <3>1, <3>2
    <2>4. \A p \in Pauses : p.end \in Nat
      BY <2>3 DEF Pauses, Frame, Chunk
    <2>. QED
      BY <2>2, <2>4
  <1>10. /\ \A p \in P : p.end <= now
         /\ \A x \in W : Frame(x).end <= now \/ \E d \in 1 .. n + 1 : w[d].frame = x
         /\ \A d \in 1 .. n + 1 : Frame(w[d].frame).start <= now
    <2>1. /\ \A p \in P : p.end <= Frame(id).start
          /\ \A x \in V : Frame(x).end <= Frame(id).start \/ \E d \in 1 .. n : walk[d].frame = x
          /\ \A d \in 1 .. n : Frame(walk[d].frame).start <= Frame(id).start
      BY <1>1 DEF MayBegin, Passed
    <2>2. \A p \in P : p.end <= now
      BY <1>8, <1>9, <2>1
    <2>3. ASSUME NEW x \in W
          PROVE  Frame(x).end <= now \/ \E d \in 1 .. n + 1 : w[d].frame = x
      <3>1. CASE x = id
        BY <1>2, <1>3, <3>1
      <3>2. CASE x \in V /\ Frame(x).end <= Frame(id).start
        BY <1>8, <1>9, <3>2
      <3>3. CASE \E d \in 1 .. n : walk[d].frame = x
        BY <1>2, <3>3
      <3>. QED
        BY <1>1, <2>1, <3>1, <3>2, <3>3
    <2>4. ASSUME NEW d \in 1 .. n + 1
          PROVE  Frame(w[d].frame).start <= now
      <3>1. CASE d = n + 1
        BY <1>3, <1>8, <3>1
      <3>2. CASE d \in 1 .. n
        <4>1. w[d].frame = walk[d].frame /\ walk[d].frame \in DOMAIN trace.frames
          BY <1>1, <1>2, <3>2
        <4>. QED
          BY <1>8, <1>9, <2>1, <3>2, <4>1
      <3>. QED
        BY <1>2, <3>1, <3>2
    <2>. QED
      BY <2>2, <2>3, <2>4
  <1>11. ASSUME NEW d \in 1 .. n + 1, NEW e \in 1 .. n + 1, d < e
         PROVE  Frame(w[e].frame).end <= Due(trace.frames, w[d])
    <2>1. d \in 1 .. n
      BY <1>2, <1>11
    <2>2. CASE e = n + 1
      BY <1>1, <1>2, <1>3, <2>1, <2>2 DEF MayBegin
    <2>3. CASE e \in 1 .. n
      BY <1>1, <1>2, <1>11, <2>1, <2>3 DEF MayBegin, Inside
    <2>. QED
      BY <1>2, <2>2, <2>3
  <1>12. Elapsed(W, P, Due(trace.frames, walk[Len(walk)]))'
    <2>1. walk' = w /\ Len(w) = n + 1 /\ trace' = trace
      BY <1>1, <1>2
    <2>2. Passed(W, P, Due(trace.frames, walk[Len(walk)]))'
      BY <1>7, <1>10, <2>1 DEF Passed, Frame
    <2>3. Inside(walk)'
      BY <1>11, <2>1 DEF Inside, Frame
    <2>. QED
      BY <2>2, <2>3 DEF Elapsed
  <1>. QED
    BY <1>1, <1>6, <1>12

\* The frames on the walk are timed, and so are those that were begun.
LEMMA FramesTimed ==
  ASSUME trace \in Traces, NEW id \in DOMAIN trace.frames
  PROVE  IsTimed(Frame(id))
  BY TracesAssumption DEF IsFrame, IsTimed, Frame

LEMMA BeginRead ==
  ASSUME Walking, PausesTakeTime, NEW id \in DOMAIN trace.frames, NEW callers,
         BeginFrame(id, callers), outbox = <<>>, sent' = sent, trace' = trace,
         renderPauses' = renderPauses, NEW V, NEW P, NEW b, MayBegin(id, callers, V, P),
         P \subseteq Pauses, ReadTo(V, P, b), SampledTo(V)
  PROVE  (\E c : ReadTo(V \cup {id}, P, c)') /\ SampledTo(V \cup {id})'
  <1>1. PICK n, f, s : n = Len(walk) /\ f = Frame(id) /\ s = Stream
    OBVIOUS
  <1>2. PICK fs, gs : fs = FramesOn /\ gs = FramesOn'
    OBVIOUS
  <1>3. PICK p : outbox' = <<p>> /\ p.kind = "Begin" /\ p.seq = TraceSequence /\ p.ts = f.start
                 /\ p.value = f.start_rate /\ \E tabs : p.uses = FrameStrings(f, tabs)
    BY <1>1 DEF BeginFrame, SliceBegin, Packet
  <1>4. NameOf(p) = f.name
    BY <1>3, FrameName
  <1>5. IsSeq(s) /\ Stream' = s \o <<p>>
    BY <1>1, <1>3, StreamTypes DEF Stream, IsSeq
  <1>6. /\ n \in Nat /\ Len(walk') = n + 1 /\ gs[n + 1] = f
        /\ \A d \in 1 .. n : gs[d] = fs[d]
    <2>1. /\ n \in Nat /\ Len(walk') = n + 1
          /\ \A d \in 1 .. n : walk'[d].frame = walk[d].frame
          /\ walk'[n + 1].frame = id
          /\ \A d \in 1 .. n : d \in 1 .. n + 1
          /\ n + 1 \in 1 .. n + 1
      <3>1. /\ Len(walk) \in Nat /\ Len(walk') = Len(walk) + 1
            /\ \A d \in 1 .. Len(walk) : walk'[d] = callers[d] /\ callers[d].frame = walk[d].frame
            /\ walk'[Len(walk) + 1] = [frame |-> id, next |-> 1]
            /\ \A d \in 1 .. Len(walk) : d \in 1 .. Len(walk') /\ d < Len(walk')
            /\ Len(walk) + 1 \in 1 .. Len(walk')
        BY BeginWalk
      <3>. QED
        BY <1>1, <3>1
    <2>2. gs = [d \in 1 .. n + 1 |-> Frame(walk'[d].frame)]
      BY <1>2, <2>1 DEF FramesOn, Frame
    <2>3. fs = [d \in 1 .. n |-> Frame(walk[d].frame)]
      BY <1>1, <1>2 DEF FramesOn
    <2>. QED
      BY <1>1, <2>1, <2>2, <2>3
  <1>7. PICK cut, X : cut = CutOut(P) /\ X = PiecesOf(V, P)
    OBVIOUS
  <1>8. cut \in SUBSET Span /\ \A q \in cut : q.end <= f.start
    <2>1. Pauses \subseteq Span
      BY PausesAreChunks DEF Walking
    <2>. QED
      BY <1>1, <1>7, <2>1 DEF CutOut, MayBegin, Passed
  <1>9. Pieces(f, cut) = {<<f.name, f.start, f.end>>} /\ LastStart(f, f.start, cut)
    <2>1. IsTimed(f)
      BY <1>1, FramesTimed DEF Walking
    <2>. QED
      BY <1>8, <2>1, WholePiece
  <1>10. PiecesOf(V \cup {id}, P) = X \cup {<<f.name, p.ts, f.end>>}
    BY <1>1, <1>3, <1>7, <1>9 DEF PiecesOf
  <1>11. PICK c : ReadBack(s \o <<p>>, n + 1, gs, c, cut, X \cup {<<f.name, p.ts, f.end>>})
    <2>1. ReadBack(s, n, fs, b, cut, X)
      BY <1>1, <1>2, <1>7 DEF ReadTo
    <2>2. LastStart(f, p.ts, cut) /\ p.kind = "Begin" /\ p.seq = TraceSequence
      BY <1>3, <1>9
    <2>3. \A d \in 1 .. n : gs[d] = fs[d]
      BY <1>6
    <2>4. gs[n + 1] = f
      BY <1>6
    <2>. QED
      <3>1. IsSeq(s)
        BY <1>5
      <3>2. LastStart(f, p.ts, cut)
        BY <2>2
      <3>3. p.kind = "Begin"
        BY <2>2
      <3>4. p.seq = TraceSequence
        BY <2>2
      <3>. QED
        BY SMTT(60), <1>4, <2>1, <2>3, <2>4, <3>1, <3>2, <3>3, <3>4, ReadBegin
  <1>12. ReadTo(V \cup {id}, P, c)'
    <2>1. PiecesOf(V \cup {id}, P)' = X \cup {<<f.name, p.ts, f.end>>} /\ CutOut(P)' = cut
      BY <1>7, <1>10 DEF PiecesOf, CutOut, Frame
    <2>. QED
      BY <1>2, <1>5, <1>6, <1>11, <2>1 DEF ReadTo
  <1>13. SampledTo(V \cup {id})'
    <2>1. PICK Y : Y = AllRates(V)
      OBVIOUS
    <2>2. Sampled(s, n, fs, Y)
      BY <1>1, <1>2, <2>1 DEF SampledTo
    <2>3. \A d \in 1 .. n : gs[d] = fs[d]
      BY <1>6
    <2>4. n \in Nat /\ gs[n + 1] = f
      BY <1>6
    <2>5. p.seq = TraceSequence /\ p.ts = f.start /\ p.value = f.start_rate
      BY <1>3
    <2>6. Sampled(s \o <<p>>, n + 1, gs, Y \cup RatesOf(f))
      BY <1>5, <2>2, <2>3, <2>4, <2>5, SampledBegin
    <2>7. AllRates(V \cup {id})' = Y \cup RatesOf(f)
      BY <1>1, <2>1 DEF AllRates, Frame
    <2>. QED
      BY <1>2, <1>5, <1>6, <2>6, <2>7 DEF SampledTo
  <1>. QED
    BY <1>12, <1>13

\* A pause, or a frame, that is a chunk of the frame on top is inside all of them.
LEMMA AdvancedInside ==
  ASSUME Walking, ProcessChunk, Inside(walk)
  PROVE  /\ Inside(Advanced)
         /\ \A d \in 1 .. Len(walk) : /\ NextChunk.end <= Due(trace.frames, Advanced[d])
                                      /\ NextChunk.end <= Frame(walk[d].frame).end
  <1>1. PICK n, w, last : n = Len(walk) /\ w = Advanced /\ last = NextChunk.end
    OBVIOUS
  <1>2. /\ n \in Nat /\ n >= 1 /\ w \in Seq(Visit) /\ Len(w) = n /\ walk \in Seq(Visit)
        /\ \A i \in 1 .. n - 1 : w[i] = walk[i]
        /\ Current = walk[n]
        /\ w[n] = [frame |-> Current.frame, next |-> Current.next + 1]
    BY <1>1, AdvancedWalks DEF Walking, ProcessChunk, InFrame
  <1>3. /\ \A d \in 1 .. n : d \in 1 .. n - 1 \/ d = n
        /\ \A d \in 1 .. n - 1 : d \in 1 .. n /\ d < n
        /\ n \in 1 .. n /\ w[n].frame = walk[n].frame
    BY <1>2
  <1>4. \A d \in 1 .. n : w[d].frame = walk[d].frame
    BY <1>2, <1>3
  <1>5. \A d, e \in 1 .. n : d < e => Frame(walk[e].frame).end <= Due(trace.frames, walk[d])
    BY <1>1 DEF Inside
  <1>6. \A d, e \in 1 .. n : d < e => d \in 1 .. n - 1
    BY <1>2
  <1>7. Inside(w)
    BY <1>2, <1>4, <1>5, <1>6 DEF Inside
  <1>8. /\ last \in Nat /\ last <= Due(trace.frames, w[n])
    BY <1>1, TopChunk
  <1>9. \A d \in 1 .. n : /\ Due(trace.frames, w[d]) \in Nat /\ Frame(walk[d].frame).end \in Nat
                          /\ Due(trace.frames, w[d]) <= Frame(walk[d].frame).end
    <2>1. trace \in Traces /\ \A d \in 1 .. n : w[d] \in Visit
      BY <1>2 DEF Walking
    <2>. QED
      BY <1>4, <2>1, DueInFrame DEF Frame
  <1>10. ASSUME NEW d \in 1 .. n
         PROVE  last <= Due(trace.frames, w[d])
    <2>1. CASE d = n
      BY <1>8, <2>1
    <2>2. CASE d \in 1 .. n - 1
      <3>1. Frame(walk[n].frame).end <= Due(trace.frames, w[d])
        BY <1>2, <1>3, <1>5, <2>2
      <3>2. last <= Frame(walk[n].frame).end
        BY <1>3, <1>8, <1>9
      <3>. QED
        BY <1>3, <1>8, <1>9, <3>1, <3>2
    <2>. QED
      BY <1>3, <2>1, <2>2
  <1>11. \A d \in 1 .. n : last <= Frame(walk[d].frame).end
    BY <1>8, <1>9, <1>10
  <1>. QED
    BY <1>1, <1>7, <1>10, <1>11

\* A pause is passed.
LEMMA PauseExplored ==
  ASSUME Walking, PausesTakeTime, ProcessChunk, NextChunk.kind = "Pause", walk' = Advanced,
         NEW V, NEW P, Explored(V, P), Elapsed(V, P, Due(trace.frames, walk[Len(walk)])),
         NEW p, p = [start |-> NextChunk.start, end |-> NextChunk.end]
  PROVE  /\ p \in Pauses
         /\ Explored(V, P \cup {p})'
         /\ Elapsed(V, P \cup {p}, Due(trace.frames, walk[Len(walk)]))'
  <1>1. PICK n, w, Q : n = Len(walk) /\ w = Advanced /\ Q = P \cup {p}
    OBVIOUS
  <1>2. trace' = trace /\ phase = "frames" /\ phase' = "frames" /\ trace \in Traces
    BY DEF ProcessChunk, InFrame, Unshared, Walking
  <1>3. p \in Pauses
    <2>1. /\ Current.next \in 1 .. Len(CurrentFrame.chunks)
          /\ NextChunk = Frame(Current.frame).chunks[Current.next]
          /\ CurrentFrame = Frame(Current.frame)
      BY ChunkType DEF ProcessChunk, InFrame, NextChunk, CurrentFrame
    <2>2. Current.frame \in DOMAIN trace.frames
      BY AdvancedWalks DEF ProcessChunk, InFrame, Walking, Visit
    <2>. QED
      BY <1>2, <2>1, <2>2, PausesAreChunks
  <1>4. Handled(NextChunk, V, Q)
    BY <1>1 DEF Handled
  <1>5. /\ Len(w) = n /\ w \in Seq(Visit) /\ \A d \in 1 .. n : w[d].frame = walk[d].frame
        /\ \A id \in V : \A i \in 1 .. Len(Frame(id).chunks) :
             Handled(Frame(id).chunks[i], V, Q) \/ Waiting(w, id, i)
    <2>1. V \subseteq V /\ P \subseteq Q
      BY <1>1
    <2>2. /\ Len(Advanced) = Len(walk) /\ Advanced \in Seq(Visit)
          /\ \A d \in 1 .. Len(walk) : Advanced[d].frame = walk[d].frame
          /\ \A id \in V : \A i \in 1 .. Len(Frame(id).chunks) :
               Handled(Frame(id).chunks[i], V, Q) \/ Waiting(Advanced, id, i)
      BY <1>4, <2>1, AdvancedWaits
    <2>. QED
      BY <1>1, <2>2
  <1>6. /\ V \subseteq DOMAIN trace.frames /\ P \subseteq Pauses /\ trace.root \in V
        /\ \A d \in 1 .. n : walk[d].frame \in V
    BY <1>1, <1>2 DEF Explored
  <1>7. Explored(V, Q)'
    <2>1. (Q \subseteq Pauses)'
      <3>1. Pauses' = Pauses
        BY <1>2 DEF Pauses
      <3>2. Q \subseteq Pauses
        BY <1>1, <1>3, <1>6
      <3>. QED
        BY <3>1, <3>2
    <2>2. (\A d \in 1 .. Len(walk) : walk[d].frame \in V)'
      BY <1>1, <1>5, <1>6
    <2>3. (\A x \in V : \A i \in 1 .. Len(Frame(x).chunks) :
             Handled(Frame(x).chunks[i], V, Q) \/ Waiting(walk, x, i))'
      BY <1>1, <1>2, <1>5 DEF Frame
    <2>. QED
      BY <1>2, <1>6, <2>1, <2>2, <2>3 DEF Explored
  <1>8. PICK old, now : old = Due(trace.frames, walk[n]) /\ now = Due(trace.frames, w[n])
    OBVIOUS
  <1>9. old \in Nat /\ now \in Nat /\ old <= now /\ p.end \in Nat /\ p.end <= now
    <2>1. /\ NextChunk.start \in Nat /\ NextChunk.end \in Nat /\ NextChunk.start <= NextChunk.end
          /\ old = NextChunk.start /\ NextChunk.end <= now /\ now \in Nat
      BY <1>1, <1>8, TopChunk
    <2>2. p.end = NextChunk.end
      OBVIOUS
    <2>. QED
      BY <2>1, <2>2
  <1>10. /\ \A x \in V : Frame(x).start \in Nat /\ Frame(x).end \in Nat
         /\ \A q \in P : q.end \in Nat
    <2>1. \A x \in DOMAIN trace.frames : Frame(x).start \in Nat /\ Frame(x).end \in Nat
      BY <1>2, FramesTimed DEF IsTimed
    <2>2. Pauses \subseteq Span
      BY <1>2, PausesAreChunks
    <2>. QED
      BY <1>6, <2>1, <2>2 DEF Span
  <1>11. Passed(V, P, old) /\ Inside(walk)
    BY <1>1, <1>8 DEF Elapsed
  <1>12. /\ \A q \in Q : q.end <= now
         /\ \A x \in V : Frame(x).end <= now \/ \E d \in 1 .. n : w[d].frame = x
         /\ \A d \in 1 .. n : Frame(w[d].frame).start <= now
    <2>1. \A q \in Q : q.end <= now
      BY <1>1, <1>9, <1>10, <1>11 DEF Passed
    <2>2. \A x \in V : Frame(x).end <= now \/ \E d \in 1 .. n : w[d].frame = x
      <3>1. ASSUME NEW x \in V
            PROVE  Frame(x).end <= now \/ \E d \in 1 .. n : w[d].frame = x
        <4>1. Frame(x).end <= old \/ \E d \in 1 .. n : walk[d].frame = x
          BY <1>1, <1>11 DEF Passed
        <4>2. Frame(x).end <= old => Frame(x).end <= now
          BY <1>9, <1>10
        <4>. QED
          BY <1>5, <4>1, <4>2
      <3>. QED
        BY <3>1
    <2>3. \A d \in 1 .. n : Frame(w[d].frame).start <= now
      <3>1. ASSUME NEW d \in 1 .. n
            PROVE  Frame(w[d].frame).start <= now
        <4>1. w[d].frame = walk[d].frame /\ walk[d].frame \in V
          BY <1>5, <1>6
        <4>2. Frame(walk[d].frame).start <= old
          BY <1>1, <1>11 DEF Passed
        <4>. QED
          BY <1>9, <1>10, <4>1, <4>2
      <3>. QED
        BY <3>1
    <2>. QED
      BY <2>1, <2>2, <2>3
  <1>13. Inside(w)
    BY <1>1, <1>11, AdvancedInside
  <1>14. Elapsed(V, Q, Due(trace.frames, walk[Len(walk)]))'
    <2>1. walk' = w /\ Len(w) = n
      BY <1>1, <1>5
    <2>2. Passed(V, Q, Due(trace.frames, walk[Len(walk)]))'
      BY <1>2, <1>8, <1>12, <2>1 DEF Passed, Frame
    <2>3. Inside(walk)'
      BY <1>2, <1>13, <2>1 DEF Inside, Frame
    <2>. QED
      BY <2>2, <2>3 DEF Elapsed
  <1>. QED
    BY <1>1, <1>3, <1>7, <1>14

\* The pieces are cut.
LEMMA GapCuts ==
  ASSUME Walking, PausesTakeTime, ProcessChunk, NextChunk.kind = "Pause", renderPauses = "Gap",
         NEW V, NEW P, NEW b, Explored(V, P), Elapsed(V, P, Due(trace.frames, walk[Len(walk)])),
         ReadTo(V, P, b),
         NEW p \in Pauses, p.start = NextChunk.start, p.end = NextChunk.end
  PROVE  CutAt(Stream, Len(walk), FramesOn, b, PiecesOf(V, P), p.start, p.end,
               P \cup {p}, PiecesOf(V, P \cup {p}))
  <1>1. PICK n, s, fs, X, Q, Z : /\ n = Len(walk) /\ s = Stream /\ fs = FramesOn
                                 /\ X = PiecesOf(V, P) /\ Q = P \cup {p} /\ Z = PiecesOf(V, Q)
    OBVIOUS
  <1>2. trace \in Traces /\ phase = "frames"
    BY DEF ProcessChunk, InFrame, Walking
  <1>3. /\ P \in SUBSET Span /\ p \in Span /\ p.start \in Nat /\ p.end \in Nat /\ p.start < p.end
    <2>1. Pauses \subseteq Span /\ P \subseteq Pauses
      BY <1>2, PausesAreChunks DEF Explored
    <2>. QED
      BY <2>1 DEF Span
  <1>4. /\ \A x : x \in X <=> \E id \in V : x \in Pieces(Frame(id), P)
        /\ \A x : x \in Z <=> \E id \in V : x \in Pieces(Frame(id), Q)
    BY <1>1 DEF PiecesOf, CutOut
  <1>5. \A id \in V : IsTimed(Frame(id))
    BY <1>2, FramesTimed DEF Explored
  <1>6. Passed(V, P, p.start) /\ Inside(walk)
    BY TopChunk DEF Elapsed
  <1>7. \A d \in 1 .. n : /\ walk[d].frame \in V /\ fs[d] = Frame(walk[d].frame)
                          /\ fs[d].start <= p.start /\ p.end <= fs[d].end
    <2>1. \A d \in 1 .. n : walk[d].frame \in V /\ fs[d] = Frame(walk[d].frame)
      BY <1>1 DEF Explored, FramesOn
    <2>2. \A d \in 1 .. n : Frame(walk[d].frame).start <= p.start
      BY <1>1, <1>6 DEF Passed
    <2>3. \A d \in 1 .. n : NextChunk.end <= Frame(walk[d].frame).end
      BY <1>1, <1>6, AdvancedInside
    <2>. QED
      BY <2>1, <2>2, <2>3
  <1>8. \A q \in P : q.end <= p.start
    BY <1>6 DEF Passed
  <1>9. ASSUME NEW x \in X, x[3] <= p.start
        PROVE  x \in Z
    <2>1. PICK id \in V : x \in Pieces(Frame(id), P)
      BY <1>4
    <2>2. x \in Pieces(Frame(id), P \cup {p})
      BY <1>3, <1>5, <1>9, <2>1, PieceKept
    <2>. QED
      BY <1>1, <1>4, <2>2
  <1>10. ASSUME NEW d \in 1 .. n
         PROVE  /\ <<fs[d].name, s[b[d]].ts, p.start>> \in Pieces(fs[d], Q)
                /\ LastStart(fs[d], p.end, Q)
                /\ \A x \in Pieces(fs[d], Q) : \/ x \in Pieces(fs[d], P) /\ x[3] <= p.start
                                               \/ x = <<fs[d].name, s[b[d]].ts, p.start>>
                                               \/ x = <<fs[d].name, p.end, fs[d].end>>
    <2>1. PICK f, o : f = fs[d] /\ o = s[b[d]].ts
      OBVIOUS
    <2>2. LastStart(f, o, P)
      <3>1. CutOut(P) = P
        BY DEF CutOut
      <3>. QED
        BY <1>1, <2>1, <3>1 DEF ReadTo, ReadBack, NamedSlices
    <2>3. IsTimed(f) /\ f.start <= p.start /\ p.end <= f.end
      BY <1>5, <1>7, <2>1
    <2>4. /\ <<f.name, o, p.start>> \in Pieces(f, P \cup {p})
          /\ LastStart(f, p.end, P \cup {p})
          /\ \A x \in Pieces(f, P \cup {p}) : \/ x \in Pieces(f, P) /\ x[3] <= p.start
                                              \/ x = <<f.name, o, p.start>>
                                              \/ x = <<f.name, p.end, f.end>>
      <3>1. IsTimed(f)
        BY <2>3
      <3>2. P \in SUBSET Span
        BY <1>3
      <3>3. p \in Span
        BY <1>3
      <3>4. f.start <= p.start
        BY <2>3
      <3>5. p.end <= f.end
        BY <2>3
      <3>. QED
        BY <1>8, <2>2, <3>1, <3>2, <3>3, <3>4, <3>5, PieceCut
    <2>. QED
      BY <1>1, <2>1, <2>4
  <1>11. ASSUME NEW d \in 1 .. n
         PROVE  /\ <<fs[d].name, s[b[d]].ts, p.start>> \in Z /\ LastStart(fs[d], p.end, Q)
                /\ ~(fs[d].end <= p.start)
    <2>1. fs[d].end \in Nat
      BY <1>5, <1>7 DEF IsTimed
    <2>. QED
      BY <1>3, <1>4, <1>7, <1>10, <2>1
  <1>12. ASSUME NEW x \in Z
         PROVE  \/ x \in X /\ x[3] <= p.start
                \/ \E d \in 1 .. n : \/ x = <<fs[d].name, s[b[d]].ts, p.start>>
                                     \/ x = <<fs[d].name, p.end, fs[d].end>>
    <2>1. PICK id \in V : x \in Pieces(Frame(id), Q)
      BY <1>4
    <2>2. CASE \E d \in 1 .. n : walk[d].frame = id
      <3>1. PICK d \in 1 .. n : walk[d].frame = id
        BY <2>2
      <3>2. x \in Pieces(fs[d], Q) /\ fs[d] = Frame(id)
        BY <1>7, <2>1, <3>1
      <3>3. \/ x \in Pieces(fs[d], P) /\ x[3] <= p.start
            \/ x = <<fs[d].name, s[b[d]].ts, p.start>>
            \/ x = <<fs[d].name, p.end, fs[d].end>>
        BY <1>10, <3>2
      <3>. QED
        BY <1>4, <3>2, <3>3
    <2>3. CASE Frame(id).end <= p.start
      <3>1. PICK f : f = Frame(id)
        OBVIOUS
      <3>2. IsTimed(f) /\ f.end <= p.start
        BY <1>5, <2>3, <3>1
      <3>3. Pieces(f, P \cup {p}) = Pieces(f, P)
        BY <1>3, <3>2, PiecesPassed
      <3>4. x \in Pieces(f, P)
        BY <1>1, <2>1, <3>1, <3>3
      <3>5. PICK a \in Starts(f, P), e \in Ends(f, P) : x = <<f.name, a, e>>
        BY <3>4, PieceIs
      <3>6. e \in Nat /\ e <= f.end
        BY <1>3, <3>2, PointsOfTime
      <3>7. x[3] = e /\ f.end \in Nat
        BY <3>2, <3>5 DEF IsTimed
      <3>. QED
        BY <1>3, <1>4, <3>1, <3>2, <3>4, <3>6, <3>7
    <2>. QED
      BY <1>1, <1>6, <2>2, <2>3 DEF Passed
  <1>13. CutAt(s, n, fs, b, X, p.start, p.end, Q, Z)
    BY <1>9, <1>11, <1>12 DEF CutAt
  <1>. QED
    BY <1>1, <1>13

\* At a pause.
LEMMA PauseRead ==
  ASSUME Walking, Timely, PausesTakeTime, ProcessChunk, NextChunk.kind = "Pause",
         RenderGap(NextChunk),
         NEW V, NEW P, NEW b, Explored(V, P), Elapsed(V, P, Due(trace.frames, walk[Len(walk)])),
         ReadTo(V, P, b), SampledTo(V),
         NEW p \in Pauses, p.start = NextChunk.start, p.end = NextChunk.end
  PROVE  (\E c : ReadTo(V, P \cup {p}, c)') /\ SampledTo(V)'
  <1>1. PICK n, s, fs, gs : n = Len(walk) /\ s = Stream /\ fs = FramesOn /\ gs = FramesOn'
    OBVIOUS
  <1>2. PICK t : t = outbox'
    OBVIOUS
  <1>3. /\ outbox = <<>> /\ sent' = sent /\ trace' = trace /\ renderPauses' = renderPauses
        /\ walk' = Advanced /\ walk \in Seq(Visit) /\ walk # <<>> /\ phase = "frames"
        /\ trace \in Traces
    BY DEF ProcessChunk, InFrame, Ready, Unshared, RenderGap, Walking
  <1>4. /\ n \in Nat /\ Len(walk') = n /\ \A d \in 1 .. n : walk'[d].frame = walk[d].frame
    <2>1. Handled(NextChunk, V, P \cup {[start |-> NextChunk.start, end |-> NextChunk.end]})
      BY DEF Handled
    <2>2. PICK Q : Q = P \cup {[start |-> NextChunk.start, end |-> NextChunk.end]}
      OBVIOUS
    <2>3. Handled(NextChunk, V, Q) /\ V \subseteq V /\ P \subseteq Q
      BY <2>1, <2>2
    <2>4. /\ Len(Advanced) = Len(walk)
          /\ \A d \in 1 .. Len(walk) : Advanced[d].frame = walk[d].frame
      BY <2>3, AdvancedWaits
    <2>5. Len(walk) \in Nat
      BY <1>3
    <2>. QED
      BY <1>1, <1>3, <2>4, <2>5
  <1>5. gs = fs /\ \A d \in 1 .. n : gs[d] = fs[d] /\ fs[d] = Frame(walk[d].frame)
    <2>1. gs = [d \in 1 .. n |-> Frame(walk[d].frame)]
      BY <1>1, <1>3, <1>4 DEF FramesOn, Frame
    <2>2. fs = [d \in 1 .. n |-> Frame(walk[d].frame)]
      BY <1>1 DEF FramesOn
    <2>. QED
      BY <2>1, <2>2
  <1>6. IsSeq(s) /\ Stream' = s \o t
    BY <1>1, <1>2, <1>3, StreamTypes DEF Stream, IsSeq
  <1>7. PICK X, Z, cut, also : X = PiecesOf(V, P) /\ Z = PiecesOf(V, P \cup {p})
                               /\ cut = CutOut(P) /\ also = CutOut(P \cup {p})
    OBVIOUS
  <1>8. PiecesOf(V, P \cup {p})' = Z /\ CutOut(P \cup {p})' = also
    BY <1>3, <1>7 DEF PiecesOf, CutOut, Frame
  <1>9. ReadBack(s, n, fs, b, cut, X)
    BY <1>1, <1>7 DEF ReadTo
  <1>10. (\E c : ReadBack(s \o t, n, fs, c, also, Z)) /\ IsSeq(t)
         /\ \A i \in 1 .. Len(t) : t[i].value = {}
    <2>1. CASE renderPauses = "Gap" /\ outbox' = GapPackets(NextChunk)
      <3>1. PICK start, end : start = NextChunk.start /\ end = NextChunk.end
        OBVIOUS
      <3>2. PICK x, y :
              /\ x = [i \in 1 .. n |-> SliceEnd(TraceSequence, start, {})]
              /\ y = [i \in 1 .. n |-> SliceBegin(TraceSequence, end, {},
                                                  FrameStrings(Frame(walk[i].frame), tables), {})]
        OBVIOUS
      <3>3. t = x \o y
        BY <1>1, <1>2, <2>1, <3>1, <3>2 DEF GapPackets
      <3>4. IsSeq(x) /\ Len(x) = n /\ IsSeq(y) /\ Len(y) = n
        BY <1>4, <3>2, FunctionIsSeq
      <3>5. /\ IsSeq(t) /\ Len(t) = n + n
            /\ \A i \in 1 .. n : t[i] = x[i]
            /\ \A i \in 1 .. n : t[n + i] = y[i]
        <4>1. IsSeq(x)
          BY <3>4
        <4>2. IsSeq(y)
          BY <3>4
        <4>3. /\ IsSeq(x \o y) /\ Len(x \o y) = Len(x) + Len(y)
              /\ \A i \in 1 .. Len(x) : (x \o y)[i] = x[i]
              /\ \A i \in 1 .. Len(y) : (x \o y)[Len(x) + i] = y[i]
          BY <4>1, <4>2, Joined
        <4>. QED
          BY <3>3, <3>4, <4>3
      <3>6. \A i \in 1 .. n : /\ t[i].kind = "End" /\ t[i].seq = TraceSequence /\ t[i].ts = start
                              /\ t[i].value = {}
        BY <3>2, <3>5 DEF SliceEnd, Packet
      <3>7. \A i \in 1 .. n : /\ t[n + i].kind = "Begin" /\ t[n + i].seq = TraceSequence
                              /\ t[n + i].ts = end /\ t[n + i].value = {}
                              /\ t[n + i].uses = FrameStrings(Frame(walk[i].frame), tables)
        BY <3>2, <3>5 DEF SliceBegin, Packet
      <3>8. ASSUME NEW i \in n + 1 .. n + n
            PROVE  /\ t[i].kind = "Begin" /\ t[i].seq = TraceSequence /\ t[i].ts = end
                   /\ t[i].value = {}
        <4>1. i - n \in 1 .. n /\ n + (i - n) = i
          BY <1>4
        <4>2. PICK k \in 1 .. n : n + k = i
          BY <4>1
        <4>. QED
          BY <3>7, <4>2
      <3>9. \A d \in 1 .. n : NameOf(t[n + d]) = fs[d].name
        BY <1>5, <3>7, FrameName
      <3>10. EndsAndResumes(t, n, start, end, fs)
        BY <3>5, <3>6, <3>8, <3>9 DEF EndsAndResumes
      <3>11. NotAfter(s, start)
        <4>1. Due(trace.frames, walk[Len(walk)]) = NextChunk.start
          BY TopChunk
        <4>2. NotAfter(Stream, Due(trace.frames, walk[Len(walk)]))
          BY <1>3 DEF Timely
        <4>. QED
          BY <1>1, <3>1, <4>1, <4>2
      <3>12. CutAt(s, n, fs, b, X, start, end, also, Z)
        <4>1. also = P \cup {p}
          BY <1>7, <2>1 DEF CutOut
        <4>2. CutAt(Stream, Len(walk), FramesOn, b, PiecesOf(V, P), p.start, p.end,
                    P \cup {p}, PiecesOf(V, P \cup {p}))
          BY <2>1, GapCuts
        <4>. QED
          BY <1>1, <1>7, <3>1, <4>1, <4>2
      <3>13. \E c : ReadBack(s \o t, n, fs, c, also, Z)
        BY <1>6, <1>9, <3>10, <3>11, <3>12, ReadGap
      <3>14. \A i \in 1 .. Len(t) : i \in 1 .. n \/ i \in n + 1 .. n + n
        BY <1>4, <3>5
      <3>. QED
        BY <3>5, <3>6, <3>8, <3>13, <3>14
    <2>2. CASE /\ renderPauses = "Block"
               /\ outbox' = BlockPackets(NextChunk, tables'.events)
      <3>1. PICK events : events = tables'.events
        OBVIOUS
      <3>2. PICK x, y : /\ x = SliceBegin(TraceSequence, NextChunk.start,
                                          Gained("events", tables.events, events),
                                          References("events", events, <<PauseName>>), {})
                        /\ y = SliceEnd(TraceSequence, NextChunk.end, {})
        OBVIOUS
      <3>3. t = <<x, y>>
        BY <1>2, <2>2, <3>1, <3>2 DEF BlockPackets
      <3>4. /\ x.kind = "Begin" /\ x.seq = TraceSequence /\ x.ts = p.start /\ x.value = {}
            /\ x.uses = References("events", events, <<PauseName>>)
            /\ y.kind = "End" /\ y.seq = TraceSequence /\ y.ts = p.end /\ y.value = {}
        BY <3>2 DEF SliceBegin, SliceEnd, Packet
      <3>5. NameOf(x) = PauseName
        BY <3>4, PauseNameIs
      <3>6. cut = {} /\ also = {} /\ Z = X \cup {<<NameOf(x), x.ts, y.ts>>}
        BY <1>7, <2>2, <3>4, <3>5 DEF CutOut, PiecesOf
      <3>7. \E c : ReadBack(s \o <<x, y>>, n, fs, c, {}, X \cup {<<NameOf(x), x.ts, y.ts>>})
        <4>1. IsSeq(s)
          BY <1>6
        <4>2. ReadBack(s, n, fs, b, {}, X)
          BY <1>9, <3>6
        <4>3. x.kind = "Begin" /\ x.seq = TraceSequence
          BY <3>4
        <4>4. y.kind = "End" /\ y.seq = TraceSequence
          BY <3>4
        <4>. QED
          BY <4>1, <4>2, <4>3, <4>4, ReadBlock
      <3>8. IsSeq(t) /\ \A i \in 1 .. Len(t) : t[i].value = {}
        <4>1. <<x, y>> \in Seq({x, y}) /\ Len(<<x, y>>) = 2 /\ <<x, y>>[1] = x /\ <<x, y>>[2] = y
          OBVIOUS
        <4>2. \A i \in 1 .. 2 : i = 1 \/ i = 2
          OBVIOUS
        <4>. QED
          BY <3>3, <3>4, <4>1, <4>2 DEF IsSeq
      <3>. QED
        BY <3>3, <3>6, <3>7, <3>8
    <2>. QED
      BY <2>1, <2>2 DEF RenderGap
  <1>11. PICK c : ReadBack(s \o t, n, fs, c, also, Z)
    BY <1>10
  <1>12. ReadTo(V, P \cup {p}, c)'
    BY <1>1, <1>4, <1>5, <1>6, <1>8, <1>11 DEF ReadTo
  <1>13. SampledTo(V)'
    <2>1. PICK Y : Y = AllRates(V)
      OBVIOUS
    <2>2. Sampled(s, n, fs, Y)
      BY <1>1, <2>1 DEF SampledTo
    <2>3. \A d \in 1 .. n : fs[d] = fs[d]
      OBVIOUS
    <2>4. IsSeq(t)
      BY <1>10
    <2>5. IsSeq(s)
      BY <1>6
    <2>6. \A i \in 1 .. Len(t) : t[i].value = {}
      BY <1>10
    <2>7. Sampled(s \o t, n, fs, Y)
      BY <2>2, <2>3, <2>4, <2>5, <2>6, SampledNeutral
    <2>8. AllRates(V)' = Y
      BY <1>3, <2>1 DEF AllRates, Frame
    <2>. QED
      BY <1>1, <1>4, <1>5, <1>6, <2>7, <2>8 DEF SampledTo
  <1>. QED
    BY <1>12, <1>13

\* The walk when a frame ends.
LEMMA EndWalk ==
  ASSUME Walking, EndFrame
  PROVE  /\ Len(walk) \in Nat /\ Len(walk) >= 1 /\ walk' \in Seq(Visit)
         /\ Len(walk') = Len(walk) - 1 /\ \A d \in 1 .. Len(walk) - 1 : walk'[d] = walk[d]
         /\ Current = walk[Len(walk)] /\ walk[Len(walk)] \in Visit
         /\ phase' = IF Len(walk) = 1 THEN "events" ELSE "frames"
  BY FrontWalks, AdvancedWalks DEF Walking, EndFrame, InFrame

LEMMA EndExplored ==
  ASSUME Walking, EndFrame, ~stop, NEW V, NEW P, Explored(V, P),
         Elapsed(V, P, Due(trace.frames, walk[Len(walk)]))
  PROVE  /\ Explored(V, P)'
         /\ phase' = "frames" => Elapsed(V, P, Due(trace.frames, walk[Len(walk)]))'
  <1>1. PICK n, w, top : n = Len(walk) /\ w = walk' /\ top = walk[n]
    OBVIOUS
  <1>2. /\ n \in Nat /\ n >= 1 /\ w \in Seq(Visit) /\ Len(w) = n - 1
        /\ \A d \in 1 .. n - 1 : w[d] = walk[d]
        /\ Current = top /\ top \in Visit
        /\ phase' = IF n = 1 THEN "events" ELSE "frames"
    BY <1>1, EndWalk
  <1>3. /\ trace' = trace /\ trace \in Traces /\ phase = "frames"
        /\ ~(top.next <= Len(Frame(top.frame).chunks))
    <2>1. trace' = trace /\ trace \in Traces /\ phase = "frames"
      BY DEF EndFrame, InFrame, Unshared, Walking
    <2>2. top.next > Len(Frame(top.frame).chunks)
      BY <1>2 DEF EndFrame, CurrentFrame
    <2>3. Len(Frame(top.frame).chunks) \in Nat /\ top.next \in Nat
      <3>1. top.frame \in DOMAIN trace.frames /\ top.next \in Nat
        BY <1>2 DEF Visit
      <3>2. Frame(top.frame).chunks \in Seq(Chunk)
        BY <2>1, <3>1, TracesAssumption DEF IsFrame, Frame
      <3>. QED
        BY <3>1, <3>2
    <2>. QED
      BY <2>1, <2>2, <2>3
  <1>4. /\ \A d \in 1 .. n : d \in 1 .. n - 1 \/ d = n
        /\ \A d \in 1 .. n - 1 : d \in 1 .. n /\ d < n
        /\ n \in 1 .. n
    BY <1>2
  <1>5. ASSUME NEW x \in V, NEW i \in 1 .. Len(Frame(x).chunks)
        PROVE  Handled(Frame(x).chunks[i], V, P) \/ Waiting(w, x, i)
    <2>1. Handled(Frame(x).chunks[i], V, P) \/ Waiting(walk, x, i)
      BY DEF Explored
    <2>2. CASE Waiting(walk, x, i)
      <3>1. PICK d \in 1 .. n : walk[d].frame = x /\ walk[d].next <= i
        BY <1>1, <2>2 DEF Waiting
      <3>2. CASE d \in 1 .. n - 1
        BY <1>2, <3>1, <3>2 DEF Waiting
      <3>3. CASE d = n
        <4>1. top.next <= i /\ i <= Len(Frame(top.frame).chunks) /\ i \in Nat
              /\ top.next \in Nat /\ Len(Frame(top.frame).chunks) \in Nat
          <5>1. top.frame = x /\ top.next <= i /\ top.next \in Nat
            BY <1>1, <1>2, <3>1, <3>3 DEF Visit
          <5>2. Frame(x).chunks \in Seq(Chunk)
            BY <1>3, TracesAssumption DEF IsFrame, Frame, Explored
          <5>3. Len(Frame(x).chunks) \in Nat
            BY <5>2
          <5>. QED
            BY <5>1, <5>3
        <4>. QED
          BY <1>3, <4>1
      <3>. QED
        BY <1>4, <3>2, <3>3
    <2>. QED
      BY <2>1, <2>2
  <1>6. /\ V \subseteq DOMAIN trace.frames /\ P \subseteq Pauses /\ trace.root \in V
        /\ \A d \in 1 .. n : walk[d].frame \in V
    BY <1>1, <1>3 DEF Explored
  <1>7. Explored(V, P)'
    <2>1. (P \subseteq Pauses)'
      <3>1. Pauses' = Pauses
        BY <1>3 DEF Pauses
      <3>. QED
        BY <1>6, <3>1
    <2>2. (\A d \in 1 .. Len(walk) : walk[d].frame \in V)'
      BY <1>1, <1>2, <1>4, <1>6
    <2>3. (\A x \in V : \A i \in 1 .. Len(Frame(x).chunks) :
             Handled(Frame(x).chunks[i], V, P) \/ Waiting(walk, x, i))'
      BY <1>1, <1>3, <1>5 DEF Frame
    <2>4. ~(phase' \in {"setup", "header", "root"})
      BY <1>2
    <2>. QED
      BY <1>3, <1>6, <2>1, <2>2, <2>3, <2>4 DEF Explored
  <1>8. ASSUME phase' = "frames"
        PROVE  Elapsed(V, P, Due(trace.frames, walk[Len(walk)]))'
    <2>1. n - 1 \in 1 .. n - 1 /\ n - 1 \in 1 .. n /\ n - 1 < n
      BY <1>2, <1>8
    <2>2. PICK old, now : old = Due(trace.frames, top) /\ now = Due(trace.frames, w[n - 1])
      OBVIOUS
    <2>3. Passed(V, P, old) /\ Inside(walk)
      BY <1>1, <2>2 DEF Elapsed
    <2>4. old = Frame(top.frame).end
      BY <1>3, <2>2 DEF Due, Frame
    <2>5. old <= now
      BY <1>1, <1>2, <1>4, <2>1, <2>2, <2>3, <2>4 DEF Inside
    <2>6. old \in Nat /\ now \in Nat
      <3>1. w[n - 1] \in Visit
        BY <1>2, <2>1
      <3>. QED
        BY <1>2, <1>3, <2>2, <3>1, DueInFrame
    <2>7. /\ \A x \in V : Frame(x).start \in Nat /\ Frame(x).end \in Nat
          /\ \A q \in P : q.end \in Nat
      <3>1. \A x \in V : Frame(x).start \in Nat /\ Frame(x).end \in Nat
        BY <1>3, <1>6, FramesTimed DEF IsTimed
      <3>2. \A x \in DOMAIN trace.frames : \A c \in ToSet(Frame(x).chunks) : c \in Chunk
        <4>1. \A x \in DOMAIN trace.frames : Frame(x).chunks \in Seq(Chunk)
          BY <1>3, TracesAssumption DEF IsFrame, Frame
        <4>2. ASSUME NEW cs \in Seq(Chunk)
              PROVE  \A c \in ToSet(cs) : c \in Chunk
          BY DEF ToSet
        <4>. QED
          BY <4>1, <4>2
      <3>3. \A q \in Pauses : q.end \in Nat
        BY <3>2 DEF Pauses, Frame, Chunk
      <3>. QED
        BY <1>6, <3>1, <3>3
    <2>8. \A q \in P : q.end <= now
      BY <2>3, <2>5, <2>6, <2>7 DEF Passed
    <2>9. ASSUME NEW x \in V
          PROVE  Frame(x).end <= now \/ \E d \in 1 .. n - 1 : w[d].frame = x
      <3>1. CASE Frame(x).end <= old
        BY <2>5, <2>6, <2>7, <3>1
      <3>2. CASE \E d \in 1 .. n : walk[d].frame = x
        <4>1. PICK d \in 1 .. n : walk[d].frame = x
          BY <3>2
        <4>2. CASE d = n
          BY <1>1, <2>4, <2>5, <4>1, <4>2
        <4>3. CASE d \in 1 .. n - 1
          BY <1>2, <4>1, <4>3
        <4>. QED
          BY <1>4, <4>2, <4>3
      <3>. QED
        BY <1>1, <2>3, <3>1, <3>2 DEF Passed
    <2>10. ASSUME NEW d \in 1 .. n - 1
           PROVE  Frame(w[d].frame).start <= now
      <3>1. Frame(walk[d].frame).start <= old /\ walk[d].frame \in V
        BY <1>1, <1>4, <1>6, <2>3 DEF Passed
      <3>. QED
        BY <1>2, <2>5, <2>6, <2>7, <3>1
    <2>11. ASSUME NEW d \in 1 .. n - 1, NEW e \in 1 .. n - 1, d < e
           PROVE  Frame(w[e].frame).end <= Due(trace.frames, w[d])
      BY <1>1, <1>2, <1>4, <2>3, <2>11 DEF Inside
    <2>12. walk' = w /\ Len(w) = n - 1
      BY <1>1, <1>2
    <2>13. Passed(V, P, Due(trace.frames, walk[Len(walk)]))'
      BY <1>3, <2>2, <2>8, <2>9, <2>10, <2>12 DEF Passed, Frame
    <2>14. Inside(walk)'
      BY <1>3, <2>11, <2>12 DEF Inside, Frame
    <2>. QED
      BY <2>13, <2>14 DEF Elapsed
  <1>. QED
    BY <1>7, <1>8

LEMMA EndRead ==
  ASSUME Walking, PausesTakeTime, EndFrame, NEW V, NEW P, NEW b, Explored(V, P),
         ReadTo(V, P, b), SampledTo(V)
  PROVE  ReadTo(V, P, b)' /\ SampledTo(V)'
  <1>1. PICK n, s, fs, gs, f : /\ n = Len(walk) /\ s = Stream /\ fs = FramesOn /\ gs = FramesOn'
                               /\ f = CurrentFrame
    OBVIOUS
  <1>2. /\ n \in Nat /\ n >= 1 /\ Len(walk') = n - 1 /\ n \in 1 .. n
        /\ \A d \in 1 .. n - 1 : walk'[d] = walk[d] /\ d \in 1 .. n
        /\ Current = walk[n]
    BY <1>1, EndWalk
  <1>3. /\ trace' = trace /\ trace \in Traces /\ outbox = <<>> /\ sent' = sent
        /\ renderPauses' = renderPauses
    BY DEF EndFrame, InFrame, Ready, Unshared, Walking
  <1>4. PICK q : outbox' = <<q>> /\ q.kind = "End" /\ q.seq = TraceSequence /\ q.ts = f.end
                 /\ q.value = f.end_rate
    BY <1>1 DEF EndFrame, SliceEnd, Packet
  <1>5. IsSeq(s) /\ Stream' = s \o <<q>>
    BY <1>1, <1>3, <1>4, StreamTypes DEF Stream, IsSeq
  <1>6. fs[n] = f /\ \A d \in 1 .. n - 1 : gs[d] = fs[d]
    <2>1. fs = [d \in 1 .. n |-> Frame(walk[d].frame)]
      BY <1>1 DEF FramesOn
    <2>2. gs = [d \in 1 .. n - 1 |-> Frame(walk'[d].frame)]
      BY <1>1, <1>2, <1>3 DEF FramesOn, Frame
    <2>. QED
      BY <1>1, <1>2, <2>1, <2>2 DEF CurrentFrame
  <1>7. PICK cut, X, Y : cut = CutOut(P) /\ X = PiecesOf(V, P) /\ Y = AllRates(V)
    OBVIOUS
  <1>8. CutOut(P)' = cut /\ PiecesOf(V, P)' = X /\ AllRates(V)' = Y
    BY <1>3, <1>7 DEF CutOut, PiecesOf, AllRates, Frame
  <1>9. ReadBack(s, n, fs, b, cut, X) /\ Sampled(s, n, fs, Y)
    BY <1>1, <1>7 DEF ReadTo, SampledTo
  <1>10. PICK id \in V : f = Frame(id) /\ id \in DOMAIN trace.frames
    BY <1>1, <1>2 DEF Explored, CurrentFrame
  <1>11. OpenPiece(s, fs[n], b[n]) \in X
    <2>1. PICK o : o = s[b[n]].ts
      OBVIOUS
    <2>2. LastStart(f, o, cut)
      BY <1>2, <1>6, <1>9, <2>1 DEF ReadBack, NamedSlices
    <2>3. cut \in SUBSET Span
      <3>1. Pauses \subseteq Span
        BY <1>3, PausesAreChunks
      <3>. QED
        BY <1>7, <3>1 DEF Explored, CutOut
    <2>4. IsTimed(f)
      BY <1>3, <1>10, FramesTimed
    <2>5. <<f.name, o, f.end>> \in Pieces(f, cut)
      BY <2>2, <2>3, <2>4, LastPiece
    <2>. QED
      BY <1>6, <1>7, <1>10, <2>1, <2>5 DEF OpenPiece, PiecesOf
  <1>12. ReadBack(s \o <<q>>, n - 1, gs, b, cut, X)
    <2>1. q.ts = fs[n].end /\ q.kind = "End"
      BY <1>4, <1>6
    <2>2. q.seq = TraceSequence
      BY <1>4
    <2>3. \A d \in 1 .. n - 1 : gs[d] = fs[d]
      BY <1>6
    <2>4. IsSeq(s)
      BY <1>5
    <2>5. n >= 1
      BY <1>2
    <2>6. ReadBack(s, n, fs, b, cut, X)
      BY <1>9
    <2>. QED
      BY <1>11, <2>1, <2>2, <2>3, <2>4, <2>5, <2>6, ReadEnd
  <1>13. Sampled(s \o <<q>>, n - 1, gs, Y)
    <2>1. q.ts = fs[n].end /\ q.value = fs[n].end_rate
      BY <1>4, <1>6
    <2>2. q.seq = TraceSequence
      BY <1>4
    <2>3. \A d \in 1 .. n - 1 : gs[d] = fs[d]
      BY <1>6
    <2>4. IsSeq(s)
      BY <1>5
    <2>5. n >= 1 /\ n \in Nat
      BY <1>2
    <2>6. Sampled(s, n, fs, Y)
      BY <1>9
    <2>7. EndRates(fs[n]) \subseteq Y
      BY <1>6, <1>7, <1>10 DEF EndRates, AllRates, RatesOf
    <2>. QED
      BY <2>1, <2>2, <2>3, <2>4, <2>5, <2>6, <2>7, SampledEnd
  <1>. QED
    BY <1>1, <1>2, <1>5, <1>8, <1>12, <1>13 DEF ReadTo, SampledTo

-----------------------------------------------------------------------------
\* The first frame has no callers.
LEMMA RootConverted ==
  ASSUME Walking, PausesTakeTime, BeginRoot, NEW V, NEW P, NEW b, ConvertedTo(V, P, b)
  PROVE  \E W, Q, c : ConvertedTo(W, Q, c)'
  <1>1. PICK id : id = trace.root
    OBVIOUS
  <1>2. /\ id \in DOMAIN trace.frames /\ BeginFrame(id, walk) /\ phase' = "frames"
        /\ phase = "root" /\ walk = <<>>
        /\ outbox = <<>> /\ sent' = sent /\ trace' = trace /\ renderPauses' = renderPauses
    BY <1>1, TracesAssumption DEF BeginRoot, Ready, Unshared, Walking
  <1>3. Explored(V, P) /\ ReadTo(V, P, b) /\ SampledTo(V) /\ V = {} /\ P = {}
    BY <1>2 DEF ConvertedTo, Explored
  <1>4. Len(walk) = 0 /\ walk \in Seq(Visit) /\ \A d \in 1 .. Len(walk) : FALSE
    BY <1>2 DEF Walking
  <1>5. MayBegin(id, walk, V, P)
    <2>1. Inside(walk)
      BY <1>4 DEF Inside
    <2>2. Passed(V, P, Frame(id).start)
      BY <1>3, <1>4 DEF Passed
    <2>. QED
      BY <1>3, <1>4, <2>1, <2>2 DEF MayBegin
  <1>6. /\ V \subseteq DOMAIN trace.frames /\ P \subseteq Pauses
        /\ \A d \in 1 .. Len(walk) : walk[d].frame \in V
    BY <1>3, <1>4
  <1>7. trace.root \in V \cup {id}
    BY <1>1
  <1>8. trace' = trace /\ phase' = "frames" /\ outbox = <<>> /\ sent' = sent
        /\ renderPauses' = renderPauses
    BY <1>2
  <1>9. Explored(V \cup {id}, P)' /\ Elapsed(V \cup {id}, P, Due(trace.frames, walk[Len(walk)]))'
    BY <1>2, <1>5, <1>6, <1>7, BeginExplored
  <1>10. (\E c : ReadTo(V \cup {id}, P, c)') /\ SampledTo(V \cup {id})'
    BY <1>2, <1>3, <1>5, <1>6, BeginRead
  <1>11. PICK c : ReadTo(V \cup {id}, P, c)'
    BY <1>10
  <1>12. ConvertedTo(V \cup {id}, P, c)'
    BY <1>9, <1>10, <1>11 DEF ConvertedTo
  <1>. QED
    BY <1>12

\* A frame is called, or a pause passed.
LEMMA ChunkConverted ==
  ASSUME Walking, Timely, PausesTakeTime, ProcessChunk,
         NEW V, NEW P, NEW b, ConvertedTo(V, P, b)
  PROVE  \E W, Q, c : ConvertedTo(W, Q, c)'
  <1>1. /\ phase' = "frames" /\ phase = "frames"
        /\ outbox = <<>> /\ sent' = sent /\ trace' = trace /\ renderPauses' = renderPauses
    BY DEF ProcessChunk, InFrame, Ready, Unshared
  <1>2. /\ Explored(V, P) /\ ReadTo(V, P, b) /\ SampledTo(V)
        /\ Elapsed(V, P, Due(trace.frames, walk[Len(walk)]))
    BY <1>1 DEF ConvertedTo
  <1>3. Due(trace.frames, walk[Len(walk)]) = NextChunk.start
    BY TopChunk
  <1>4. CASE NextChunk.kind = "Frame" /\ BeginFrame(NextChunk.id, Advanced)
    <2>1. PICK id : id = NextChunk.id
      OBVIOUS
    <2>2. /\ id \in DOMAIN trace.frames /\ BeginFrame(id, Advanced)
          /\ Frame(id).start = NextChunk.start /\ Frame(id).end = NextChunk.end
      BY <1>4, <2>1, TopChunk DEF Frame
    <2>3. Handled(NextChunk, V \cup {id}, P)
      BY <1>4, <2>1 DEF Handled
    <2>4. /\ Len(Advanced) = Len(walk) /\ Advanced \in Seq(Visit)
          /\ \A d \in 1 .. Len(walk) : Advanced[d].frame = walk[d].frame
          /\ \A x \in V : \A i \in 1 .. Len(Frame(x).chunks) :
               Handled(Frame(x).chunks[i], V \cup {id}, P) \/ Waiting(Advanced, x, i)
      <3>1. V \subseteq V \cup {id} /\ P \subseteq P
        OBVIOUS
      <3>. QED
        BY <1>2, <2>3, <3>1, AdvancedWaits
    <2>5. /\ Inside(Advanced)
          /\ \A d \in 1 .. Len(walk) : NextChunk.end <= Due(trace.frames, Advanced[d])
      <3>1. Inside(walk)
        BY <1>2 DEF Elapsed
      <3>. QED
        BY <3>1, AdvancedInside
    <2>6. Passed(V, P, Frame(id).start)
      BY <1>2, <1>3, <2>2 DEF Elapsed
    <2>7. MayBegin(id, Advanced, V, P)
      BY <2>2, <2>4, <2>5, <2>6 DEF MayBegin
    <2>8. /\ V \subseteq DOMAIN trace.frames /\ P \subseteq Pauses
          /\ \A d \in 1 .. Len(walk) : walk[d].frame \in V
      BY <1>2 DEF Explored
    <2>9. trace.root \in V \cup {id}
      BY <1>1, <1>2 DEF Explored
    <2>10. Explored(V \cup {id}, P)'
           /\ Elapsed(V \cup {id}, P, Due(trace.frames, walk[Len(walk)]))'
      BY <1>1, <2>2, <2>7, <2>8, <2>9, BeginExplored
    <2>11. (\E c : ReadTo(V \cup {id}, P, c)') /\ SampledTo(V \cup {id})'
      BY <1>1, <1>2, <2>2, <2>7, <2>8, BeginRead
    <2>12. PICK c : ReadTo(V \cup {id}, P, c)'
      BY <2>11
    <2>13. ConvertedTo(V \cup {id}, P, c)'
      BY <2>10, <2>11, <2>12 DEF ConvertedTo
    <2>. QED
      BY <2>13
  <1>5. CASE NextChunk.kind = "Pause" /\ RenderGap(NextChunk)
    <2>1. PICK p : p = [start |-> NextChunk.start, end |-> NextChunk.end]
      OBVIOUS
    <2>2. walk' = Advanced /\ p.start = NextChunk.start /\ p.end = NextChunk.end
      BY <1>5, <2>1 DEF RenderGap
    <2>3. /\ p \in Pauses
          /\ Explored(V, P \cup {p})'
          /\ Elapsed(V, P \cup {p}, Due(trace.frames, walk[Len(walk)]))'
      BY <1>2, <1>5, <2>1, <2>2, PauseExplored
    <2>4. (\E c : ReadTo(V, P \cup {p}, c)') /\ SampledTo(V)'
      BY <1>2, <1>5, <2>2, <2>3, PauseRead
    <2>5. PICK c : ReadTo(V, P \cup {p}, c)'
      BY <2>4
    <2>6. ConvertedTo(V, P \cup {p}, c)'
      BY <2>3, <2>4, <2>5 DEF ConvertedTo
    <2>. QED
      BY <2>6
  <1>. QED
    BY <1>4, <1>5 DEF ProcessChunk

\* A frame ends.
LEMMA EndConverted ==
  ASSUME Walking, PausesTakeTime, EndFrame, ~stop, NEW V, NEW P, NEW b, ConvertedTo(V, P, b)
  PROVE  ConvertedTo(V, P, b)'
  <1>1. phase = "frames"
    BY DEF EndFrame, InFrame
  <1>2. /\ Explored(V, P) /\ ReadTo(V, P, b) /\ SampledTo(V)
        /\ Elapsed(V, P, Due(trace.frames, walk[Len(walk)]))
    BY <1>1 DEF ConvertedTo
  <1>3. /\ Explored(V, P)'
        /\ phase' = "frames" => Elapsed(V, P, Due(trace.frames, walk[Len(walk)]))'
    BY <1>2, EndExplored
  <1>4. ReadTo(V, P, b)' /\ SampledTo(V)'
    BY <1>2, EndRead
  <1>. QED
    BY <1>3, <1>4 DEF ConvertedTo

\* What is sent before and after the frames.
LEMMA NeutralConverted ==
  ASSUME Walking, walk = <<>>, walk' = walk, outbox = <<>>, sent' = sent, trace' = trace,
         renderPauses' = renderPauses, phase' # "frames",
         IsSeq(outbox'),
         \A i \in 1 .. Len(outbox') : /\ outbox'[i].value = {}
                                      /\ \/ outbox'[i].seq # TraceSequence
                                         \/ outbox'[i].kind \notin {"Begin", "End"},
         NEW V, NEW P, NEW b, ConvertedTo(V, P, b), Explored(V, P)'
  PROVE  ConvertedTo(V, P, b)'
  <1>1. PICK s, t, n, fs, cut, X, Y : /\ s = Stream /\ t = outbox' /\ n = Len(walk) /\ fs = FramesOn
                                      /\ cut = CutOut(P) /\ X = PiecesOf(V, P) /\ Y = AllRates(V)
    OBVIOUS
  <1>2. IsSeq(s) /\ Stream' = s \o t
    BY <1>1, StreamTypes DEF Stream
  <1>3. /\ Len(walk)' = n /\ FramesOn' = fs
        /\ CutOut(P)' = cut /\ PiecesOf(V, P)' = X /\ AllRates(V)' = Y
    BY <1>1 DEF FramesOn, CutOut, PiecesOf, AllRates, Frame
  <1>4. ReadBack(s, n, fs, b, cut, X) /\ Sampled(s, n, fs, Y)
    BY <1>1 DEF ConvertedTo, ReadTo, SampledTo
  <1>5. IsSeq(t) /\ \A d \in 1 .. n : fs[d] = fs[d]
    BY <1>1
  <1>6. \A i \in 1 .. Len(t) : t[i].value = {}
    BY <1>1
  <1>7. \A i \in 1 .. Len(t) : t[i].seq # TraceSequence \/ t[i].kind \notin {"Begin", "End"}
    BY <1>1
  <1>8. ReadBack(s \o t, n, fs, b, cut, X)
    BY <1>2, <1>4, <1>5, <1>7, ReadNeutral
  <1>9. Sampled(s \o t, n, fs, Y)
    BY <1>2, <1>4, <1>5, <1>6, SampledNeutral
  <1>. QED
    BY <1>2, <1>3, <1>8, <1>9 DEF ConvertedTo, ReadTo, SampledTo

\* Nothing new is explored.
LEMMA ExploredStays ==
  ASSUME NEW V, NEW P, Explored(V, P), trace' = trace, walk' = walk,
         phase' \in {"setup", "header", "root"} => phase \in {"setup", "header", "root"},
         phase' \in {"frames", "events", "joining", "succeeded"} =>
           \/ phase \in {"frames", "events", "joining", "succeeded"}
           \/ trace.root \in V
  PROVE  Explored(V, P)'
  <1>1. Pauses' = Pauses
    BY DEF Pauses
  <1>2. \A id : Frame(id)' = Frame(id)
    BY DEF Frame
  <1>3. /\ V \subseteq DOMAIN trace.frames /\ P \subseteq Pauses
        /\ \A d \in 1 .. Len(walk) : walk[d].frame \in V
        /\ \A id \in V : \A i \in 1 .. Len(Frame(id).chunks) :
             Handled(Frame(id).chunks[i], V, P) \/ Waiting(walk, id, i)
    BY DEF Explored
  <1>4. /\ phase' \in {"setup", "header", "root"} => V = {} /\ P = {}
        /\ phase' \in {"frames", "events", "joining", "succeeded"} => trace.root \in V
    BY DEF Explored
  <1>5. (\A id \in V : \A i \in 1 .. Len(Frame(id).chunks) :
             Handled(Frame(id).chunks[i], V, P) \/ Waiting(walk, id, i))'
    BY <1>3 DEF Frame
  <1>. QED
    BY <1>1, <1>3, <1>4, <1>5 DEF Explored

\* The header's slice is on a sequence of its own.
LEMMA HeaderConverted ==
  ASSUME Walking, Header, NEW V, NEW P, NEW b, ConvertedTo(V, P, b)
  PROVE  ConvertedTo(V, P, b)'
  <1>1. /\ walk = <<>> /\ walk' = walk /\ outbox = <<>> /\ sent' = sent /\ trace' = trace
        /\ renderPauses' = renderPauses /\ phase = "header" /\ phase' = "root"
    BY DEF Walking, Header, Unshared
  <1>2. PICK g1, g2, g3, g4, g5 :
          /\ g1 = Track(GlobalSequence, Root.start, {}, {})
          /\ g2 = SliceBegin(GlobalSequence, Root.start, {}, {}, {})
          /\ g3 = SliceEnd(GlobalSequence, Root.end, {})
          /\ g4 = Track(DataRateSequence, Root.start, {}, {})
          /\ g5 = Track(TraceSequence, Root.start, {}, {DataRateTrack})
    OBVIOUS
  <1>3. outbox' = <<g1, g2, g3, g4, g5>>
    BY <1>2 DEF Header
  <1>4. /\ \A p \in {g1, g2, g3, g4, g5} : p.value = {}
        /\ g2.seq = GlobalSequence /\ g3.seq = GlobalSequence
        /\ g1.kind = "Track" /\ g4.kind = "Track" /\ g5.kind = "Track"
    BY <1>2 DEF Track, SliceBegin, SliceEnd, Packet
  <1>5. PICK t : t = outbox'
    OBVIOUS
  <1>6. /\ IsSeq(t) /\ Len(t) = 5 /\ t[1] = g1 /\ t[2] = g2 /\ t[3] = g3 /\ t[4] = g4 /\ t[5] = g5
    BY <1>3, <1>5, HeaderPiece
  <1>7. GlobalSequence # TraceSequence
    BY DEF GlobalSequence, TraceSequence
  <1>8. \A i \in 1 .. 5 : i = 1 \/ i = 2 \/ i = 3 \/ i = 4 \/ i = 5
    OBVIOUS
  <1>9. \A i \in 1 .. Len(t) : /\ t[i].value = {}
                               /\ \/ t[i].seq # TraceSequence
                                  \/ t[i].kind \notin {"Begin", "End"}
    BY <1>4, <1>6, <1>7, <1>8
  <1>10. Explored(V, P)
    BY DEF ConvertedTo
  <1>11. Explored(V, P)'
    BY <1>1, <1>10, ExploredStays
  <1>12. phase' # "frames" /\ IsSeq(outbox')
    BY <1>1, <1>5, <1>6
  <1>13. \A i \in 1 .. Len(outbox') : /\ outbox'[i].value = {}
                                      /\ \/ outbox'[i].seq # TraceSequence
                                         \/ outbox'[i].kind \notin {"Begin", "End"}
    BY <1>5, <1>9
  <1>. QED
    BY <1>1, <1>11, <1>12, <1>13, NeutralConverted

\* Events carry no values, and no slices.
LEMMA EventValues ==
  ASSUME NEW e, IsEvent(e)
  PROVE  LET t == EventPackets(e) IN \A i \in 1 .. Len(t) : t[i].value = {}
  <1>1. CASE e.occurences = <<>>
    <2>1. EventPackets(e) = <<>> /\ Len(<<>>) = 0
      BY <1>1 DEF EventPackets
    <2>. QED
      BY <2>1
  <1>2. CASE e.occurences # <<>>
    <2>1. PICK p, x : /\ p = Track(EventSequence(e.id), Head(e.occurences),
                                   {[table |-> "events", iid |-> 1, means |-> e.description]}, {})
                      /\ x = [i \in 1 .. Len(e.occurences) |-> Instant(e, e.occurences[i])]
      OBVIOUS
    <2>2. PICK h : h = <<p>>
      OBVIOUS
    <2>3. EventPackets(e) = h \o x
      BY <1>2, <2>1, <2>2 DEF EventPackets
    <2>4. Len(e.occurences) \in Nat
      BY DEF IsEvent
    <2>5. IsSeq(h) /\ IsSeq(x) /\ Len(h) = 1 /\ Len(x) = Len(e.occurences) /\ h[1] = p
      BY <2>1, <2>2, <2>4, FunctionIsSeq, SinglePiece
    <2>6. p.value = {} /\ \A i \in 1 .. Len(x) : x[i].value = {}
      BY <2>1, <2>5 DEF Track, Instant, Packet
    <2>7. \A k \in 1 .. Len(h \o x) : \/ k \in 1 .. Len(h) /\ (h \o x)[k] = h[k]
                                      \/ k - Len(h) \in 1 .. Len(x) /\ (h \o x)[k] = x[k - Len(h)]
      BY <2>5, JoinedPackets
    <2>8. \A k \in 1 .. 1 : k = 1
      OBVIOUS
    <2>. QED
      BY <2>3, <2>5, <2>6, <2>7, <2>8
  <1>. QED
    BY <1>1, <1>2

LEMMA EventConverted ==
  ASSUME Walking, ReportEvent, NEW V, NEW P, NEW b, ConvertedTo(V, P, b)
  PROVE  ConvertedTo(V, P, b)'
  <1>1. /\ walk = <<>> /\ walk' = walk /\ outbox = <<>> /\ sent' = sent /\ trace' = trace
        /\ renderPauses' = renderPauses /\ phase = "events" /\ phase' = "events"
    BY DEF Walking, ReportEvent, Ready, Unshared
  <1>2. PICK e : e = trace.events[nextEvent]
    OBVIOUS
  <1>3. IsEvent(e) /\ outbox' = EventPackets(e)
    BY <1>2, EventType DEF ReportEvent
  <1>4. IsSeq(outbox') /\ \A i \in 1 .. Len(outbox') : outbox'[i].kind \in {"Track", "Instant"}
    BY <1>3, EventPiece
  <1>5. \A i \in 1 .. Len(outbox') : outbox'[i].value = {}
    BY <1>3, EventValues
  <1>6. \A i \in 1 .. Len(outbox') : /\ outbox'[i].value = {}
                                     /\ \/ outbox'[i].seq # TraceSequence
                                        \/ outbox'[i].kind \notin {"Begin", "End"}
    BY <1>4, <1>5
  <1>7. Explored(V, P)
    BY DEF ConvertedTo
  <1>8. Explored(V, P)'
    BY <1>1, <1>7, ExploredStays
  <1>9. phase' # "frames" /\ IsSeq(outbox')
    BY <1>1, <1>4
  <1>. QED
    BY <1>1, <1>6, <1>8, <1>9, NeutralConverted

-----------------------------------------------------------------------------
(***************************************************************************)
(* Every step.                                                             *)
(***************************************************************************)
\* Steps of the writing thread, and of the converting thread between phases.
LEMMA QuietConverted ==
  ASSUME NEW V, NEW P, NEW b, ConvertedTo(V, P, b), Stream' = Stream,
         UNCHANGED <<trace, walk, renderPauses>>,
         phase' = "frames" => phase = "frames",
         phase' \in {"setup", "header", "root"} => phase \in {"setup", "header", "root"},
         phase' \in {"frames", "events", "joining", "succeeded"} =>
           phase \in {"frames", "events", "joining", "succeeded"}
  PROVE  ConvertedTo(V, P, b)'
  <1>1. Explored(V, P)'
    BY ExploredStays DEF ConvertedTo
  <1>2. /\ FramesOn' = FramesOn /\ CutOut(P)' = CutOut(P) /\ PiecesOf(V, P)' = PiecesOf(V, P)
        /\ AllRates(V)' = AllRates(V)
    BY DEF FramesOn, CutOut, PiecesOf, AllRates, Frame
  <1>3. ReadTo(V, P, b)'
    BY <1>2 DEF ConvertedTo, ReadTo
  <1>4. SampledTo(V)'
    BY <1>2 DEF ConvertedTo, SampledTo
  <1>5. ASSUME phase' = "frames"
        PROVE  Elapsed(V, P, Due(trace.frames, walk[Len(walk)]))'
    BY <1>5 DEF ConvertedTo, Elapsed, Passed, Inside, Frame
  <1>. QED
    BY <1>1, <1>3, <1>4, <1>5 DEF ConvertedTo

LEMMA ConvertedInit == Init => Converted
  <1> SUFFICES ASSUME Init
               PROVE  Converted
    OBVIOUS
  <1>1. PICK s, n : s = Stream /\ n = Len(walk)
    OBVIOUS
  <1>2. s = <<>> /\ Len(s) = 0 /\ walk = <<>> /\ n = 0
    BY <1>1 DEF Init, Stream
  <1>3. PICK b, fs : b = <<>> /\ fs = FramesOn
    OBVIOUS
  <1>4. Level(s, 0) = 0
    BY OpenNext DEF Level
  <1>5. (\A i \in 1 .. 0 : FALSE) /\ 0 \in Nat
    OBVIOUS
  <1>6. PiecesOf({}, {}) = {} /\ AllRates({}) = {}
    BY DEF PiecesOf, AllRates
  <1>7. OpenSlices(s, 0, b)
    BY <1>2, <1>4, <1>5 DEF OpenSlices
  <1>8. NamedSlices(s, 0, fs, b, CutOut({}))
    BY <1>5 DEF NamedSlices
  <1>9. NoneInvented(s, 0, b, {})
    BY <1>2, <1>5 DEF NoneInvented
  <1>10. NoneLost(s, 0, fs, b, {})
    BY DEF NoneLost
  <1>11. ReadTo({}, {}, b)
    BY <1>1, <1>2, <1>3, <1>6, <1>7, <1>8, <1>9, <1>10 DEF ReadTo, ReadBack
  <1>12. SampledTo({})
    BY <1>1, <1>2, <1>5, <1>6 DEF SampledTo, Sampled
  <1>13. Explored({}, {})
    BY <1>1, <1>2, <1>5 DEF Explored, Init
  <1>14. ConvertedTo({}, {}, b)
    BY <1>11, <1>12, <1>13 DEF ConvertedTo, Init
  <1>. QED
    BY <1>14 DEF Converted

\* Up to the last frame it does not matter when events happen.
EarlyTimely == phase \in {"setup", "header", "root", "frames"} => Timely

LEMMA EarlyTimelyNext ==
  ASSUME Walking, EarlyTimely, [Next]_vars
  PROVE  EarlyTimely'
  <1> SUFFICES ASSUME phase' \in {"setup", "header", "root", "frames"}
               PROVE  Timely'
    BY DEF EarlyTimely
  <1>1. phase \in {"setup", "header", "root", "frames"} /\ ~ReportEvent
    <2>1. CASE Convert
      <3>1. CASE EndFrame
        BY <3>1 DEF EndFrame, InFrame, ReportEvent
      <3>. QED
        BY <2>1, <3>1 DEF Convert, CreateFile, CreateFileFails, Header, BeginRoot, ProcessChunk,
                          InFrame, ReportEvent, FinishConversion, Send, SendFails, Join
    <2>2. CASE Writer \/ CtrlC \/ Terminated \/ UNCHANGED vars
      BY <2>2 DEF Writer, Write, WriteFails, WriterEnds, CtrlC, Terminated, vars, ReportEvent
    <2>. QED
      BY <2>1, <2>2 DEF Next
  <1>. QED
    BY <1>1, TimelyNext DEF EarlyTimely

LEMMA ConvertedNext ==
  ASSUME PausesTakeTime, Walking, EarlyTimely, Converted, [Next]_vars
  PROVE  Converted'
  <1> SUFFICES ASSUME ~stop', phase' # "panicked"
               PROVE  (\E V, P, b : ConvertedTo(V, P, b))'
    BY DEF Converted
  <1>1. ~stop /\ phase # "panicked"
    <2>1. CASE Convert
      BY <2>1 DEF Convert, CreateFile, CreateFileFails, Header, BeginRoot, ProcessChunk, EndFrame,
                  InFrame, ReportEvent, FinishConversion, Send, SendFails, Join, Unshared
    <2>2. CASE Writer \/ CtrlC \/ Terminated \/ UNCHANGED vars
      BY <2>2 DEF Writer, Write, WriteFails, WriterEnds, CtrlC, Terminated, Over, vars
    <2>. QED
      BY <2>1, <2>2 DEF Next
  <1>2. PICK V, P, b : ConvertedTo(V, P, b)
    BY <1>1 DEF Converted
  <1>3. CASE Header
    BY <1>2, <1>3, HeaderConverted
  <1>4. CASE BeginRoot
    BY <1>2, <1>4, RootConverted
  <1>5. CASE ProcessChunk
    <2>1. Timely
      BY <1>5 DEF EarlyTimely, ProcessChunk, InFrame
    <2>. QED
      BY <1>2, <1>5, <2>1, ChunkConverted
  <1>6. CASE EndFrame
    BY <1>1, <1>2, <1>6, EndConverted
  <1>7. CASE ReportEvent
    BY <1>2, <1>7, EventConverted
  <1>8. CASE Send
    <2>1. Stream' = Stream
      BY <1>8, MoveHead DEF Send, Stream, Walking
    <2>2. UNCHANGED <<trace, walk, renderPauses, phase>>
      BY <1>8 DEF Send
    <2>. QED
      BY <1>2, <2>1, <2>2, QuietConverted
  <1>9. CASE \/ CreateFile \/ FinishConversion \/ Join
             \/ Write \/ WriteFails \/ WriterEnds \/ CtrlC \/ Terminated \/ UNCHANGED vars
    <2>1. /\ UNCHANGED <<trace, walk, renderPauses, sent, outbox>>
          /\ phase' = "frames" => phase = "frames"
          /\ phase' \in {"setup", "header", "root"} => phase \in {"setup", "header", "root"}
          /\ phase' \in {"frames", "events", "joining", "succeeded"} =>
               phase \in {"frames", "events", "joining", "succeeded"}
      BY <1>9 DEF CreateFile, FinishConversion, Join, Write, WriteFails,
                  WriterEnds, CtrlC, Terminated, converterVars, vars
    <2>2. Stream' = Stream
      BY <2>1 DEF Stream
    <2>. QED
      BY <1>2, <2>1, <2>2, QuietConverted
  <1>10. ~CreateFileFails /\ ~SendFails
    BY DEF CreateFileFails, SendFails
  <1>. QED
    BY <1>3, <1>4, <1>5, <1>6, <1>7, <1>8, <1>9, <1>10 DEF Next, Convert, Writer

-----------------------------------------------------------------------------
(***************************************************************************)
(* The data rate's values are read on its track.                           *)
(***************************************************************************)
IsTrack(p) == p.kind = "Track" /\ p.seq = TraceSequence

OnTrack(s) ==
  \A i \in 1 .. Len(s) : s[i].seq = TraceSequence =>
    /\ \E j \in 1 .. i : IsTrack(s[j])
    /\ IsTrack(s[i]) => s[i].counter = {DataRateTrack}

Tracked ==
  phase # "panicked" =>
    /\ OnTrack(Stream)
    /\ phase \in {"root", "frames"} => \E j \in 1 .. Len(Stream) : IsTrack(Stream[j])

\* A piece keeps what is said about the track if it has no track packet.
LEMMA TrackStays ==
  ASSUME NEW s, IsSeq(s), OnTrack(s), NEW t, IsSeq(t),
         \/ \A i \in 1 .. Len(t) : t[i].seq # TraceSequence
         \/ /\ \E j \in 1 .. Len(s) : IsTrack(s[j])
            /\ \A i \in 1 .. Len(t) : t[i].kind # "Track"
  PROVE  /\ OnTrack(s \o t)
         /\ (\E j \in 1 .. Len(s) : IsTrack(s[j])) =>
              \E j \in 1 .. Len(s \o t) : IsTrack((s \o t)[j])
  <1>1. PICK r, l : r = s \o t /\ l = Len(s)
    OBVIOUS
  <1>2. /\ Len(r) = l + Len(t) /\ l \in Nat /\ Len(t) \in Nat /\ \A i \in 1 .. l : r[i] = s[i]
    BY <1>1, Joined
  <1>3. \A k \in 1 .. Len(r) : \/ k \in 1 .. l /\ r[k] = s[k]
                               \/ k - l \in 1 .. Len(t) /\ r[k] = t[k - l]
    BY <1>1, JoinedPackets
  <1>4. ASSUME NEW j \in 1 .. l, IsTrack(s[j])
        PROVE  j \in 1 .. Len(r) /\ IsTrack(r[j])
    BY <1>2, <1>4
  <1>5. ASSUME NEW k \in 1 .. Len(r), r[k].seq = TraceSequence
        PROVE  /\ \E j \in 1 .. k : IsTrack(r[j])
               /\ IsTrack(r[k]) => r[k].counter = {DataRateTrack}
    <2>1. CASE k \in 1 .. l /\ r[k] = s[k]
      <3>1. /\ \E j \in 1 .. k : IsTrack(s[j])
            /\ IsTrack(s[k]) => s[k].counter = {DataRateTrack}
        BY <1>1, <1>5, <2>1 DEF OnTrack
      <3>2. \A j \in 1 .. k : j \in 1 .. l
        BY <1>2, <2>1
      <3>. QED
        BY <1>2, <2>1, <3>1, <3>2
    <2>2. CASE k - l \in 1 .. Len(t) /\ r[k] = t[k - l]
      <3>1. (\E j \in 1 .. l : IsTrack(s[j])) /\ t[k - l].kind # "Track"
        BY <1>1, <1>5, <2>2
      <3>2. PICK j \in 1 .. l : IsTrack(s[j])
        BY <3>1
      <3>3. j \in 1 .. k /\ IsTrack(r[j])
        BY <1>2, <1>4, <2>2, <3>2
      <3>4. ~IsTrack(r[k])
        BY <2>2, <3>1 DEF IsTrack
      <3>. QED
        BY <3>3, <3>4
    <2>. QED
      BY <1>3, <2>1, <2>2
  <1>. QED
    BY <1>1, <1>4, <1>5 DEF OnTrack

\* What the frames send is no track.
LEMMA FramesKinds ==
  ASSUME Walking, BeginRoot \/ ProcessChunk \/ EndFrame
  PROVE  /\ IsSeq(outbox') /\ \A i \in 1 .. Len(outbox') : outbox'[i].kind # "Track"
  <1>1. PICK t : t = outbox'
    OBVIOUS
  <1>2. ASSUME NEW p, t = <<p>>, p.kind # "Track"
        PROVE  IsSeq(t) /\ \A i \in 1 .. Len(t) : t[i].kind # "Track"
    <2>1. IsSeq(<<p>>) /\ Len(<<p>>) = 1 /\ <<p>>[1] = p
      BY SinglePiece
    <2>2. \A i \in 1 .. 1 : i = 1
      OBVIOUS
    <2>. QED
      BY <1>2, <2>1, <2>2
  <1>3. ASSUME NEW id, NEW callers, BeginFrame(id, callers)
        PROVE  \E p : t = <<p>> /\ p.kind # "Track"
    BY <1>1, <1>3, PacketFields DEF BeginFrame, PacketDefs
  <1>4. ASSUME EndFrame
        PROVE  \E p : t = <<p>> /\ p.kind # "Track"
    BY <1>1, <1>4, PacketFields DEF EndFrame, PacketDefs
  <1>5. CASE BeginRoot \/ EndFrame
    BY <1>1, <1>2, <1>3, <1>4, <1>5 DEF BeginRoot
  <1>6. CASE ProcessChunk
    <2>1. walk \in Seq(Visit)
      BY DEF Walking
    <2>2. CASE NextChunk.kind = "Frame" /\ BeginFrame(NextChunk.id, Advanced)
      BY <1>1, <1>2, <1>3, <2>2
    <2>3. CASE outbox' = GapPackets(NextChunk)
      <3>1. PICK n : n = Len(walk)
        OBVIOUS
      <3>2. /\ n \in Nat /\ IsSeq(t) /\ Len(t) = n + n
            /\ \A i \in 1 .. n : t[i].kind = "End"
            /\ \A i \in n + 1 .. n + n : t[i].kind = "Begin"
        BY SMTT(60), <1>1, <2>1, <2>3, <3>1, GapPacketsPiece
      <3>3. \A i \in 1 .. n + n : i \in 1 .. n \/ i \in n + 1 .. n + n
        BY <3>2
      <3>. QED
        BY <1>1, <3>2, <3>3
    <2>4. CASE outbox' = BlockPackets(NextChunk, tables'.events)
      <3>1. PICK p, q : t = <<p, q>> /\ p.kind = "Begin" /\ q.kind = "End"
        BY <1>1, <2>4, PacketFields DEF BlockPackets, PacketDefs
      <3>2. t \in Seq({p, q}) /\ Len(t) = 2 /\ t[1] = p /\ t[2] = q
        BY <3>1
      <3>3. \A i \in 1 .. 2 : i = 1 \/ i = 2
        OBVIOUS
      <3>. QED
        BY <1>1, <3>1, <3>2, <3>3 DEF IsSeq
    <2>. QED
      BY <1>6, <2>2, <2>3, <2>4 DEF ProcessChunk, RenderGap
  <1>. QED
    BY <1>5, <1>6

LEMMA TrackedInit == Init => Tracked
  <1> SUFFICES ASSUME Init
               PROVE  Tracked
    OBVIOUS
  <1>1. PICK s : s = Stream
    OBVIOUS
  <1>2. s = <<>> /\ Len(s) = 0 /\ phase = "setup"
    BY <1>1 DEF Init, Stream
  <1>3. OnTrack(s)
    BY <1>2 DEF OnTrack
  <1>. QED
    BY <1>1, <1>2, <1>3 DEF Tracked

LEMMA HeaderTracked ==
  ASSUME Walking, Header
  PROVE  Tracked'
  <1>1. PICK t : t = outbox'
    OBVIOUS
  <1>2. /\ IsSeq(t) /\ Len(t) = 5
        /\ t[1].seq = GlobalSequence /\ t[2].seq = GlobalSequence /\ t[3].seq = GlobalSequence
        /\ t[4].seq = DataRateSequence /\ t[5].kind = "Track" /\ t[5].seq = TraceSequence
    BY <1>1, HeaderPiece
  <1>3. t[5].counter = {DataRateTrack}
    <2>1. PICK g1, g2, g3, g4, g5 :
            /\ g1 = Track(GlobalSequence, Root.start, {}, {})
            /\ g2 = SliceBegin(GlobalSequence, Root.start, {}, {}, {})
            /\ g3 = SliceEnd(GlobalSequence, Root.end, {})
            /\ g4 = Track(DataRateSequence, Root.start, {}, {})
            /\ g5 = Track(TraceSequence, Root.start, {}, {DataRateTrack})
      OBVIOUS
    <2>2. t = <<g1, g2, g3, g4, g5>>
      BY <1>1, <2>1 DEF Header
    <2>3. g5.counter = {DataRateTrack}
      BY <2>1 DEF Track, Packet
    <2>. QED
      BY <2>2, <2>3
  <1>4. Stream' = t
    <2>1. sent' = <<>>
      BY DEF Walking, Header, Unshared
    <2>2. PICK S : t \in Seq(S)
      BY <1>2 DEF IsSeq
    <2>. QED
      BY <1>1, <2>1, <2>2 DEF Stream
  <1>5. GlobalSequence # TraceSequence /\ DataRateSequence # TraceSequence
    BY DEF GlobalSequence, TraceSequence, DataRateSequence
  <1>6. \A i \in 1 .. 5 : i = 1 \/ i = 2 \/ i = 3 \/ i = 4 \/ i = 5
    OBVIOUS
  <1>7. IsTrack(t[5]) /\ 5 \in 1 .. 5
    BY <1>2 DEF IsTrack
  <1>8. \A i \in 1 .. Len(t) : t[i].seq = TraceSequence => i = 5
    BY <1>2, <1>5, <1>6
  <1>9. OnTrack(t)
    BY <1>2, <1>3, <1>7, <1>8 DEF OnTrack
  <1>10. \E j \in 1 .. Len(t) : IsTrack(t[j])
    BY <1>2, <1>7
  <1>. QED
    BY <1>4, <1>9, <1>10 DEF Tracked

LEMMA TrackedNext ==
  ASSUME Walking, Tracked, [Next]_vars
  PROVE  Tracked'
  <1> SUFFICES ASSUME phase' # "panicked"
               PROVE  /\ OnTrack(Stream)'
                      /\ phase' \in {"root", "frames"} =>
                           (\E j \in 1 .. Len(Stream) : IsTrack(Stream[j]))'
    BY DEF Tracked
  <1>1. PICK s, t : s = Stream /\ t = outbox'
    OBVIOUS
  <1>2. IsSeq(s) /\ (outbox = <<>> /\ sent' = sent => Stream' = s \o t)
    BY <1>1, StreamTypes DEF Stream
  <1>3. CASE Header
    BY <1>3, HeaderTracked DEF Tracked
  <1>4. CASE BeginRoot \/ ProcessChunk \/ EndFrame
    <2>1. outbox = <<>> /\ sent' = sent /\ phase \in {"root", "frames"}
      BY <1>4 DEF BeginRoot, ProcessChunk, EndFrame, InFrame, Ready, Unshared
    <2>2. OnTrack(s) /\ \E j \in 1 .. Len(s) : IsTrack(s[j])
      BY <1>1, <2>1 DEF Tracked
    <2>3. IsSeq(t) /\ \A i \in 1 .. Len(t) : t[i].kind # "Track"
      BY <1>1, <1>4, FramesKinds
    <2>4. OnTrack(s \o t) /\ \E j \in 1 .. Len(s \o t) : IsTrack((s \o t)[j])
      BY <1>2, <2>2, <2>3, TrackStays
    <2>. QED
      BY <1>2, <2>1, <2>4
  <1>5. CASE ReportEvent
    <2>1. outbox = <<>> /\ sent' = sent /\ phase = "events" /\ phase' = "events"
      BY <1>5 DEF ReportEvent, Ready, Unshared
    <2>2. OnTrack(s)
      BY <1>1, <2>1 DEF Tracked
    <2>3. PICK e : e = trace.events[nextEvent]
      OBVIOUS
    <2>4. IsEvent(e) /\ t = EventPackets(e)
      BY <1>1, <1>5, <2>3, EventType DEF ReportEvent
    <2>5. IsSeq(t) /\ \A i \in 1 .. Len(t) : t[i].seq = EventSequence(e.id)
      BY <2>4, EventPiece
    <2>6. EventSequence(e.id) # TraceSequence
      BY <2>4 DEF IsEvent, EventSequence, TraceSequence
    <2>7. \A i \in 1 .. Len(t) : t[i].seq # TraceSequence
      BY <2>5, <2>6
    <2>8. OnTrack(s \o t)
      BY <1>2, <2>2, <2>5, <2>7, TrackStays
    <2>. QED
      BY <1>2, <2>1, <2>8
  <1>6. CASE Send
    <2>1. Stream' = Stream
      BY <1>6, MoveHead DEF Send, Stream, Walking
    <2>2. phase' = phase
      BY <1>6 DEF Send
    <2>. QED
      BY <2>1, <2>2 DEF Tracked
  <1>7. CASE \/ CreateFile \/ FinishConversion \/ Join
             \/ Write \/ WriteFails \/ WriterEnds \/ CtrlC \/ Terminated \/ UNCHANGED vars
    <2>1. /\ UNCHANGED <<sent, outbox>> /\ phase # "panicked"
          /\ phase' \in {"root", "frames"} => phase' = phase
      BY <1>7 DEF CreateFile, FinishConversion, Join, Write, WriteFails,
                  WriterEnds, CtrlC, Terminated, converterVars, vars
    <2>2. Stream' = Stream
      BY <2>1 DEF Stream
    <2>. QED
      BY <2>1, <2>2 DEF Tracked
  <1>8. ~CreateFileFails /\ ~SendFails
    BY DEF CreateFileFails, SendFails
  <1>. QED
    BY <1>3, <1>4, <1>5, <1>6, <1>7, <1>8 DEF Next, Convert, Writer

-----------------------------------------------------------------------------
(***************************************************************************)
(* In the end.                                                             *)
(***************************************************************************)
\* When no frame is left on the walk, every frame and every pause has been met.
LEMMA AllExplored ==
  ASSUME FramesReachable, PausesTakeTime, trace \in Traces, walk = <<>>,
         NEW V, NEW P, Explored(V, P), trace.root \in V
  PROVE  V = DOMAIN trace.frames /\ P = Pauses
  <1>1. \A id, i : ~Waiting(walk, id, i)
    <2>1. Len(walk) = 0 /\ \A d \in 1 .. 0 : FALSE
      OBVIOUS
    <2>. QED
      BY <2>1 DEF Waiting
  <1>2. /\ V \subseteq DOMAIN trace.frames /\ P \subseteq Pauses
        /\ \A id \in V : \A i \in 1 .. Len(Frame(id).chunks) : Handled(Frame(id).chunks[i], V, P)
    BY <1>1 DEF Explored
  <1>3. V = DOMAIN trace.frames
    <2>1. ClosedUnderChunks(trace, V)
      BY <1>2 DEF ClosedUnderChunks, Handled, Frame
    <2>. QED
      BY <1>2, <2>1 DEF FramesReachable
  <1>4. ASSUME NEW p \in Pauses
        PROVE  p \in P
    <2>1. PICK id \in DOMAIN trace.frames : \E i \in 1 .. Len(Frame(id).chunks) :
              LET c == Frame(id).chunks[i]
              IN  c.kind = "Pause" /\ p = [start |-> c.start, end |-> c.end]
      BY PausesAreChunks
    <2>2. PICK i \in 1 .. Len(Frame(id).chunks) :
              LET c == Frame(id).chunks[i]
              IN  c.kind = "Pause" /\ p = [start |-> c.start, end |-> c.end]
      BY <2>1
    <2>3. PICK c : c = Frame(id).chunks[i]
      OBVIOUS
    <2>4. Handled(c, V, P) /\ c.kind = "Pause" /\ p = [start |-> c.start, end |-> c.end]
      BY <1>2, <1>3, <2>2, <2>3
    <2>. QED
      BY <2>4 DEF Handled
  <1>. QED
    BY <1>2, <1>3, <1>4

\* A slice is closed only once.
LEMMA ClosesOnce ==
  ASSUME NEW s, NEW i \in 1 .. Len(s), NEW j, NEW k, Closes(s, i, j), Closes(s, i, k)
  PROVE  j = k
  <1>1. \A m \in Nat : Level(s, m) \in Int
    BY OpenNext DEF Level
  <1>2. i \in Nat /\ j \in Nat /\ k \in Nat /\ i < j /\ i < k
    BY DEF Closes
  <1>3. Level(s, i) \in Int /\ Level(s, j) \in Int /\ Level(s, k) \in Int
    BY <1>1, <1>2
  <1>4. ~(j < k)
    <2>1. ASSUME j < k
          PROVE  FALSE
      <3>1. j \in i .. k - 1
        BY <1>2, <2>1
      <3>2. Level(s, j) >= Level(s, i) /\ Level(s, j) < Level(s, i)
        BY <3>1 DEF Closes
      <3>. QED
        BY <1>3, <3>2
    <2>. QED
      BY <2>1
  <1>5. ~(k < j)
    <2>1. ASSUME k < j
          PROVE  FALSE
      <3>1. k \in i .. j - 1
        BY <1>2, <2>1
      <3>2. Level(s, k) >= Level(s, i) /\ Level(s, k) < Level(s, i)
        BY <3>1 DEF Closes
      <3>. QED
        BY <1>3, <3>2
    <2>. QED
      BY <2>1
  <1>. QED
    BY <1>2, <1>4, <1>5

\* Sequences have a length.
LEMMA StreamLength ==
  ASSUME NEW s, IsSeq(s)
  PROVE  Len(s) \in Nat
  BY DEF IsSeq

\* When no slice is open, the slices are the pieces.
LEMMA AllRead ==
  ASSUME IsSeq(sent), NEW fs, NEW b, NEW cut, NEW X, ReadBack(sent, 0, fs, b, cut, X)
  PROVE  Slices = X
  <1>1. \A d \in 1 .. 0 : FALSE
    OBVIOUS
  <1>2. PICK begins : begins = {k \in 1 .. Len(sent) : sent[k].kind = "Begin"
                                                       /\ sent[k].seq = TraceSequence}
    OBVIOUS
  <1>3. \A i : i \in begins <=> IsBegin(sent, i)
    BY <1>2 DEF IsBegin
  <1>4. ASSUME NEW i \in begins
        PROVE  \E j \in 1 .. Len(sent) : Closes(sent, i, j) /\ SliceOf(sent, i, j) \in X
    <2>1. IsBegin(sent, i) /\ i \in 1 .. Len(sent)
      BY <1>3 DEF IsBegin
    <2>. QED
      BY <1>1, <2>1 DEF ReadBack, NoneInvented
  <1>5. ASSUME NEW i \in begins, NEW j \in 1 .. Len(sent), Closes(sent, i, j)
        PROVE  <<SliceName(i), sent[i].ts, sent[SliceEndOf(i)].ts>> = SliceOf(sent, i, j)
    <2>1. i \in 1 .. Len(sent) /\ Len(sent) \in Nat
      BY <1>3, StreamLength DEF IsBegin
    <2>2. \A k : Open(TraceSequence, k) = Level(sent, k)
      BY DEF Open, CountSent, Level, OpenIn, CountIn, Matching
    <2>3. \A k \in i + 1 .. Len(sent) :
            (/\ sent[k].kind = "End"
             /\ sent[k].seq = TraceSequence
             /\ Open(TraceSequence, k) < Open(TraceSequence, i)
             /\ \A m \in i .. k - 1 : Open(TraceSequence, m) >= Open(TraceSequence, i))
            <=> Closes(sent, i, k)
      BY <2>1, <2>2 DEF Closes
    <2>4. j \in i + 1 .. Len(sent)
      BY <1>5, <2>1 DEF Closes
    <2>5. \A k \in i + 1 .. Len(sent) : Closes(sent, i, k) => k = j
      BY <1>5, <2>1, ClosesOnce
    <2>6. SliceEndOf(i) = j
      BY <1>5, <2>3, <2>4, <2>5 DEF SliceEndOf
    <2>7. SliceName(i) = NameOf(sent[i])
      BY DEF SliceName, NameOf
    <2>. QED
      BY <2>6, <2>7 DEF SliceOf
  <1>6. Slices = {<<SliceName(i), sent[i].ts, sent[SliceEndOf(i)].ts>> : i \in begins}
    BY <1>2 DEF Slices
  <1>7. ASSUME NEW x \in Slices
        PROVE  x \in X
    <2>1. PICK i \in begins : x = <<SliceName(i), sent[i].ts, sent[SliceEndOf(i)].ts>>
      BY <1>6
    <2>2. PICK j \in 1 .. Len(sent) : Closes(sent, i, j) /\ SliceOf(sent, i, j) \in X
      BY <1>4
    <2>. QED
      BY <1>5, <2>1, <2>2
  <1>8. ASSUME NEW x \in X
        PROVE  x \in Slices
    <2>1. IsRead(sent, x)
      BY <1>1 DEF ReadBack, NoneLost
    <2>2. PICK i \in 1 .. Len(sent), j \in 1 .. Len(sent) :
            IsBegin(sent, i) /\ Closes(sent, i, j) /\ x = SliceOf(sent, i, j)
      BY <2>1 DEF IsRead
    <2>3. i \in begins
      BY <1>3, <2>2
    <2>4. <<SliceName(i), sent[i].ts, sent[SliceEndOf(i)].ts>> = x
      BY <1>5, <2>2, <2>3
    <2>. QED
      BY <1>6, <2>3, <2>4
  <1>. QED
    BY <1>7, <1>8

\* Every value sent with a slice is read on the data rate's track.
LEMMA AllSampled ==
  ASSUME IsSeq(sent), OnTrack(sent), NEW fs, NEW Y, Sampled(sent, 0, fs, Y)
  PROVE  Samples = Y
  <1>1. Len(sent) \in Nat /\ \A d \in 1 .. 0 : FALSE
    BY StreamLength
  <1>2. /\ \A i \in 1 .. Len(sent) : \A v \in sent[i].value :
             sent[i].seq = TraceSequence /\ <<sent[i].ts, v>> \in Y
        /\ \A y \in Y : \E i \in 1 .. Len(sent) : \E v \in sent[i].value : y = <<sent[i].ts, v>>
    BY <1>1 DEF Sampled
  <1>3. ASSUME NEW i \in 1 .. Len(sent), sent[i].seq = TraceSequence
        PROVE  DataRateTrack \in CounterOf(i)
    <2>1. PICK tracks : tracks = {j \in 1 .. i : sent[j].kind = "Track" /\ sent[j].seq = sent[i].seq}
      OBVIOUS
    <2>2. i \in Nat /\ i <= Len(sent)
      BY <1>1
    <2>3. \E j \in 1 .. i : IsTrack(sent[j])
      BY <1>3 DEF OnTrack
    <2>4. tracks \in SUBSET (1 .. i) /\ tracks # {}
      BY <1>3, <2>1, <2>3 DEF IsTrack
    <2>5. Max(tracks) \in tracks
      BY <2>2, <2>4, MaxOfSome
    <2>6. PICK m : m = Max(tracks)
      OBVIOUS
    <2>7. m \in 1 .. Len(sent) /\ IsTrack(sent[m]) /\ sent[m].seq = TraceSequence
      BY <1>1, <1>3, <2>1, <2>2, <2>5, <2>6 DEF IsTrack
    <2>8. sent[m].counter = {DataRateTrack}
      BY <2>7 DEF OnTrack
    <2>9. CounterOf(i) = sent[m].counter
      BY <2>1, <2>6 DEF CounterOf
    <2>. QED
      BY <2>8, <2>9
  <1>4. ASSUME NEW y
        PROVE  y \in Samples <=> \E i \in 1 .. Len(sent) : /\ DataRateTrack \in CounterOf(i)
                                                           /\ \E v \in sent[i].value : y = <<sent[i].ts, v>>
    BY DEF Samples
  <1>5. ASSUME NEW y \in Samples
        PROVE  y \in Y
    BY <1>2, <1>4
  <1>6. ASSUME NEW y \in Y
        PROVE  y \in Samples
    <2>1. PICK i \in 1 .. Len(sent) : \E v \in sent[i].value : y = <<sent[i].ts, v>>
      BY <1>2
    <2>2. DataRateTrack \in CounterOf(i)
      BY <1>2, <1>3, <2>1
    <2>. QED
      BY <1>4, <2>1, <2>2
  <1>. QED
    BY <1>5, <1>6

\* When a conversion that was not stopped succeeds, what Perfetto reads back is
\* the trace: each frame's slice, cut at the pauses or with the pauses as slices
\* of their own, and the data rate where frames start and end, and nothing else
\* (process_frame, render_gap and start of perfetto/converter.rs).
THEOREM SlicesAlwaysMatchTrace ==
  ASSUME FramesReachable, PausesTakeTime
  PROVE  Spec => []SlicesMatchTrace
  <1>1. ASSUME Walking, Converted, Tracked
        PROVE  SlicesMatchTrace
    <2> SUFFICES ASSUME phase = "succeeded", ~stop
                 PROVE  /\ Samples = UNION {RatesOf(trace.frames[id]) : id \in DOMAIN trace.frames}
                        /\ Slices =
                             IF renderPauses = "Gap"
                             THEN UNION {Pieces(trace.frames[id], Pauses) : id \in DOMAIN trace.frames}
                             ELSE (UNION {Pieces(trace.frames[id], {}) : id \in DOMAIN trace.frames})
                                    \cup {<<PauseName, p.start, p.end>> : p \in Pauses}
      BY DEF SlicesMatchTrace
    <2>1. PICK V, P, b : ConvertedTo(V, P, b)
      BY <1>1 DEF Converted
    <2>2. trace \in Traces /\ walk = <<>> /\ IsSeq(sent) /\ Stream = sent
      BY <1>1, StreamTypes DEF Walking
    <2>3. Explored(V, P) /\ ReadTo(V, P, b) /\ SampledTo(V) /\ trace.root \in V
      BY <2>1 DEF ConvertedTo, Explored
    <2>4. V = DOMAIN trace.frames /\ P = Pauses
      BY <2>2, <2>3, AllExplored
    <2>5. PICK fs, cut, X, Y : fs = FramesOn /\ cut = CutOut(P) /\ X = PiecesOf(V, P)
                               /\ Y = AllRates(V)
      OBVIOUS
    <2>6. Len(walk) = 0
      BY <2>2
    <2>7. ReadBack(sent, 0, fs, b, cut, X) /\ Sampled(sent, 0, fs, Y)
      BY <2>2, <2>3, <2>5, <2>6 DEF ReadTo, SampledTo
    <2>8. Slices = X
      BY <2>2, <2>7, AllRead
    <2>9. Samples = Y
      <3>1. OnTrack(sent)
        BY <1>1, <2>2 DEF Tracked
      <3>. QED
        BY <2>2, <2>7, <3>1, AllSampled
    <2>10. Y = UNION {RatesOf(trace.frames[id]) : id \in DOMAIN trace.frames}
      BY <2>4, <2>5 DEF AllRates, Frame
    <2>11. CASE renderPauses = "Gap"
      <3>1. cut = Pauses
        BY <2>4, <2>5, <2>11 DEF CutOut
      <3>2. X = (UNION {Pieces(Frame(id), cut) : id \in V}) \cup {<<PauseName, p.start, p.end>> : p \in {}}
        BY <2>5, <2>11 DEF PiecesOf
      <3>3. X = UNION {Pieces(trace.frames[id], Pauses) : id \in DOMAIN trace.frames}
        BY <2>4, <3>1, <3>2 DEF Frame
      <3>. QED
        BY <2>8, <2>9, <2>10, <2>11, <3>3
    <2>12. CASE renderPauses # "Gap"
      <3>1. cut = {}
        BY <2>5, <2>12 DEF CutOut
      <3>2. X = (UNION {Pieces(Frame(id), cut) : id \in V}) \cup {<<PauseName, p.start, p.end>> : p \in P}
        BY <2>5, <2>12 DEF PiecesOf
      <3>3. X = (UNION {Pieces(trace.frames[id], {}) : id \in DOMAIN trace.frames})
                  \cup {<<PauseName, p.start, p.end>> : p \in Pauses}
        BY <2>4, <3>1, <3>2 DEF Frame
      <3>. QED
        BY <2>8, <2>9, <2>10, <2>12, <3>3
    <2>. QED
      BY <2>11, <2>12
  <1>2. Init => Walking /\ Converted /\ Tracked /\ EarlyTimely
    BY WalkingInit, ConvertedInit, TrackedInit, TimelyInit DEF EarlyTimely
  <1>3. Walking /\ Converted /\ Tracked /\ EarlyTimely /\ [Next]_vars =>
          (Walking /\ Converted /\ Tracked /\ EarlyTimely)'
    BY WalkingNext, ConvertedNext, TrackedNext, EarlyTimelyNext
  <1>. QED
    BY <1>1, <1>2, <1>3, PTL DEF Spec
=============================================================================
