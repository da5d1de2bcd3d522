-------------------------------- MODULE Packing --------------------------------
(***************************************************************************)
(* How a range is stored (MetricsRange and InlineOrPtr in                  *)
(* pt-fuser/src/trace/metrics.rs): its start, and one word that holds the  *)
(* three differences to its end if each fits a field of 21 bits, or the    *)
(* address of a copy of the end if one does not.  The lowest bit of the    *)
(* word tells which; an address is even.                                   *)
(***************************************************************************)
EXTENDS Metrics

CONSTANT FieldSize   \* 2^21: a field holds the numbers below it

ASSUME FieldAssumption == FieldSize \in Nat \ {0}

\* mutated form: a difference may be as large as the field
FieldsFitLoosely(d) == d.ts <= FieldSize /\ d.cycles <= FieldSize /\ d.insn_count <= FieldSize

FieldsFit(d) == d.ts < FieldSize /\ d.cycles < FieldSize /\ d.insn_count < FieldSize

\* (ts_diff << 42) | (cycles_diff << 21) | insn_diff
PackedDiff(d) == (d.ts * FieldSize + d.cycles) * FieldSize + d.insn_count

\* InlineOrPtr::new_inline and new_heap, with what is at the address
Inline(val) == [bits |-> 2 * val + 1, heap |-> {}]
Ptr(end)    == [bits |-> 0, heap |-> {end}]

IsInline(word) == word.bits % 2 = 1

\* MetricsRange::new
Store(p, q) == [start |-> p,
                end   |-> IF FieldsFit(Elapsed(p, q)) THEN Inline(PackedDiff(Elapsed(p, q)))
                          ELSE Ptr(q)]

\* (packed_diff >> 42) & 0x1FFFFF, (packed_diff >> 21) & 0x1FFFFF, packed_diff & 0x1FFFFF
Unpacked(val) == [ts         |-> ((val \div FieldSize) \div FieldSize) % FieldSize,
                  cycles     |-> (val \div FieldSize) % FieldSize,
                  insn_count |-> val % FieldSize]

\* total_time, total_cycles and total_insn
Totals(r) == IF IsInline(r.end) THEN Unpacked(r.end.bits \div 2)
             ELSE Elapsed(r.start, CHOOSE e \in r.end.heap : TRUE)

\* MetricsRange::end
StoredEnd(r) == Plus(r.start, Totals(r))

\* Nothing is lost in storing a range from p to q.
Survives(p, q) == StoredEnd(Store(p, q)) = q
=============================================================================
