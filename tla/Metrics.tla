------------------------------- MODULE Metrics -------------------------------
(***************************************************************************)
(* Points in time and ranges of them (pt-fuser/src/trace/metrics.rs).      *)
(*                                                                         *)
(* A point carries three counters that advance together: wall time, TSC    *)
(* cycles and executed instructions.  The program compares points counter  *)
(* by counter wherever order matters, so the order is partial: two points  *)
(* may be incomparable.                                                    *)
(***************************************************************************)
EXTENDS Integers

Point == [ts : Nat, cycles : Nat, insn_count : Nat]

\* Metrics::constant
Constant(c) == [ts |-> c, cycles |-> c, insn_count |-> c]

\* No counter of q is below the same counter of p.
Leq(p, q) == /\ p.ts <= q.ts
             /\ p.cycles <= q.cycles
             /\ p.insn_count <= q.insn_count

\* Some counter falls from p to q: the test of every monotonicity check.
Decreases(p, q) == \/ q.ts < p.ts
                   \/ q.cycles < p.cycles
                   \/ q.insn_count < p.insn_count

\* The counters that pass between p and q.
Elapsed(p, q) == [ts         |-> q.ts - p.ts,
                  cycles     |-> q.cycles - p.cycles,
                  insn_count |-> q.insn_count - p.insn_count]

Plus(d, e) == [ts         |-> d.ts + e.ts,
               cycles     |-> d.cycles + e.cycles,
               insn_count |-> d.insn_count + e.insn_count]

(***************************************************************************)
(* Ranges.  MetricsRange::new asserts that no counter falls; IsRange is    *)
(* that assertion, and whoever builds a range must meet it or panic.  How  *)
(* a range is stored is the business of module Packing.                    *)
(***************************************************************************)
MetricsRange(p, q) == [start |-> p, end |-> q]

IsRange(r) == ~Decreases(r.start, r.end)

\* mutated form of Includes: the instruction counts are not compared
IncludesBug(outer, inner) == /\ outer.start.ts <= inner.start.ts
                             /\ outer.start.cycles <= inner.start.cycles
                             /\ inner.end.ts <= outer.end.ts
                             /\ inner.end.cycles <= outer.end.cycles

\* MetricsRange::includes_range
Includes(outer, inner) == /\ Leq(outer.start, inner.start)
                          /\ Leq(inner.end, outer.end)
=============================================================================
