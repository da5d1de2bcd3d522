---------------------------- MODULE MCFrameChunks ----------------------------
(***************************************************************************)
(* A small instance of FrameChunks: three instants of time (cycles go with *)
(* time) times two instruction counts, so that points can be incomparable. *)
(***************************************************************************)
EXTENDS FrameChunks

GridPoints == {[ts |-> t, cycles |-> t, insn_count |-> n] : t \in 0 .. 2, n \in 0 .. 1}
=============================================================================
