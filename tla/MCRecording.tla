------------------------------ MODULE MCRecording ------------------------------
(***************************************************************************)
(* A process (1) with a thread (2), and a library, a program with a PLT    *)
(* and the kernel mapped into two pages each.  The library and the program *)
(* may be adjacent, or overlap.                                            *)
(***************************************************************************)
EXTENDS Recording

Map(a, o, n, p) == [vaddr |-> a, file_offset |-> o, size |-> n, path |-> p]

Library    == Map(0, 0, 2, "lib")
Program    == Map(2, 2, 2, "prog")
InTheWay   == Map(1, 2, 1, "short")
KernelText == Map(4, 9, 2, "kernel")

SmallPath       == {"lib", "prog", "short", "kernel"}
SmallFileSize   == [p \in SmallPath |-> CASE p = "lib" -> 2 [] p = "prog" -> 4 [] p = "short" -> 2 [] OTHER -> 5]
SmallTextOffset == [p \in SmallPath |-> CASE p = "kernel" -> 3 [] p = "prog" -> 0 [] OTHER -> NoText]

Sym(n, o, s, r) == [name |-> n, offset |-> o, size |-> s, reach |-> r]

\* a symbol within a symbol, and one without a size
SmallSymbols == [p \in SmallPath |-> CASE p = "lib" -> {Sym("outer", 0, 2, 2), Sym("inner", 0, 1, 1)}
                                       [] p = "kernel" -> {Sym("entry", 3, 0, 2)}
                                       [] OTHER -> {}]

SmallPlt == [p \in SmallPath |-> IF p = "prog" THEN [base |-> 0, size |-> 4, entries |-> <<"puts">>]
                                 ELSE [base |-> 0, size |-> 0, entries |-> <<>>]]

SmallMappings == {Library, Program, InTheWay, KernelText}

Mmap(pid, tid, m) == [type |-> "mmap2", pid |-> pid, tid |-> tid, mapping |-> m]
Aux(tid, index, offset, len) == [type |-> "auxtrace", tid |-> tid, index |-> index, offset |-> offset, len |-> len]

SmallRecords ==
  { Mmap(1, 1, Library), Mmap(1, 1, Program), Mmap(1, 2, InTheWay), Mmap(1, 2, Program),
    Mmap(-1, 0, KernelText), Mmap(-1, 0, Library),
    [type |-> "comm", pid |-> 1, tid |-> 2],
    [type |-> "info", matches |-> TRUE, complete |-> TRUE],
    [type |-> "info", matches |-> TRUE, complete |-> FALSE],
    Aux(2, 0, 0, 2), Aux(2, 0, 1, 2), Aux(2, 1, 0, 1), Aux(1, 0, 0, 0) }
=============================================================================
