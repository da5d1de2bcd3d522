----------------------------- MODULE MCTransformer -----------------------------
(***************************************************************************)
(* Small instances of Transformer.  A symbol of size 0 contains no         *)
(* address, not even the one it is resolved from ("z" below).              *)
(***************************************************************************)
EXTENDS Transformer

Symbols == {"main", "f", "f@plt", "z", "unknown"}

Stubs == {<<"f@plt", "f">>}

Ips == {"m", "f", "p", "z", "u"}

ResolveIps == [i \in Ips |-> CASE i = "m" -> "main"
                               [] i = "f" -> "f"
                               [] i = "p" -> "f@plt"
                               [] i = "z" -> "z"
                               [] i = "u" -> "unknown"]

SymbolRanges == [s \in Symbols |-> CASE s = "main"  -> {"m"}
                                     [] s = "f"     -> {"f"}
                                     [] s = "f@plt" -> {"p"}
                                     [] OTHER       -> {}]

Targets == {"main"}

\* A smaller program for the runs with a moving clock.
FewSymbols == {"main", "f", "unknown"}
FewIps == {"m", "f", "u"}
ResolveFewIps == [i \in FewIps |-> ResolveIps[i]]
FewRanges == [s \in FewSymbols |-> SymbolRanges[s]]

Unlimited == NoLimit

\* every point the driver can reach
Reached == {[ts |-> Convert(t), cycles |-> t, insn_count |-> n] :
              t \in Tsc \cup {0}, n \in 0 .. MaxInput}
=============================================================================
