----------------------------- MODULE AddressSpace -----------------------------
(***************************************************************************)
(* What an ElfImage promises the decoder that reads code and looks up      *)
(* symbols through it (trait ImageProvider), without its caches and        *)
(* without an order on the mappings.                                       *)
(*                                                                         *)
(* space is the set of mappings; verdict says of each file whether it was  *)
(* found fit for use, which is decided once, at a moment of its own        *)
(* choosing; answer is the latest answer given.  A byte is known by the    *)
(* file and the offset it comes from.                                      *)
(***************************************************************************)
EXTENDS MemoryMap

CONSTANTS Address, MaxWant,
          Named   \* [Path -> set of named stretches of the file]

VARIABLES space, verdict, answer

vars == <<space, verdict, answer>>

NoAnswer == [addr |-> 0, want |-> 0, bytes |-> <<>>, symbol |-> {}]

Init == /\ space = {}
        /\ verdict = [p \in Path |-> "unknown"]
        /\ answer = NoAnswer

\* The recording says what is mapped: any mappings that are disjoint.
Map == /\ space \subseteq space'
       /\ \A m, n \in space' : m # n => ~Overlaps(m, n)
       /\ UNCHANGED <<verdict, answer>>

\* Judgements that agree with the ones made before.
Judged == {v \in [Path -> {"unknown", "open", "failed"}] :
             \A p \in Path : verdict[p] # "unknown" => v[p] = verdict[p]}

Judge == /\ verdict' \in Judged
         /\ UNCHANGED <<space, answer>>

Home(a) == CHOOSE m \in space : Covers(m, a)
Mapped(a) == \E m \in space : Covers(m, a)
Memory(a) == <<Home(a).path, OffsetOf(Home(a), a)>>

\* the addresses from a on that are mapped without a hole, at most n of them
Run(a, n) == {b \in a .. a + n - 1 : \A c \in a .. b : Mapped(c)}

Usable(m) == verdict'[m.path] = "open" /\ InsideFile(m)

(***************************************************************************)
(* n bytes from a on are asked for.  All that are mapped without a hole    *)
(* are returned, and they are what is in memory; if one of the files       *)
(* cannot be used, none is (an error), even if others can.                 *)
(***************************************************************************)
Read(a, n) ==
  /\ verdict' \in Judged
  /\ LET run == Run(a, n) IN
     answer' = [addr |-> a, want |-> n, symbol |-> {},
                bytes |-> IF \A b \in run : Usable(Home(b))
                          THEN [i \in 1 .. Cardinality(run) |-> Memory(a + i - 1)]
                          ELSE <<>>]
  /\ UNCHANGED space

\* the symbol that is s in the file, at the address where m maps it
Placed(m, s) == [name |-> s.name, vaddr_start |-> m.vaddr + s.offset - FixFileOffset(m), size |-> s.size]

Reaches(s, o) == s.offset <= o /\ o < s.offset + s.reach

\* One of the named stretches at the address is returned, or an error if there is none.
Resolve(a) ==
  /\ verdict' \in Judged
  /\ LET found == IF Mapped(a) /\ verdict'[Home(a).path] = "open"
                  THEN {Placed(Home(a), s) : s \in {t \in Named[Home(a).path] : Reaches(t, OffsetOf(Home(a), a))}}
                  ELSE {}
     IN  \E symbol \in (IF found = {} THEN {{}} ELSE {{s} : s \in found}) :
           answer' = [addr |-> a, want |-> 0, bytes |-> <<>>, symbol |-> symbol]
  /\ UNCHANGED space

Next == \/ Map
        \/ Judge
        \/ \E a \in Address : Resolve(a) \/ \E n \in 1 .. MaxWant : Read(a, n)

Spec == Init /\ [][Next]_vars
=============================================================================
