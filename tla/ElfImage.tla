------------------------------- MODULE ElfImage -------------------------------
(***************************************************************************)
(* The image a thread's trace is decoded with (ElfImage, ElfCache,         *)
(* PltLookup in process-trace/src/elf_image.rs, SymbolCache in             *)
(* symbol_cache.rs): code and symbols of an address, from the files that   *)
(* are mapped there.                                                       *)
(*                                                                         *)
(* A file is prepared when it is first needed, and whether that worked is  *)
(* remembered for good; whether it works is up to the file system.         *)
(* Symbols are cached by the address they start at.  One request is        *)
(* answered at a time; a read goes on, one step per mapping, for as long   *)
(* as the next address is mapped.                                          *)
(***************************************************************************)
EXTENDS MemoryMap

CONSTANTS Address, MaxWant,
          Mappings,   \* the mappings that occur in the recording
          Symbols,    \* [Path -> set of symbols: name, offset, size, reach]
          Plt,        \* [Path -> base, size and entries of the .plt section]
          StubSize    \* X86_64_PLT_STUB_SIZE and X86_64_PLT0_SIZE

ASSUME AddressAssumption == Address \subseteq Nat /\ MaxWant \in Nat

VARIABLES mappings, elf_cache, symbol_cache, request, answer

imageVars == <<mappings, elf_cache, symbol_cache, request, answer>>

NoRequest == [addr |-> 0, want |-> 0, bytes |-> <<>>]
NoAnswer  == [addr |-> 0, want |-> 0, bytes |-> <<>>, symbol |-> {}]

\* the stub that PltLookup::lookup finds at an offset, if there is one
Stubs(p) == {[name |-> Plt[p].entries[i], offset |-> Plt[p].base + i * StubSize,
              size |-> StubSize, reach |-> StubSize] :
                i \in {j \in DOMAIN Plt[p].entries : j * StubSize < Plt[p].size}}

Reached(s, o) == s.offset <= o /\ o < s.offset + s.reach

\* Offsets and sizes are natural numbers, and a stub is not empty.
ASSUME SymbolsAssumption ==
  /\ TextOffset \in [Path -> Nat \cup {NoText}]
  /\ StubSize \in Nat \ {0}
  /\ \A p \in Path : /\ Plt[p].base \in Nat /\ DOMAIN Plt[p].entries \subseteq Nat
                    /\ \A s \in Symbols[p] : s.offset \in Nat /\ s.size \in Nat /\ s.reach \in Nat

(***************************************************************************)
(* What a linker provides: a symbol or stub lies in one mapping, no symbol *)
(* reaches into a stub, and stubs are aligned in memory as in the file.    *)
(* A symbol of size 0 (assembly) reaches up to the next one.               *)
(***************************************************************************)
ASSUME LinkAssumption ==
  /\ Mappings \subseteq Mapping
  /\ \A m \in Mappings : \A s \in Symbols[m.path] \cup Stubs(m.path) :
       LET first == FixFileOffset(m)
           end   == FixFileOffset(m) + m.size
       IN  \/ s.offset + s.reach <= first \/ end <= s.offset
           \/ first <= s.offset /\ s.offset + s.reach <= end /\ s.size \in {0, s.reach}
  /\ \A p \in Path : \A s \in Symbols[p], t \in Stubs(p) :
       s.offset + s.reach <= t.offset \/ t.offset + t.size <= s.offset
  /\ \A m \in Mappings : Plt[m.path].entries # <<>> =>
       m.vaddr % StubSize = 0 /\ FixFileOffset(m) % StubSize = 0 /\ Plt[m.path].base % StubSize = 0

ImageInit == /\ mappings = <<>>
             /\ elf_cache = [p \in Path |-> "unknown"]
             /\ symbol_cache = {}
             /\ request = NoRequest
             /\ answer = NoAnswer

\* ElfCache::open: prepared on first use, with either result
Open(m) == /\ elf_cache' \in {[elf_cache EXCEPT ![m.path] = r] :
                                r \in IF elf_cache[m.path] = "unknown" THEN {"open", "failed"}
                                      ELSE {elf_cache[m.path]}}

-----------------------------------------------------------------------------
(* ElfImage::read_chunk *)

BeginRead(a, n) ==
  /\ request = NoRequest
  /\ request' = [addr |-> a, want |-> n, bytes |-> <<>>]
  /\ UNCHANGED <<mappings, elf_cache, symbol_cache, answer>>

NextAddress == request.addr + Len(request.bytes)

Reply(bytes) ==
  /\ answer' = [addr |-> request.addr, want |-> request.want, bytes |-> bytes, symbol |-> {}]
  /\ request' = NoRequest

Smaller(m, n) == IF m < n THEN m ELSE n

\* Mapping::read: up to the end of the mapping
BytesOf(m, a, n) ==
  [i \in 1 .. Smaller(n, VaddrEnd(m) - a) |-> <<m.path, OffsetOf(m, a + i - 1)>>]

\* a round of the loop: what the mapping at the next address has, or its error
ReadMapping ==
  /\ request # NoRequest
  /\ Len(request.bytes) < request.want
  /\ \E found \in FindMapping(mappings, NextAddress) : \E m \in found :
       /\ Open(m)
       /\ IF elf_cache'[m.path] = "open" /\ InsideFile(m)
          THEN /\ request' = [request EXCEPT
                    !.bytes = @ \o BytesOf(m, NextAddress, request.want - Len(@))]
               /\ UNCHANGED answer
          ELSE Reply(<<>>)
  /\ UNCHANGED <<mappings, symbol_cache>>

\* the loop ends; having read nothing is an error
EndRead ==
  /\ request # NoRequest
  /\ \/ Len(request.bytes) = request.want
     \/ {} \in FindMapping(mappings, NextAddress)
  /\ Reply(request.bytes)
  /\ UNCHANGED <<mappings, elf_cache, symbol_cache>>

-----------------------------------------------------------------------------
(* ElfImage::resolve_symbol *)

\* SymbolCache::get looks only at the last symbol that starts at or before the address.
LastBefore(a) ==
  {s \in symbol_cache : /\ s.vaddr_start <= a
                        /\ \A t \in symbol_cache : t.vaddr_start <= a => t.vaddr_start <= s.vaddr_start}

\* mutated form: does not ask whether the symbol contains the address
CachedBefore(a) == LastBefore(a)

Cached(a) == {s \in LastBefore(a) : a < s.vaddr_start + s.size}

\* SymbolCache::insert replaces a symbol that starts at the same address.
CacheWith(s) == {t \in symbol_cache : t.vaddr_start # s.vaddr_start} \cup {s}

Symbol(name, start, size) == [name |-> name, vaddr_start |-> start, size |-> size]

\* Mapping::resolve_symbol: a PLT stub, or one of the symbols the symbolizer may choose
FreshSymbols(m, a) ==
  LET o     == OffsetOf(m, a)
      stubs == {s \in Stubs(m.path) : Reached(s, o)}
  IN  IF stubs # {}
      THEN {Symbol(s.name, a - (a % StubSize), StubSize) : s \in stubs}
      ELSE {Symbol(s.name, a - (o - s.offset), s.size) : s \in {t \in Symbols[m.path] : Reached(t, o)}}

AnswerSymbol(a, symbol) == answer' = [addr |-> a, want |-> 0, bytes |-> <<>>, symbol |-> symbol]

ResolveFromCache(a) ==
  /\ request = NoRequest
  /\ \E s \in Cached(a) : AnswerSymbol(a, {s})
  /\ UNCHANGED <<mappings, elf_cache, symbol_cache, request>>

ResolveFresh(a) ==
  /\ request = NoRequest
  /\ Cached(a) = {}
  /\ \E found \in FindMapping(mappings, a) : \E m \in found :
       /\ Open(m)
       /\ elf_cache'[m.path] = "open"
       /\ \E s \in FreshSymbols(m, a) : AnswerSymbol(a, {s}) /\ symbol_cache' = CacheWith(s)
  /\ UNCHANGED <<mappings, request>>

ResolveFails(a) ==
  /\ request = NoRequest
  /\ Cached(a) = {}
  /\ AnswerSymbol(a, {})
  /\ \E found \in FindMapping(mappings, a) :
       \/ found = {} /\ UNCHANGED elf_cache
       \/ \E m \in found : /\ Open(m)
                           /\ elf_cache'[m.path] = "open" => FreshSymbols(m, a) = {}
  /\ UNCHANGED <<mappings, symbol_cache, request>>

ImageNext ==
  \/ \E a \in Address : \/ \E n \in 1 .. MaxWant : BeginRead(a, n)
                        \/ ResolveFromCache(a) \/ ResolveFresh(a) \/ ResolveFails(a)
  \/ ReadMapping
  \/ EndRead
=============================================================================
