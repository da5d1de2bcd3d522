------------------------------ MODULE MCAnalysis ------------------------------
(***************************************************************************)
(* Three files: in a, f is called within f and an error happens on every   *)
(* bound; in b, f takes no time; in c, two calls of f share an instant.    *)
(***************************************************************************)
EXTENDS Analysis

Call(name, s, e, chunks) == [name |-> name, start |-> s, end |-> e, chunks |-> chunks]

SmallContents == [n \in File |->
  CASE n = "a" -> [frames |-> << Call("main", 0, 7, <<2, 0, 4>>), Call("f", 1, 5, <<0, 3>>),
                                 Call("f", 2, 3, <<>>), Call("g", 6, 7, <<>>) >>,
                   errors |-> <<1, 2, 3, 5>>, interrupts |-> <<6>>]
    [] n = "b" -> [frames |-> << Call("main", 0, 3, <<2>>), Call("f", 1, 1, <<>>) >>,
                   errors |-> <<1>>, interrupts |-> <<>>]
    [] OTHER   -> [frames |-> << Call("main", 1, 4, <<2, 3>>), Call("f", 1, 2, <<>>),
                                 Call("f", 2, 4, <<>>) >>,
                   errors |-> <<2, 4>>, interrupts |-> <<0, 3>>]]

AnyNumber == [min |-> 0, max |-> 99]

FilterOf(target, latency, errors, interrupts) ==
  [target |-> target, latency |-> latency, errors |-> errors, interrupts |-> interrupts]

SmallFilters == { FilterOf({"f"}, AnyNumber, [min |-> 0, max |-> 3], AnyNumber),
                  FilterOf({"f"}, [min |-> 1, max |-> 99], [min |-> 2, max |-> 2], AnyNumber),
                  FilterOf({"f", "g"}, AnyNumber, AnyNumber, [min |-> 1, max |-> 99]),
                  FilterOf(RootOnly, [min |-> 0, max |-> 6], AnyNumber, [min |-> 0, max |-> 1]) }

SmallTargets == {{"f"}, {"main", "f", "g"}}
=============================================================================
