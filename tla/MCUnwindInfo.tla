---------------------------- MODULE MCUnwindInfo -----------------------------
(***************************************************************************)
(* Executables of two functions over three pages of four addresses.          *)
(***************************************************************************)
EXTENDS UnwindInfo

SortedTable(S) ==
    [k \in 0..Cardinality(S) - 1 |-> CHOOSE x \in S : Cardinality({y \in S : y < x}) = k]

MCTables == {SortedTable(S) : S \in SUBSET (0..MAX_PC) \ {{}}}
MCOverrides == {NoAddress, 2}
==============================================================================
