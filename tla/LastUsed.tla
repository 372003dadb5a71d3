------------------------------ MODULE LastUsed ------------------------------
(***************************************************************************)
(* The `last_used: Instant` fields by which the profiler picks eviction    *)
(* victims.  Only the order of two stamps is ever read, so a stamp is the  *)
(* number of entries that are strictly older: a table of stamps is a       *)
(* function from its keys to Nat, two entries stamped by the same          *)
(* Instant::now() share a stamp, and no clock has to grow.                 *)
(***************************************************************************)
EXTENDS Integers, FiniteSets

\* f with the entries S removed, the remaining stamps kept in order.
Drop(f, S) ==
    [x \in DOMAIN f \ S |-> Cardinality({y \in DOMAIN f \ S : f[y] < f[x]})]

\* f with the entries S (new or old) stamped with the current instant.
Stamp(f, S) ==
    [x \in DOMAIN f \cup S |->
        IF x \in S THEN Cardinality(DOMAIN f \ S) ELSE Drop(f, S)[x]]

\* The sets of n least recently used entries (all entries when there are fewer).
\* Ties are broken by the iteration order of a HashMap, that is, arbitrarily.
LeastRecentlyUsed(f, n) ==
    {S \in SUBSET DOMAIN f :
        /\ Cardinality(S) = (IF n < Cardinality(DOMAIN f) THEN n ELSE Cardinality(DOMAIN f))
        /\ \A x \in S, y \in DOMAIN f \ S : f[x] <= f[y]}
=============================================================================
