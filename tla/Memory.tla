------------------------------- MODULE Memory -------------------------------
(***************************************************************************)
(* What the kernel does to the mappings of a process when it removes a     *)
(* range of addresses: mappings go away whole, shrink or are split.  A     *)
(* mapping and a range are records with a start and an end, the first      *)
(* address behind them.                                                    *)
(***************************************************************************)
EXTENDS Integers

Contains(m, a) == m.start <= a /\ a < m.end

Overlap(m, r) == m.start < r.end /\ r.start < m.end

\* The mappings of a process do not overlap.
Disjoint(S) == \A m, n \in S : m = n \/ ~Overlap(m, n)

\* What is left of m: all of it, the part before r, the part behind r, both or none.
Pieces(m, r) ==
    {n \in {m, [m EXCEPT !.end = r.start], [m EXCEPT !.start = r.end]} :
        m.start <= n.start /\ n.start < n.end /\ n.end <= m.end /\ ~Overlap(n, r)}

\* The mappings S after the addresses of r were removed.
Unmapped(S, r) == UNION {Pieces(m, r) : m \in S}
=============================================================================
