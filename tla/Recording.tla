------------------------------ MODULE Recording ------------------------------
(***************************************************************************)
(* What profiling promises: samples are taken; those that can be reported  *)
(* are collected some time after, each at most once; and one report is     *)
(* written, of exactly what has been collected.  Samples may be lost, and  *)
(* there may be no report.                                                 *)
(***************************************************************************)
EXTENDS Integers

CONSTANTS
    Stack,         \* the stacks samples may have
    Reportable     \* those that a report may show

VARIABLES
    taken,         \* how often each stack was sampled
    collected,     \* how often each is in the profiles collected
    report         \* what is written, or none

vars == <<taken, collected, report>>

Init ==
    /\ taken = [s \in Stack |-> 0]
    /\ collected = [s \in Stack |-> 0]
    /\ report = <<>>

Take ==
    /\ \E s \in Stack : taken' = [taken EXCEPT ![s] = @ + 1]
    /\ UNCHANGED <<collected, report>>

\* Any number of samples of any stacks.
Collect ==
    /\ DOMAIN collected' = Stack
    /\ \A s \in Stack :
        collected'[s] \in collected[s]..(IF s \in Reportable THEN taken[s] ELSE 0)
    /\ UNCHANGED <<taken, report>>

Write ==
    /\ report' = <<collected>>
    /\ UNCHANGED <<taken, collected>>

Next == report = <<>> /\ (Take \/ Collect \/ Write)

Spec == Init /\ [][Next]_vars
=============================================================================
