----------------------------- MODULE MCTracers -----------------------------
(***************************************************************************)
(* Two threads of one process, and the only thread of another one.  In the *)
(* first, data lies before code; a range covers the code, begins inside it *)
(* or begins before it.                                                    *)
(***************************************************************************)
EXTENDS Tracers

MCProcessOf == [t \in 1..3 |-> IF t = 3 THEN 3 ELSE 1]
Data == [start |-> 1, end |-> 2, kind |-> "data"]
Code == [start |-> 2, end |-> 4, kind |-> "exec"]
MCMappings == [p \in {1, 3} |-> IF p = 1 THEN {Data, Code} ELSE {Code}]
MCUnmaps ==
    [p \in {1, 3} |-> IF p = 1 THEN {[start |-> i, end |-> 4] : i \in 1..3}
                      ELSE {[start |-> 2, end |-> 4]}]
=============================================================================
