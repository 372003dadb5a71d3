-------------------------- MODULE CompactUnwindInfo --------------------------
(***************************************************************************)
(* From the function descriptions (FDEs) of an executable to its compact   *)
(* unwind table: compact_unwind_info collects the rows of every function   *)
(* and a marker where it ends, then drops superfluous markers and repeated *)
(* rows, both in place.  It is one function of its inputs; UnwindInfo      *)
(* checks what it computes.                                                *)
(*                                                                         *)
(* A row is its program counter and what it says of the frame, `rule`: the *)
(* kinds and offsets of the row in one value.  A function is its addresses *)
(* [start, end) and its rows.                                              *)
(***************************************************************************)
EXTENDS Integers, Sequences

NoAddress == -1
EndFdeMarker == "EndFdeMarker"
NoRow == "NoRow"

Row(addr, rule) == [pc |-> addr, rule |-> rule]
stop_unwinding(addr) == Row(addr, EndFdeMarker)

-----------------------------------------------------------------------------
Overridden(row, override) == IF row.pc = override THEN stop_unwinding(row.pc) ELSE row

\* The marker where the function before ends, if there is one.
EndMarker(last_function_end_addr) ==
    IF last_function_end_addr = NoAddress THEN <<>> ELSE <<stop_unwinding(last_function_end_addr)>>

\* Where the function before the n-th ends.
FunctionEndBefore(fdes, n) == IF n = 1 THEN NoAddress ELSE fdes[n - 1].end

\* The callback for UnwindData::Function, and for UnwindData::Instruction for
\* each of the function's rows, over functions in the order of their addresses.
process(fdes, override) ==
    LET rows[n \in 0..Len(fdes)] ==
            IF n = 0 THEN <<>>
            ELSE rows[n - 1] \o EndMarker(FunctionEndBefore(fdes, n))
                             \o [k \in DOMAIN fdes[n].rows |-> Overridden(fdes[n].rows[k], override)]
    IN  rows[Len(fdes)]

\* The row before the n-th, kept or not.
Before(rows, n) == IF n = 1 THEN Row(NoAddress, NoRow) ELSE rows[n - 1]

\* new_i is set back by one.
WithoutLast(kept) == SubSeq(kept, 1, Len(kept) - 1)

\* The last row is taken back if it was a marker at the pc of the current row, and the
\* current row is not kept if it is a marker at the pc of the one before.
WithoutMarkers(kept, before, row) ==
    LET samePc == before.pc = row.pc
        earlier == IF samePc /\ before.rule = EndFdeMarker THEN WithoutLast(kept) ELSE kept
    IN  IF samePc /\ row.rule = EndFdeMarker THEN earlier ELSE Append(earlier, row)

\* The rows [0, new_i) that the in-place loop has kept.
remove_unnecesary_markers(rows) ==
    LET kept[n \in 0..Len(rows)] ==
            IF n = 0 THEN <<>> ELSE WithoutMarkers(kept[n - 1], Before(rows, n), rows[n])
    IN  kept[Len(rows)]

RedundantAnywhere(kept, before, row) == \E k \in DOMAIN kept : kept[k].rule = row.rule

\* A row that says what the row before it said, kept or not, is dropped.
Redundant(kept, before, row) == before.rule = row.rule

remove_redundant(rows) ==
    LET kept[n \in 0..Len(rows)] ==
            IF n = 0 THEN <<>>
            ELSE IF Redundant(kept[n - 1], Before(rows, n), rows[n]) THEN kept[n - 1]
            ELSE Append(kept[n - 1], rows[n])
    IN  kept[Len(rows)]

\* The last marker is added and the table made smaller.  No functions is an
\* error, which leaves no rows.
compact_unwind_info(fdes, override) ==
    IF fdes = <<>> THEN <<>>
    ELSE remove_redundant(remove_unnecesary_markers(
             process(fdes, override) \o EndMarker(fdes[Len(fdes)].end)))
=============================================================================
