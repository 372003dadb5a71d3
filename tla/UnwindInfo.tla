----------------------------- MODULE UnwindInfo ------------------------------
(***************************************************************************)
(* An executable's unwind information from its FDEs to the unwinder's      *)
(* lookup: CompactUnwindInfo makes the table, and UnwindTable splits it in *)
(* pages, searches it and drops it again.                                  *)
(*                                                                         *)
(* Functions do not overlap, have at least one byte and arrive sorted      *)
(* (pc_and_fde_offset); the rows of one follow each other at increasing    *)
(* addresses from its start.                                               *)
(***************************************************************************)
EXTENDS UnwindTable, CompactUnwindInfo

CONSTANTS
    Rule,        \* what rows say of the frame, the marker aside
    Overrides,   \* the addresses where unwinding may be made to stop, or NoAddress
    MAX_FDES,    \* bound: functions in an executable
    FDE_ROWS     \* bound: rows of a function

\* The marker and the row that is none are no rules of a function.
ASSUME UnwindInfoAssumption ==
    /\ EndFdeMarker \notin Rule /\ NoRow \notin Rule
    /\ MAX_FDES \in Nat /\ FDE_ROWS \in Nat

VARIABLES
    fdes,                    \* the functions of the executable: [start, end, rows]
    first_frame_override,
    unwind_info              \* the compact rows

infoVars == <<fdes, first_frame_override, unwind_info>>

NonEmptySeq(S, n) == UNION {[1..m -> S] : m \in 1..n}

FdeRows(start, end) ==
    {rows \in NonEmptySeq([pc : start..end - 1, rule : Rule], FDE_ROWS) :
        /\ rows[1].pc = start
        /\ \A k \in 2..Len(rows) : rows[k - 1].pc < rows[k].pc}

FdesFrom(start) == UNION {[start : {start}, end : {end}, rows : FdeRows(start, end)] : end \in 1..MAX_PC}
Fdes == UNION {FdesFrom(start) : start \in 0..MAX_PC - 1}

FdeLists ==
    {list \in NonEmptySeq(Fdes, MAX_FDES) :
        \A k \in 2..Len(list) : list[k - 1].end <= list[k].start}

InfoInit ==
    /\ fdes \in FdeLists
    /\ first_frame_override \in Overrides
    /\ unwind_info = compact_unwind_info(fdes, first_frame_override)
    /\ table = [k \in 0..Len(unwind_info) - 1 |-> unwind_info[k + 1].pc]
    /\ IndexInit

InfoNext == Next /\ UNCHANGED infoVars

InfoSpec == InfoInit /\ [][InfoNext]_<<vars, infoVars>>

-----------------------------------------------------------------------------
\* What rows say of an address: the rule of the last one at or below it.
RuleAt(rows, addr) ==
    LET below == {k \in DOMAIN rows : rows[k].pc <= addr}
    IN  IF below = {} THEN NoRow ELSE rows[CHOOSE k \in below : \A j \in below : j <= k].rule

\* What the functions say of an address: the rule of the function it is in, or
\* that unwinding stops there.
RuleOfFunctions(addr) ==
    LET inside == {k \in DOMAIN fdes : fdes[k].start <= addr /\ addr < fdes[k].end}
    IN  IF addr < fdes[1].start THEN NoRow
        ELSE IF inside = {} THEN EndFdeMarker
        ELSE LET rows == fdes[CHOOSE k \in inside : TRUE].rows
             IN  RuleAt([k \in DOMAIN rows |-> Overridden(rows[k], first_frame_override)], addr)

\* A function ends where unwinding is made to stop: remove_unnecesary_markers
\* then takes the earlier marker back and does not keep the later one either.
MarkerLost == \E k \in DOMAIN fdes : fdes[k].end = first_frame_override

\* The unwinder unwinds as the functions say: in a page that has rows, the row
\* that find_page and find_offset_for_pc (profiler.bpf.c:76-139) find for a
\* program counter carries the rule of the function around it, through
\* compaction, paging and the search by low bits.
UnwindsAsFunctionsSay ==
    phase = "found" /\ PageHasRows /\ table_idx \in DOMAIN table =>
        MarkerLost \/ unwind_info[table_idx + 1].rule = RuleOfFunctions(pc)
==============================================================================
