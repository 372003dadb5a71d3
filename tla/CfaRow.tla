------------------------------- MODULE CfaRow -------------------------------
(***************************************************************************)
(* One row of the unwind table from end to end: the DWARF rules of a frame *)
(* become a compact row (process, in unwind_info/convert.rs), and the BPF  *)
(* unwinder computes the caller's registers from it (dwarf_unwind).  The   *)
(* offsets have the widths they have in the row.                           *)
(*                                                                         *)
(* Addresses are symbolic: [base, offset, add] is base + offset + add for  *)
(* a register base, and *(sp + offset) + add for the base "deref".  The    *)
(* base "none" is the 0 that a failed read leaves.                         *)
(***************************************************************************)
EXTENDS Integers

CONSTANTS
    Arch,            \* "x86" or "arm64"
    Kinds,           \* kinds of CFA rules, see CfaRules
    Offsets,         \* offsets of registers
    DerefOffsets, Additions,
    Nibbles          \* values of ip & 15

\* The offsets are i64 in DWARF, the additions u64.
ASSUME RowAssumption ==
    /\ Offsets \subseteq Int /\ DerefOffsets \subseteq Int
    /\ Additions \subseteq Nat
    /\ Nibbles \subseteq 0..15

VARIABLES
    rule,            \* [cfa, rbp, ra_undefined], what DWARF says
    row,             \* the CompactUnwindRow made of it
    ip,              \* the low bits of the instruction pointer
    frames,          \* ulen, frames in the sample: 0 at the leaf frame, else 1 or more
    caller,          \* what the unwinder made of it: [result, cfa, rbp, rip]
    stage            \* "start", "converted", "stepped"

rowVars == <<rule, row, ip, frames, caller, stage>>

CfaRule == [kind : {"register"}, reg : {"fp", "sp", "other"}, offset : Offsets, add : {0}]
    \cup [kind : {"deref"}, reg : {"sp", "other"}, offset : DerefOffsets, add : Additions]
    \cup [kind : {"plt1", "plt2", "expression", "end"}, reg : {"sp"}, offset : {0}, add : {0}]

\* "computed" are the rules that say how to compute rbp, not where it is: ValExpression,
\* Constant and Architectural.
RbpRule == [kind : {"offset", "val_offset"}, offset : Offsets]
    \cup [kind : {"undefined", "same_value", "register", "expression", "computed"}, offset : {0}]

Address(base, offset, add) == [base |-> base, offset |-> offset, add |-> add]
Nowhere == Address("none", 0, 0)
Stopped(result) == [result |-> result, cfa |-> Nowhere, rbp |-> Nowhere, rip |-> Nowhere]

Row(cfa_type, rbp_type, cfa_offset, rbp_offset) ==
    [cfa_type |-> cfa_type, rbp_type |-> rbp_type,
     cfa_offset |-> cfa_offset, rbp_offset |-> rbp_offset]

RowInit ==
    /\ \E cfa \in {c \in CfaRule : c.kind \in Kinds}, rbp \in RbpRule, ra \in BOOLEAN :
           rule = [cfa |-> cfa, rbp |-> rbp, ra_undefined |-> ra]
    /\ row = Row("Unknown", "Unchanged", 0, 0)
    /\ ip \in Nibbles
    /\ frames \in 0..1
    /\ caller = Stopped("none")
    /\ stage = "start"

-----------------------------------------------------------------------------
\* The conversion.

FitsU16(n) == n \in 0..(2^16 - 1)
FitsU15(n) == n \in 0..(2^15 - 1)
FitsI16(n) == n \in -(2^15)..(2^15 - 1)

RegisterType(reg) ==
    CASE reg = "fp" -> "FramePointerOffset"
      [] reg = "sp" -> "StackPointerOffset"
      [] OTHER      -> "UnsupportedRegisterOffset"

\* m | n, bit by bit: of a byte, and of a u16.
OrBit(m, n, bit) == IF (m \div bit) % 2 = 1 \/ (n \div bit) % 2 = 1 THEN bit ELSE 0
OrByte(m, n) ==
    OrBit(m, n, 1) + OrBit(m, n, 2) + OrBit(m, n, 4) + OrBit(m, n, 8)
    + OrBit(m, n, 16) + OrBit(m, n, 32) + OrBit(m, n, 64) + OrBit(m, n, 128)
OrU16(m, n) == 2^8 * OrByte(m \div 2^8, n \div 2^8) + OrByte(m % 2^8, n % 2^8)

AdditionFirst(offset, add) == OrU16((add * 2^8) % 2^16, offset % 2^16)
\* ((offset as u16) << 8) | (addition as u16)
DerefAndAdd(offset, add) == OrU16((offset * 2^8) % 2^16, add % 2^16)

\* The type and offset of the CFA in the row.
ConvertCfa(c) ==
    CASE c.kind = "end"                      -> <<"EndFdeMarker", 0>>
      [] c.kind = "register"                 ->
           IF FitsU16(c.offset) THEN <<RegisterType(c.reg), c.offset>> ELSE <<"OffsetDidNotFit", 0>>
      [] c.kind = "plt1"                     -> <<"Plt1", 0>>
      [] c.kind = "plt2"                     -> <<"Plt2", 0>>
      [] c.kind = "deref" /\ c.reg = "sp"    -> <<"DerefAndAdd", DerefAndAdd(c.offset, c.add)>>
      [] OTHER                               -> <<"UnsupportedExpression", 0>>

EitherUndefined(r, ra_undefined) == ra_undefined \/ r.kind = "undefined"
\* The return address has no rule: only the outermost frame's has not.
NoCaller(r, ra_undefined) == ra_undefined

\* The type and offset of rbp in the row; an undefined return address wins.
ConvertRbp(r, ra_undefined) ==
    LET fits == r.kind = "offset" /\ FitsI16(r.offset)
        type ==
            CASE r.kind = "offset"     -> IF fits THEN "CfaOffset" ELSE "OffsetDidNotFit"
              [] r.kind = "register"   -> "Register"
              [] r.kind = "expression" -> "Expression"
              [] OTHER                 -> "Unchanged"
    IN  << IF NoCaller(r, ra_undefined) THEN "UndefinedReturnAddress" ELSE type,
           IF fits THEN r.offset ELSE 0 >>

ConvertRow(r) ==
    LET cfa == ConvertCfa(r.cfa)
        rbp == IF r.cfa.kind = "end" THEN <<"Unchanged", 0>>
               ELSE ConvertRbp(r.rbp, r.ra_undefined)
    IN  Row(cfa[1], rbp[1], cfa[2], rbp[2])

convert_row ==
    /\ stage = "start"
    /\ row' = ConvertRow(rule)
    /\ stage' = "converted"
    /\ UNCHANGED <<rule, ip, frames, caller>>

-----------------------------------------------------------------------------
\* The unwinder's step.

\* A u16 read into an s16.
S16(n) == IF n >= 2^15 THEN n - 2^16 ELSE n

\* bp or sp plus the offset.
RegisterCfa(type, n) == Address(IF type = "StackPointerOffset" THEN "sp" ELSE "fp", n, 0)

\* 11 ? found_cfa_type == CFA_TYPE_PLT1 : 10
PltThreshold == IF row.cfa_type = "Plt1" THEN 1 ELSE 0

\* The row stops the walk before a CFA is computed: the first check that applies.
StopsAt ==
    IF row.cfa_type = "OffsetDidNotFit" THEN "cfa_offset_did_not_fit"
    ELSE IF row.cfa_type = "EndFdeMarker" THEN "bottom"
    ELSE IF row.rbp_type = "OffsetDidNotFit" THEN "rbp_offset_did_not_fit"
    ELSE IF row.rbp_type = "UndefinedReturnAddress" THEN "bottom"
    ELSE IF row.rbp_type \in {"Register", "Expression"} THEN "unsupported_frame_pointer_action"
    ELSE IF row.cfa_type = "UnsupportedExpression" THEN "unsupported_expression"
    ELSE IF row.cfa_type \in {"Plt1", "Plt2"} /\ PltThreshold = 0 THEN "should_never_happen"
    ELSE IF row.cfa_type = "UnsupportedRegisterOffset" THEN "unsupported_cfa_register"
    ELSE "no"

\* previous_rsp, when *(rsp + offset) can or cannot be read.
PreviousRsp(readable) ==
    LET n == S16(row.cfa_offset)
    IN  CASE row.cfa_type = "Plt1" ->
               Address("sp", 8, IF ip >= PltThreshold THEN 8 ELSE 0)
          [] row.cfa_type = "DerefAndAdd" ->
               IF readable THEN Address("deref", (n \div 2^8) % 2^8, n % 2^8)
               ELSE Address("none", 0, n % 2^8)
          [] OTHER -> RegisterCfa(row.cfa_type, n)

\* Address 0 and those around it cannot be read.
CanRead(address) == address.base # "none"

\* The address the caller's rbp is at, and the register itself.
RbpAddress(cfa) == [cfa EXCEPT !.add = @ + row.rbp_offset]
PreviousRbp(cfa) == IF row.rbp_type = "Unchanged" THEN Address("fp", 0, 0) ELSE RbpAddress(cfa)

\* The frame is added to the sample once its row did not stop the walk.
FrameAdded == StopsAt \notin {"cfa_offset_did_not_fit", "bottom", "rbp_offset_did_not_fit"}

\* Where the return address is read from, with n frames in the sample: at 0 when
\* it was taken from the link register.
PreviousRip(cfa, n) ==
    IF Arch = "x86" THEN [cfa EXCEPT !.add = @ - 8]
    ELSE IF n = 0 THEN Nowhere
    ELSE [RbpAddress(cfa) EXCEPT !.add = @ + 8]

\* Reads of the stack may fail: of the CFA (its error is counted and the walk
\* goes on), of rbp, and of the return address, which may be 0 as well.
dwarf_unwind_step ==
    /\ stage = "converted"
    /\ frames' = IF FrameAdded THEN frames + 1 ELSE frames
    /\ \/ StopsAt # "no" /\ caller' = Stopped(StopsAt)
       \/ /\ StopsAt = "no"
          /\ \E cfa_readable, rbp_readable, rip_readable \in BOOLEAN :
                LET cfa == PreviousRsp(cfa_readable)
                    rip == PreviousRip(cfa, frames')
                IN  caller' =
                      IF cfa = Nowhere THEN Stopped("previous_rsp_zero")
                      ELSE IF row.rbp_type # "Unchanged" /\ ~(rbp_readable /\ CanRead(cfa))
                      THEN Stopped("previous_rbp_read")
                      ELSE IF ~(rip_readable /\ CanRead(rip)) THEN Stopped("previous_rip_zero")
                      ELSE [result |-> "frame", cfa |-> cfa,
                            rbp |-> PreviousRbp(cfa), rip |-> rip]
    /\ stage' = "stepped"
    /\ UNCHANGED <<rule, row, ip>>

RowNext == convert_row \/ dwarf_unwind_step

RowSpec == RowInit /\ [][RowNext]_rowVars

-----------------------------------------------------------------------------
\* What DWARF defines the frame's CFA and the caller's rbp to be.
DwarfCfa ==
    LET c == rule.cfa
    IN  CASE c.kind = "register" -> Address(c.reg, c.offset, 0)
          [] c.kind = "deref"    -> Address("deref", c.offset, c.add)
          [] c.kind = "plt1"     -> Address("sp", 8, IF ip >= 11 THEN 8 ELSE 0)
          [] c.kind = "plt2"     -> Address("sp", 8, IF ip >= 10 THEN 8 ELSE 0)
          [] OTHER               -> Nowhere

DwarfRbp ==
    CASE rule.rbp.kind = "offset"                    -> [DwarfCfa EXCEPT !.add = @ + rule.rbp.offset]
      [] rule.rbp.kind \in {"undefined", "same_value"} -> Address("fp", 0, 0)
      [] OTHER                                       -> Address("value", rule.rbp.offset, 0)

\* The CFA rules that the conversion and the unwinder read differently: within a PLT
\* stub (its threshold is taken for 1 and not for 11), offsets that a u16 holds and an
\* s16 does not, and a dereference whose offset or addition is not a byte.
ReadDifferently(c) ==
    \/ c.kind = "plt1" /\ ip \in 1..10
    \/ c.kind = "register" /\ c.offset >= 2^15
    \/ c.kind = "deref" /\ (c.offset \notin 0..(2^8 - 1) \/ c.add >= 2^8)

\* The rules for rbp that the conversion passes over, so that rbp is taken to be
\* unchanged.
RbpPassedOver(r) == r.kind \in {"val_offset", "computed"}

\* Whatever else the conversion packs into a row, the unwinder gets back: a frame it
\* steps to is the frame DWARF describes (convert.rs:157-245 against
\* profiler.bpf.c:414-519), and it never steps past the bottom of the stack.  The
\* exceptions are the CFA rules of ReadDifferently and, for rbp alone, the rules that
\* fall into the last arm of the conversion (convert.rs:239-241).
StepFollowsDwarf ==
    caller.result = "frame" =>
        /\ caller.cfa = DwarfCfa \/ ReadDifferently(rule.cfa)
        /\ caller.rbp = DwarfRbp \/ ReadDifferently(rule.cfa) \/ RbpPassedOver(rule.rbp)
        /\ ~rule.ra_undefined /\ rule.cfa.kind # "end"

\* The bottom of the stack is only found where it is: at the end of a function or
\* where the return address is undefined (profiler.bpf.c:427-444).
BottomIsBottom ==
    caller.result = "bottom" => rule.cfa.kind = "end" \/ rule.ra_undefined

\* A frame whose rules the row can hold, or passes over, is only given up when its
\* stack cannot be read (profiler.bpf.c:422-555).
SupportedIsUnwound ==
    /\ stage = "stepped"
    /\ rule.cfa.kind = "register" => rule.cfa.reg # "other" /\ rule.cfa.offset \in 0..(2^15 - 1)
    /\ rule.cfa.kind = "deref" => rule.cfa.reg = "sp"
    /\ rule.cfa.kind \notin {"expression", "plt2"}
    /\ rule.rbp.kind \notin {"register", "expression"}
    /\ rule.rbp.kind = "offset" => rule.rbp.offset \in -(2^15)..(2^15 - 1)
    => caller.result \in {"frame", "bottom", "previous_rsp_zero", "previous_rbp_read",
                         "previous_rip_zero"}
=============================================================================
