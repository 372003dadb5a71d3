---------------------------- MODULE SampleProofs ----------------------------
(***************************************************************************)
(* Proofs about a sample on its way: what the unwinder does with a stack   *)
(* and with a row, and what becomes of the sample in the session.          *)
(***************************************************************************)
EXTENDS Unwinder, CfaRow, Session, FiniteSetTheorems, TLAPS

-----------------------------------------------------------------------------
(***************************************************************************)
(* Unwinder, whatever its limits: while the walk goes on, the frames       *)
(* walked are exactly the iterations made, so that the tail calls run out  *)
(* only after MAX_STACK_DEPTH frames.                                      *)
(***************************************************************************)

IterationsMade ==
    phase = "walking" => frame = tail_calls * MAX_STACK_DEPTH_PER_PROGRAM + i

RecordedFrames ==
    phase # "idle" => ulen = (IF frame < MAX_STACK_DEPTH THEN frame ELSE MAX_STACK_DEPTH)

AtBottom ==
    phase \in {"bottom", "sent"} =>
        /\ frame = stack.depth /\ stack.whole
        /\ i < MAX_STACK_DEPTH_PER_PROGRAM

SentKernelStack == phase = "sent" /\ ulen < MAX_STACK_DEPTH => klen = stack.kernel

WalkInv ==
    TypeOK /\ IterationsMade /\ RecordedFrames /\ AtBottom /\ SentKernelStack /\ ShortStacksFinish

LEMMA Programs ==
    \A t, d \in Nat : (t + 1) * d = t * d + d
  BY Z3

LEMMA StackFields ==
    ASSUME stack \in Stacks \cup {NoStack}
    PROVE  stack.depth \in Nat /\ stack.kernel \in 0..MAX_STACK_DEPTH
<1>1. CASE stack \in Stacks
  BY <1>1, UnwinderAssumption, Zenon DEF Stacks
<1>2. CASE stack = NoStack
  BY <1>2, UnwinderAssumption DEF NoStack
<1> QED
  BY <1>1, <1>2

\* Running out of tail calls means that MAX_STACK_DEPTH frames were walked.
LEMMA TailCallsSuffice ==
    ASSUME TypeOK, IterationsMade, phase = "walking",
           i = MAX_STACK_DEPTH_PER_PROGRAM, tail_calls = MAX_TAIL_CALLS
    PROVE  frame >= MAX_STACK_DEPTH
<1>1. frame = MAX_TAIL_CALLS * MAX_STACK_DEPTH_PER_PROGRAM + MAX_STACK_DEPTH_PER_PROGRAM
  BY DEF IterationsMade
<1>2. MAX_TAIL_CALLS * MAX_STACK_DEPTH_PER_PROGRAM \in Nat
  BY UnwinderAssumption
<1> QED
  BY <1>1, <1>2, UnwinderAssumption

LEMMA BumpType ==
    ASSUME StatsOK, NEW S
    PROVE  Bump(S) \in [Counters -> Nat]
  BY DEF StatsOK, Bump

\* Every step leaves the statistics natural numbers.
LEMMA StatsNext ==
    ASSUME StatsOK, [UnwinderNext]_unwinderVars
    PROVE  StatsOK'
<1> USE DEF StatsOK
<1>1. CASE set_initial_state
  BY <1>1, BumpType DEF set_initial_state
<1>2. CASE unwind_frame
  BY <1>2, BumpType DEF unwind_frame
<1>3. CASE reached_bottom_of_stack
  BY <1>3 DEF reached_bottom_of_stack
<1>4. CASE give_up
  BY <1>4, BumpType DEF give_up
<1>5. CASE tail_call
  BY <1>5 DEF tail_call
<1>6. CASE truncated
  BY <1>6, BumpType DEF truncated
<1>7. CASE add_stack
  BY <1>7, BumpType DEF add_stack
<1>8. CASE UNCHANGED unwinderVars
  BY <1>8 DEF unwinderVars
<1> QED
  BY <1>1, <1>2, <1>3, <1>4, <1>5, <1>6, <1>7, <1>8 DEF UnwinderNext

LEMMA WalkInit == UnwinderInit => WalkInv
  BY UnwinderAssumption DEF UnwinderInit, WalkInv, TypeOK, IterationsMade, RecordedFrames, AtBottom,
     SentKernelStack, ShortStacksFinish, NoStack, Stacks, StatsOK

LEMMA WalkNext == WalkInv /\ [UnwinderNext]_unwinderVars => WalkInv'
<1> SUFFICES ASSUME WalkInv, [UnwinderNext]_unwinderVars PROVE WalkInv'
  OBVIOUS
<1> USE UnwinderAssumption
<1> USE DEF WalkInv, TypeOK, IterationsMade, RecordedFrames, AtBottom, SentKernelStack,
            ShortStacksFinish
<1>0. StatsOK'
  BY StatsNext
<1>1. CASE set_initial_state
  <2>1. 0 * MAX_STACK_DEPTH_PER_PROGRAM + 0 = 0
    OBVIOUS
  <2>2. stack'.depth \in Nat
    BY <1>1, Zenon DEF set_initial_state, Stacks
  <2> QED
    BY <1>0, <1>1, <2>1, <2>2 DEF set_initial_state
<1>2. CASE unwind_frame
  <2>1. tail_calls * MAX_STACK_DEPTH_PER_PROGRAM \in Nat
    OBVIOUS
  <2>2. stack.depth \in Nat /\ frame + 1 \in 0..stack.depth
    BY <1>0, <1>2, StackFields DEF unwind_frame
  <2> QED
    BY <1>0, <1>2, <2>1, <2>2 DEF unwind_frame, AddFrame
<1>3. CASE reached_bottom_of_stack
  BY <1>0, <1>3 DEF reached_bottom_of_stack
<1>4. CASE give_up
  BY <1>0, <1>4 DEF give_up
<1>5. CASE tail_call
  <2>1. (tail_calls + 1) * MAX_STACK_DEPTH_PER_PROGRAM =
        tail_calls * MAX_STACK_DEPTH_PER_PROGRAM + MAX_STACK_DEPTH_PER_PROGRAM
    BY Programs
  <2>2. (tail_calls + 1) * MAX_STACK_DEPTH_PER_PROGRAM \in Nat
    OBVIOUS
  <2> QED
    BY <1>0, <1>5, <2>1, <2>2 DEF tail_call, CanTailCall
<1>6. CASE truncated
  <2>1. stack.depth \in Nat /\ frame \in Nat /\ frame <= stack.depth
    BY StackFields
  <2>2. frame >= MAX_STACK_DEPTH
    <3>1. CASE ulen < MAX_STACK_DEPTH
      <4>1. tail_calls = MAX_TAIL_CALLS
        BY <1>0, <1>6, <3>1 DEF truncated, CanTailCall
      <4> QED
        BY <1>0, <1>6, <4>1, TailCallsSuffice DEF truncated
    <3>2. CASE ~(ulen < MAX_STACK_DEPTH)
      BY <1>0, <1>6, <2>1, <3>2 DEF truncated
    <3> QED
      BY <3>1, <3>2
  <2> QED
    BY <1>0, <1>6, <2>1, <2>2 DEF truncated
<1>7. CASE add_stack
  <2>1. KernelStack(stack.kernel) \in 0..MAX_STACK_DEPTH
    BY StackFields DEF KernelStack
  <2>2. phase' \in {"sent", "discarded"}
    BY <1>0, <1>7 DEF add_stack
  <2> QED
    BY <1>0, <1>7, <2>1, <2>2 DEF add_stack, KernelStack
<1>8. CASE UNCHANGED unwinderVars
  BY <1>0, <1>8 DEF unwinderVars
<1> QED
  BY <1>1, <1>2, <1>3, <1>4, <1>5, <1>6, <1>7, <1>8, Zenon DEF UnwinderNext

LEMMA WalkAlways == UnwinderSpec => []WalkInv
  BY WalkInit, WalkNext, PTL DEF UnwinderSpec

\* The sample in the heap never leaves its bounds, for every stack and every
\* value of the limits (add_stack and dwarf_unwind, profiler.bpf.c:261-607).
THEOREM SampleStaysInBounds == UnwinderSpec => []TypeOK
<1>1. WalkInv => TypeOK
  BY DEF WalkInv
<1> QED
  BY <1>1, WalkAlways, PTL

\* The static assertion MAX_TAIL_CALLS * MAX_STACK_DEPTH_PER_PROGRAM >=
\* MAX_STACK_DEPTH (profiler.h:9) is what it takes for every stack shorter than
\* MAX_STACK_DEPTH to be walked to its bottom.
THEOREM ShortStacksAlwaysFinish == UnwinderSpec => []ShortStacksFinish
<1>1. WalkInv => ShortStacksFinish
  BY DEF WalkInv
<1> QED
  BY <1>1, WalkAlways, PTL

\* And what is sent of such a stack is all of it, with its kernel stack.
THEOREM ShortStacksAlwaysWhole == UnwinderSpec => []ShortStacksAreWhole
<1>1. WalkInv => ShortStacksAreWhole
  BY UnwinderAssumption, StackFields DEF WalkInv, TypeOK, RecordedFrames, AtBottom,
     SentKernelStack, ShortStacksAreWhole
<1> QED
  BY <1>1, WalkAlways, PTL

-----------------------------------------------------------------------------
StatsInv == TypeOK /\ StatsExplainSamples

LEMMA Bumped ==
    ASSUME StatsOK, NEW S, stats' = Bump(S)
    PROVE  \A c \in Counters : stats'[c] = IF c \in S THEN stats[c] + 1 ELSE stats[c]
  BY DEF Bump

LEMMA CountersAreNat ==
    ASSUME StatsOK
    PROVE  \A c \in Counters : stats[c] \in Nat
  BY DEF StatsOK

LookupCounters ==
    {"mapping_not_found", "mapping_does_not_contain_pc", "jit_encountered", "page_not_found",
     "binary_search_exhausted_iterations"}
RowCounters ==
    {"cfa_offset_did_not_fit", "rbp_offset_did_not_fit", "unsupported_frame_pointer_action",
     "unsupported_expression", "unsupported_cfa_register"}
WalkCounters ==
    {"should_never_happen", "previous_rsp_zero", "previous_rbp_read", "previous_rip_zero",
     "truncated"}

LEMMA FailuresNat ==
    ASSUME StatsOK
    PROVE  /\ LookupFailures \in Nat /\ RowFailures \in Nat /\ WalkFailures \in Nat
           /\ Failures \in Nat
<1>1. \A c \in LookupCounters \cup RowCounters \cup WalkCounters : stats[c] \in Nat
  BY CountersAreNat DEF Counters, GiveUpCounters, LookupCounters, RowCounters, WalkCounters
<1>2. LookupFailures \in Nat
  BY <1>1 DEF LookupFailures, LookupCounters
<1>3. RowFailures \in Nat
  BY <1>1 DEF RowFailures, RowCounters
<1>4. WalkFailures \in Nat
  BY <1>1 DEF WalkFailures, WalkCounters
<1> QED
  BY <1>2, <1>3, <1>4 DEF Failures

\* Counters other than those of failures leave the sum of the failures alone.
LEMMA FailuresKept ==
    ASSUME StatsOK, NEW S, stats' = Bump(S), S \cap (GiveUpCounters \cup {"truncated"}) = {}
    PROVE  Failures' = Failures
<1>1. \A c \in GiveUpCounters \cup {"truncated"} : stats'[c] = stats[c]
  BY Bumped, Zenon DEF Counters
<1> QED
  BY <1>1 DEF Failures, LookupFailures, RowFailures, WalkFailures, GiveUpCounters

\* One counter of failures adds one to it.
LEMMA FailuresPlusOne ==
    ASSUME StatsOK, NEW S, stats' = Bump(S),
           NEW d \in GiveUpCounters \cup {"truncated"},
           S \cap (GiveUpCounters \cup {"truncated"}) = {d}
    PROVE  Failures' = Failures + 1
<1>1. \A c \in GiveUpCounters \cup {"truncated"} :
        stats[c] \in Nat /\ stats'[c] = IF c = d THEN stats[c] + 1 ELSE stats[c]
  BY Bumped, CountersAreNat DEF Counters
<1>2. LookupFailures \in Nat /\ RowFailures \in Nat /\ WalkFailures \in Nat
  BY FailuresNat
<1>3. LookupFailures' = IF d \in LookupCounters THEN LookupFailures + 1 ELSE LookupFailures
  BY <1>1 DEF LookupFailures, LookupCounters, GiveUpCounters
<1>4. RowFailures' = IF d \in RowCounters THEN RowFailures + 1 ELSE RowFailures
  BY <1>1 DEF RowFailures, RowCounters, GiveUpCounters
<1>5. WalkFailures' = IF d \in WalkCounters THEN WalkFailures + 1 ELSE WalkFailures
  BY <1>1 DEF WalkFailures, WalkCounters, GiveUpCounters
<1>6. \/ d \in LookupCounters /\ d \notin RowCounters /\ d \notin WalkCounters
      \/ d \notin LookupCounters /\ d \in RowCounters /\ d \notin WalkCounters
      \/ d \notin LookupCounters /\ d \notin RowCounters /\ d \in WalkCounters
  BY DEF LookupCounters, RowCounters, WalkCounters, GiveUpCounters
<1> QED
  BY <1>2, <1>3, <1>4, <1>5, <1>6 DEF Failures

\* An early return bumps one counter of failures, or is uncounted.
LEMMA GivenUp ==
    ASSUME StatsOK, StatsOK', give_up
    PROVE  /\ \/ Failures' = Failures + 1 /\ uncounted' = uncounted
              \/ Failures' = Failures /\ uncounted' = uncounted + 1
           /\ \A c \in {"total", "success_dwarf", "failure_sending_stack"} : stats'[c] = stats[c]
<1>1. PICK bumped \in GiveUps :
        /\ stats' = Bump(bumped)
        /\ uncounted' = IF bumped = {} THEN uncounted + 1 ELSE uncounted
  BY DEF give_up
<1>2. \A c \in {"total", "success_dwarf", "failure_sending_stack"} : c \notin bumped
  BY <1>1 DEF GiveUps, GiveUpCounters
<1>3. \A c \in {"total", "success_dwarf", "failure_sending_stack"} : stats'[c] = stats[c]
  BY <1>1, <1>2, Bumped DEF Counters
<1>4. CASE bumped = {}
  <2>1. Failures' = Failures
    BY <1>1, <1>4, FailuresKept
  <2> QED
    BY <1>1, <1>3, <1>4, <2>1, FailuresNat DEF StatsOK
<1>5. CASE bumped # {}
  <2>1. PICK d \in GiveUpCounters : bumped \cap (GiveUpCounters \cup {"truncated"}) = {d}
    BY <1>5 DEF GiveUps, GiveUpCounters
  <2>2. Failures' = Failures + 1
    BY <1>1, <2>1, FailuresPlusOne
  <2> QED
    BY <1>1, <1>3, <1>5, <2>2, FailuresNat DEF StatsOK
<1> QED
  BY <1>4, <1>5

LEMMA StatsExplainNext ==
    ASSUME StatsInv, [UnwinderNext]_unwinderVars
    PROVE  StatsExplainSamples'
<1> DEFINE S3 == {"total", "success_dwarf", "failure_sending_stack"}
<1>0. /\ StatsOK /\ StatsOK' /\ Failures \in Nat /\ uncounted \in Nat /\ sent \in Nat
      /\ \A c \in S3 : stats[c] \in Nat
  BY StatsNext, FailuresNat, CountersAreNat DEF StatsInv, TypeOK, StatsOK, Counters
<1>1. CASE set_initial_state
  <2>1. /\ stats'["total"] = stats["total"] + 1
        /\ stats'["success_dwarf"] = stats["success_dwarf"]
        /\ stats'["failure_sending_stack"] = stats["failure_sending_stack"]
    BY <1>0, <1>1, Bumped DEF set_initial_state, Counters
  <2>2. Failures' = Failures
    BY <1>0, <1>1, FailuresKept DEF set_initial_state, GiveUpCounters
  <2> QED
    BY <1>0, <1>1, <2>1, <2>2 DEF set_initial_state, StatsInv, StatsExplainSamples
<1>2. CASE unwind_frame
  <2>1. /\ stats'["total"] = stats["total"]
        /\ stats'["success_dwarf"] = stats["success_dwarf"]
        /\ stats'["failure_sending_stack"] = stats["failure_sending_stack"]
    BY <1>0, <1>2, Bumped DEF unwind_frame, Counters
  <2>2. Failures' = Failures
    <3>1. CASE UNCHANGED stats
      BY <3>1 DEF Failures, LookupFailures, RowFailures, WalkFailures
    <3>2. CASE stats' = Bump({"vdso_encountered"})
      BY <1>0, <3>2, FailuresKept DEF GiveUpCounters
    <3> QED
      BY <1>2, <3>1, <3>2 DEF unwind_frame
  <2> QED
    BY <1>0, <1>2, <2>1, <2>2 DEF unwind_frame, StatsInv, StatsExplainSamples
<1>3. CASE reached_bottom_of_stack
  <2>1. Failures' = Failures
    BY <1>3 DEF reached_bottom_of_stack, Failures, LookupFailures, RowFailures, WalkFailures
  <2> QED
    BY <1>0, <1>3, <2>1 DEF reached_bottom_of_stack, StatsInv, StatsExplainSamples
<1>4. CASE give_up
  <2>1. /\ \/ Failures' = Failures + 1 /\ uncounted' = uncounted
           \/ Failures' = Failures /\ uncounted' = uncounted + 1
        /\ \A c \in S3 : stats'[c] = stats[c]
    BY <1>0, <1>4, GivenUp
  <2> QED
    BY <1>0, <1>4, <2>1 DEF give_up, StatsInv, StatsExplainSamples
<1>5. CASE tail_call
  <2>1. Failures' = Failures
    BY <1>5 DEF tail_call, Failures, LookupFailures, RowFailures, WalkFailures
  <2> QED
    BY <1>0, <1>5, <2>1 DEF tail_call, StatsInv, StatsExplainSamples
<1>6. CASE truncated
  <2>1. \A c \in S3 : stats'[c] = stats[c]
    BY <1>0, <1>6, Bumped DEF truncated, Counters
  <2>2. Failures' = Failures + 1
    BY <1>0, <1>6, FailuresPlusOne DEF truncated, GiveUpCounters
  <2> QED
    BY <1>0, <1>6, <2>1, <2>2 DEF truncated, StatsInv, StatsExplainSamples
<1>7. CASE add_stack
  <2>1. PICK lost \in BOOLEAN, nonzero \in SUBSET {"bp_non_zero_for_bottom_frame"} :
          /\ stats' = Bump(SendCounters(lost) \cup nonzero)
          /\ sent' = IF lost THEN sent ELSE sent + 1
          /\ phase' = IF lost THEN "discarded" ELSE "sent"
    BY <1>7, Zenon DEF add_stack
  <2>2. /\ stats'["total"] = stats["total"]
        /\ stats'["success_dwarf"] = stats["success_dwarf"] + 1
        /\ stats'["failure_sending_stack"] = IF lost THEN stats["failure_sending_stack"] + 1
                                             ELSE stats["failure_sending_stack"]
    <3>1. \A c \in Counters :
            stats'[c] = IF c \in SendCounters(lost) \cup nonzero THEN stats[c] + 1 ELSE stats[c]
      BY <1>0, <2>1, Bumped, Zenon
    <3> QED
      BY <3>1 DEF SendCounters, Counters
  <2>3. Failures' = Failures
    <3>1. (SendCounters(lost) \cup nonzero) \cap (GiveUpCounters \cup {"truncated"}) = {}
      BY DEF SendCounters, GiveUpCounters
    <3> QED
      BY <1>0, <2>1, <3>1, FailuresKept
  <2> QED
    BY <1>0, <1>7, <2>1, <2>2, <2>3 DEF add_stack, StatsInv, StatsExplainSamples
<1>8. CASE UNCHANGED unwinderVars
  <2>1. Failures' = Failures
    BY <1>8 DEF unwinderVars, Failures, LookupFailures, RowFailures, WalkFailures
  <2> QED
    BY <1>8, <2>1 DEF unwinderVars, StatsInv, StatsExplainSamples
<1> QED
  BY <1>1, <1>2, <1>3, <1>4, <1>5, <1>6, <1>7, <1>8 DEF UnwinderNext

\* The statistics explain every sample, for all limits and any number of samples
\* (profiler.bpf.c:327-606, shared_maps.h:21-52).
THEOREM StatsAlwaysExplain == UnwinderSpec => []StatsExplainSamples
<1>1. UnwinderInit => StatsExplainSamples
  BY DEF UnwinderInit, StatsExplainSamples, Failures, LookupFailures, RowFailures, WalkFailures, Counters,
     GiveUpCounters
<1>2. StatsInv /\ [UnwinderNext]_unwinderVars => StatsExplainSamples'
  BY StatsExplainNext
<1> QED
  BY <1>1, <1>2, SampleStaysInBounds, PTL DEF UnwinderSpec, StatsInv

-----------------------------------------------------------------------------
(***************************************************************************)
(* CfaRow: the row of every DWARF rule, whatever its offsets.  Once made,  *)
(* the row stays the conversion of the rule, and the step is taken case by *)
(* case from the types that the conversion can give it.                    *)
(***************************************************************************)

Rules == [cfa : CfaRule, rbp : RbpRule, ra_undefined : BOOLEAN]

RowInv ==
    /\ rule \in Rules /\ ip \in 0..15
    /\ stage \in {"start", "converted", "stepped"}
    /\ stage # "stepped" => caller = Stopped("none")
    /\ stage # "start" => row = ConvertRow(rule)
    /\ StepFollowsDwarf /\ BottomIsBottom /\ SupportedIsUnwound

LEMMA CfaFields ==
    ASSUME NEW c \in CfaRule
    PROVE  /\ c.kind \in {"register", "deref", "plt1", "plt2", "expression", "end"}
           /\ c.offset \in Int /\ c.add \in Nat
           /\ c.kind = "register" => c.reg \in {"fp", "sp", "other"} /\ c.add = 0
<1>1. CASE c \in [kind : {"register"}, reg : {"fp", "sp", "other"}, offset : Offsets, add : {0}]
    <2>1. c.kind = "register" /\ c.reg \in {"fp", "sp", "other"} /\ c.offset \in Offsets /\ c.add = 0
        BY <1>1
    <2>2. c.offset \in Int
        BY <2>1, RowAssumption, Zenon
    <2> QED
        BY <2>1, <2>2
<1>2. CASE c \in [kind : {"deref"}, reg : {"sp", "other"}, offset : DerefOffsets, add : Additions]
    BY <1>2, RowAssumption, Zenon
<1>3. CASE c \in [kind : {"plt1", "plt2", "expression", "end"}, reg : {"sp"}, offset : {0}, add : {0}]
    BY <1>3
<1> QED
    BY <1>1, <1>2, <1>3 DEF CfaRule

LEMMA RbpFields ==
    ASSUME NEW r \in RbpRule
    PROVE  /\ r.kind \in {"offset", "val_offset", "undefined", "same_value", "register", "expression",
                          "computed"}
           /\ r.offset \in Int
<1>1. CASE r \in [kind : {"offset", "val_offset"}, offset : Offsets]
    <2>1. r.kind \in {"offset", "val_offset"} /\ r.offset \in Offsets
        BY <1>1
    <2>2. r.offset \in Int
        BY <2>1, RowAssumption, Zenon
    <2> QED
        BY <2>1, <2>2
<1>2. CASE r \in [kind : {"undefined", "same_value", "register", "expression", "computed"}, offset : {0}]
    BY <1>2
<1> QED
    BY <1>1, <1>2 DEF RbpRule

\* An OR with zero bits.
LEMMA OrNothing ==
    ASSUME NEW n \in 0..(2^8 - 1)
    PROVE  OrByte(n, 0) = n /\ OrByte(0, n) = n
<1>1. n \in 0..255
    OBVIOUS
<1>2. OrByte(n, 0) = n
    BY <1>1 DEF OrByte, OrBit
<1>3. OrByte(0, n) = n
    BY <1>1 DEF OrByte, OrBit
<1> QED
    BY <1>2, <1>3

\* Two bytes share a u16 without loss.
LEMMA Packed ==
    ASSUME NEW offset \in 0..(2^8 - 1), NEW add \in 0..(2^8 - 1)
    PROVE  DerefAndAdd(offset, add) = 256 * offset + add
<1>1. offset \in 0..255 /\ add \in 0..255
    OBVIOUS
<1>2. (offset * 2^8) % 2^16 = 256 * offset /\ add % 2^16 = add
    BY <1>1
<1>3. (256 * offset) \div 2^8 = offset /\ (256 * offset) % 2^8 = 0
    BY <1>1
<1>4. add \div 2^8 = 0 /\ add % 2^8 = add
    BY <1>1
<1>5. DerefAndAdd(offset, add) = 2^8 * OrByte(offset, 0) + OrByte(0, add)
    BY <1>2, <1>3, <1>4, Zenon DEF DerefAndAdd, OrU16
<1> QED
    BY <1>5, OrNothing

\* and are read from it again.
LEMMA Unpacked ==
    ASSUME NEW offset \in 0..(2^8 - 1), NEW add \in 0..(2^8 - 1)
    PROVE  LET n == S16(256 * offset + add)
           IN  (n \div 2^8) % 2^8 = offset /\ n % 2^8 = add
<1>1. offset \in 0..255 /\ add \in 0..255
    OBVIOUS
<1> DEFINE n == S16(256 * offset + add)
<1>2. n = 256 * offset + add \/ n = 256 * (offset - 256) + add
    BY <1>1 DEF S16
<1> HIDE DEF n
<1>3. n \div 256 = offset \/ n \div 256 = offset - 256
    BY <1>1, <1>2
<1>4. n % 256 = add
    BY <1>1, <1>2
<1>5. (n \div 256) % 256 = offset
    BY <1>1, <1>3
<1> QED
    BY <1>4, <1>5 DEF n

\* The unwinder's CFA is DWARF's where they read the row alike.
LEMMA CfaFollows ==
    ASSUME rule \in Rules, ip \in 0..15, row = ConvertRow(rule), StopsAt = "no",
           NEW readable \in BOOLEAN, CanRead(PreviousRsp(readable)),
           ~ReadDifferently(rule.cfa)
    PROVE  PreviousRsp(readable) = DwarfCfa
<1> DEFINE c == rule.cfa
<1>0. c \in CfaRule
    BY DEF Rules
<1>1. /\ c.kind \in {"register", "deref", "plt1", "plt2", "expression", "end"}
      /\ c.offset \in Int /\ c.add \in Nat
      /\ c.kind = "register" => c.reg \in {"fp", "sp", "other"} /\ c.add = 0
    BY <1>0, CfaFields, Zenon
<1>2. row.cfa_type = ConvertCfa(c)[1] /\ row.cfa_offset = ConvertCfa(c)[2]
    BY Zenon DEF ConvertRow, Row
<1>3. row.cfa_type \notin {"OffsetDidNotFit", "EndFdeMarker", "UnsupportedExpression",
                           "UnsupportedRegisterOffset"}
    BY DEF StopsAt
<1>4. CASE c.kind = "register"
    <2>1. c.offset < 32768
        BY <1>1, <1>4 DEF ReadDifferently
    <2>2. FitsU16(c.offset) /\ row.cfa_type = RegisterType(c.reg) /\ row.cfa_offset = c.offset
        BY <1>2, <1>3, <1>4 DEF ConvertCfa
    <2>3. S16(row.cfa_offset) = c.offset
        BY <2>1, <2>2, <1>1 DEF S16
    <2>4. c.reg \in {"fp", "sp"} /\ row.cfa_type \in {"FramePointerOffset", "StackPointerOffset"}
        BY <1>1, <1>3, <1>4, <2>2 DEF RegisterType
    <2>5. RegisterCfa(row.cfa_type, c.offset) = Address(c.reg, c.offset, 0)
        BY <2>2, <2>4 DEF RegisterCfa, RegisterType
    <2>6. PreviousRsp(readable) = RegisterCfa(row.cfa_type, c.offset)
        BY <2>3, <2>4 DEF PreviousRsp
    <2> QED
        BY <1>4, <2>5, <2>6 DEF DwarfCfa
<1>5. CASE c.kind = "deref"
    <2>0. ~ReadDifferently(c)
        OBVIOUS
    <2>1. c.offset \in 0..(2^8 - 1) /\ c.add \in 0..(2^8 - 1)
        BY ONLY <1>1, <1>5, <2>0 DEF ReadDifferently
    <2>2. row.cfa_type = "DerefAndAdd" /\ row.cfa_offset = DerefAndAdd(c.offset, c.add)
        BY <1>2, <1>3, <1>5 DEF ConvertCfa
    <2>3. row.cfa_offset = 256 * c.offset + c.add
        <3>1. DerefAndAdd(c.offset, c.add) = 256 * c.offset + c.add
            BY ONLY <2>1, Packed, Zenon
        <3> QED
            BY ONLY <2>2, <3>1, Zenon
    <2> DEFINE n == S16(row.cfa_offset)
    <2>4. (n \div 2^8) % 2^8 = c.offset /\ n % 2^8 = c.add
        BY ONLY <2>1, <2>3, Unpacked
    <2>5. readable
        BY <2>2 DEF PreviousRsp, CanRead, Address
    <2>6. PreviousRsp(readable) = Address("deref", (n \div 2^8) % 2^8, n % 2^8)
        BY <2>2, <2>5 DEF PreviousRsp
    <2> QED
        BY <1>5, <2>4, <2>6 DEF DwarfCfa
<1>6. CASE c.kind \in {"expression", "end"}
    BY <1>2, <1>3, <1>6 DEF ConvertCfa
<1>7. CASE c.kind = "plt1"
    <2>1. row.cfa_type = "Plt1"
        BY <1>2, <1>7 DEF ConvertCfa
    <2>2. PreviousRsp(readable) = Address("sp", 8, IF ip >= 1 THEN 8 ELSE 0)
        BY <2>1 DEF PreviousRsp, PltThreshold
    <2>3. ip \notin 1..10
        BY <1>7, Zenon DEF ReadDifferently
    <2>4. (IF ip >= 1 THEN 8 ELSE 0) = (IF ip >= 11 THEN 8 ELSE 0)
        BY ONLY ip \in 0..15, <2>3
    <2> QED
        BY <1>7, <2>2, <2>4 DEF DwarfCfa
<1>8. CASE c.kind = "plt2"
    BY <1>2, <1>8 DEF ConvertCfa, StopsAt, PltThreshold
<1> QED
    BY <1>1, <1>4, <1>5, <1>6, <1>7, <1>8

\* The caller's rbp is found where DWARF says, from the CFA.
LEMMA RbpFollows ==
    ASSUME rule \in Rules, row = ConvertRow(rule), StopsAt = "no"
    PROVE  /\ PreviousRbp(DwarfCfa) = DwarfRbp \/ RbpPassedOver(rule.rbp)
           /\ ~rule.ra_undefined /\ rule.cfa.kind # "end"
<1> DEFINE r == rule.rbp
<1>0. r \in RbpRule /\ rule.ra_undefined \in BOOLEAN
    BY DEF Rules
<1>1. /\ r.kind \in {"offset", "val_offset", "undefined", "same_value", "register", "expression",
                     "computed"}
      /\ r.offset \in Int
    BY <1>0, RbpFields, Zenon
<1>2. row.cfa_type = ConvertCfa(rule.cfa)[1]
    BY DEF ConvertRow, Row
<1>3. rule.cfa.kind # "end"
    BY <1>2 DEF ConvertCfa, StopsAt
<1>4. /\ row.rbp_type = ConvertRbp(r, rule.ra_undefined)[1]
      /\ row.rbp_offset = ConvertRbp(r, rule.ra_undefined)[2]
    BY <1>3 DEF ConvertRow, Row
<1>5. row.rbp_type \notin {"OffsetDidNotFit", "UndefinedReturnAddress", "Register", "Expression"}
    BY DEF StopsAt
<1>6. ~rule.ra_undefined
    BY <1>4, <1>5 DEF ConvertRbp, NoCaller
<1>7. CASE r.kind = "offset"
    <2>1. FitsI16(r.offset) /\ row.rbp_type = "CfaOffset" /\ row.rbp_offset = r.offset
        BY <1>4, <1>5, <1>6, <1>7 DEF ConvertRbp, NoCaller
    <2> QED
        BY <1>3, <1>6, <1>7, <2>1 DEF PreviousRbp, RbpAddress, DwarfRbp
<1>8. CASE r.kind \in {"undefined", "same_value"}
    <2>1. row.rbp_type = "Unchanged"
        BY <1>4, <1>6, <1>8 DEF ConvertRbp, NoCaller
    <2> QED
        BY <1>3, <1>6, <1>8, <2>1 DEF PreviousRbp, DwarfRbp
<1>9. CASE r.kind \in {"val_offset", "computed"}
    BY <1>3, <1>6, <1>9 DEF RbpPassedOver
<1>10. r.kind \notin {"register", "expression"}
    BY <1>4, <1>5, <1>6 DEF ConvertRbp, NoCaller
<1> QED
    BY <1>1, <1>7, <1>8, <1>9, <1>10

\* A frame is only stepped to from a CFA that can be read.
LEMMA RipReadable ==
    ASSUME NEW cfa, NEW n, CanRead(PreviousRip(cfa, n)),
           \E base, offset, add : cfa = Address(base, offset, add)
    PROVE  CanRead(cfa)
<1> PICK base, offset, add : cfa = Address(base, offset, add)
    OBVIOUS
<1>1. DOMAIN cfa = {"base", "offset", "add"} /\ cfa.base = base
    BY Zenon DEF Address
<1>2. CASE Arch = "x86"
    <2>1. PreviousRip(cfa, n) = [cfa EXCEPT !.add = @ - 8]
        BY <1>2 DEF PreviousRip
    <2>2. PreviousRip(cfa, n).base = cfa.base
        BY <2>1 DEF Address
    <2> QED
        BY <2>2 DEF CanRead
<1>3. CASE Arch # "x86" /\ n = 0
    BY <1>3 DEF PreviousRip, Nowhere, Address, CanRead
<1>4. CASE Arch # "x86" /\ n # 0
    <2>1. PreviousRip(cfa, n) = [RbpAddress(cfa) EXCEPT !.add = @ + 8]
        BY <1>4 DEF PreviousRip
    <2>2. PreviousRip(cfa, n).base = cfa.base
        BY <2>1, Zenon DEF RbpAddress, Address
    <2> QED
        BY <2>2 DEF CanRead
<1> QED
    BY <1>2, <1>3, <1>4

LEMMA PreviousRspIsAddress ==
    ASSUME NEW readable
    PROVE  \E base, offset, add : PreviousRsp(readable) = Address(base, offset, add)
<1> DEFINE n == S16(row.cfa_offset)
<1>1. CASE row.cfa_type = "Plt1"
    BY <1>1 DEF PreviousRsp
<1>2. CASE row.cfa_type = "DerefAndAdd"
    BY <1>2 DEF PreviousRsp
<1>3. CASE row.cfa_type \notin {"Plt1", "DerefAndAdd"}
    BY <1>3 DEF PreviousRsp, RegisterCfa
<1> QED
    BY <1>1, <1>2, <1>3

\* What a step leaves: it stopped at the row, or it could not read the stack, or it
\* has a frame.
StepFrame(cfa) ==
    /\ CanRead(cfa)
    /\ caller'.result = "frame" /\ caller'.cfa = cfa /\ caller'.rbp = PreviousRbp(cfa)

LEMMA StepOutcome ==
    ASSUME dwarf_unwind_step
    PROVE  \/ StopsAt # "no" /\ caller' = Stopped(StopsAt)
           \/ StopsAt = "no" /\ \E result \in {"previous_rsp_zero", "previous_rbp_read", "previous_rip_zero"} :
                                   caller' = Stopped(result)
           \/ StopsAt = "no" /\ \E readable \in BOOLEAN : StepFrame(PreviousRsp(readable))
<1>1. CASE StopsAt # "no"
    BY <1>1, Zenon DEF dwarf_unwind_step
<1>2. CASE StopsAt = "no"
    <2>1. PICK readable \in BOOLEAN, rbp_readable \in BOOLEAN, rip_readable \in BOOLEAN :
            LET cfa == PreviousRsp(readable)
                rip == PreviousRip(cfa, frames')
            IN  caller' =
                  IF cfa = Nowhere THEN Stopped("previous_rsp_zero")
                  ELSE IF row.rbp_type # "Unchanged" /\ ~(rbp_readable /\ CanRead(cfa))
                  THEN Stopped("previous_rbp_read")
                  ELSE IF ~(rip_readable /\ CanRead(rip)) THEN Stopped("previous_rip_zero")
                  ELSE [result |-> "frame", cfa |-> cfa,
                        rbp |-> PreviousRbp(cfa), rip |-> rip]
        BY <1>2, Zenon DEF dwarf_unwind_step
    <2> DEFINE cfa == PreviousRsp(readable)
               rip == PreviousRip(cfa, frames')
    <2> HIDE DEF cfa, rip
    <2>2. \/ \E result \in {"previous_rsp_zero", "previous_rbp_read", "previous_rip_zero"} :
                  caller' = Stopped(result)
          \/ CanRead(rip) /\ caller' = [result |-> "frame", cfa |-> cfa,
                                        rbp |-> PreviousRbp(cfa), rip |-> rip]
        BY <2>1 DEF cfa, rip
    <2>3. ASSUME CanRead(rip), caller' = [result |-> "frame", cfa |-> cfa,
                                          rbp |-> PreviousRbp(cfa), rip |-> rip]
          PROVE  StepFrame(cfa)
        <3>1. CanRead(cfa)
            BY <2>3, RipReadable, PreviousRspIsAddress, Zenon DEF cfa, rip
        <3> QED
            BY <3>1, <2>3 DEF StepFrame
    <2> QED
        BY <1>2, <2>2, <2>3 DEF cfa
<1> QED
    BY <1>1, <1>2

\* The row of a supported rule stops the walk at the bottom only.
LEMMA SupportedGoesOn ==
    ASSUME rule \in Rules, row = ConvertRow(rule),
           rule.cfa.kind = "register" => rule.cfa.reg # "other" /\ rule.cfa.offset \in 0..(2^15 - 1),
           rule.cfa.kind = "deref" => rule.cfa.reg = "sp",
           rule.cfa.kind \notin {"expression", "plt2"},
           rule.rbp.kind \notin {"register", "expression"},
           rule.rbp.kind = "offset" => rule.rbp.offset \in -(2^15)..(2^15 - 1)
    PROVE  StopsAt \in {"no", "bottom"}
<1> DEFINE c == rule.cfa
<1>1. /\ c.kind \in {"register", "deref", "plt1", "plt2", "expression", "end"}
      /\ c.offset \in Int /\ c.add \in Nat
      /\ c.kind = "register" => c.reg \in {"fp", "sp", "other"} /\ c.add = 0
    BY CfaFields, Zenon DEF Rules
<1>2. row.cfa_type = ConvertCfa(c)[1]
    BY DEF ConvertRow, Row
<1>3. row.cfa_type \in {"FramePointerOffset", "StackPointerOffset", "DerefAndAdd", "Plt1", "EndFdeMarker"}
    <2>1. CASE c.kind = "register"
        <3>1. FitsU16(c.offset) /\ c.reg \in {"fp", "sp"}
            BY <1>1, <2>1 DEF FitsU16
        <3>2. ConvertCfa(c)[1] = RegisterType(c.reg)
            BY <2>1, <3>1 DEF ConvertCfa
        <3> QED
            BY <1>2, <3>1, <3>2 DEF RegisterType
    <2>2. CASE c.kind # "register"
        BY <1>1, <1>2, <2>2 DEF ConvertCfa
    <2> QED
        BY <2>1, <2>2
<1>4. rule.rbp.kind = "offset" => FitsI16(rule.rbp.offset)
    BY DEF FitsI16
<1>5. row.rbp_type = IF c.kind = "end" THEN "Unchanged" ELSE ConvertRbp(rule.rbp, rule.ra_undefined)[1]
    BY DEF ConvertRow, Row
<1>6. row.rbp_type \in {"UndefinedReturnAddress", "CfaOffset", "Unchanged"}
    <2>1. ConvertRbp(rule.rbp, rule.ra_undefined)[1] \in {"UndefinedReturnAddress", "CfaOffset", "Unchanged"}
        <3>1. CASE rule.rbp.kind = "offset"
            BY <1>4, <3>1 DEF ConvertRbp
        <3>2. CASE rule.rbp.kind # "offset"
            BY <3>2 DEF ConvertRbp
        <3> QED
            BY <3>1, <3>2
    <2> QED
        BY <1>5, <2>1
<1> QED
    BY <1>3, <1>6 DEF StopsAt, PltThreshold

\* The bottom is found at the end of a function or where there is no caller.
LEMMA StopsAtBottom ==
    ASSUME row = ConvertRow(rule), StopsAt = "bottom"
    PROVE  rule.cfa.kind = "end" \/ rule.ra_undefined
<1>1. row.cfa_type = "EndFdeMarker" \/ row.rbp_type = "UndefinedReturnAddress"
    BY DEF StopsAt
<1>2. row.cfa_type = ConvertCfa(rule.cfa)[1]
    BY Zenon DEF ConvertRow, Row
<1>3. row.rbp_type = IF rule.cfa.kind = "end" THEN "Unchanged"
                     ELSE ConvertRbp(rule.rbp, rule.ra_undefined)[1]
    BY DEF ConvertRow, Row
<1>4. CASE row.cfa_type = "EndFdeMarker"
    BY <1>2, <1>4 DEF ConvertCfa, RegisterType
<1>5. CASE row.rbp_type = "UndefinedReturnAddress"
    BY <1>3, <1>5 DEF ConvertRbp, NoCaller
<1> QED
    BY <1>1, <1>4, <1>5

LEMMA RowInitial == RowInit => RowInv
<1> SUFFICES ASSUME RowInit PROVE RowInv
    OBVIOUS
<1>1. rule \in Rules /\ caller = Stopped("none") /\ stage = "start" /\ ip \in 0..15
    BY RowAssumption DEF RowInit, Rules
<1> QED
    BY <1>1 DEF RowInv, StepFollowsDwarf, BottomIsBottom, SupportedIsUnwound, Stopped

LEMMA RowPreserved == RowInv /\ [RowNext]_rowVars => RowInv'
<1> SUFFICES ASSUME RowInv, [RowNext]_rowVars PROVE RowInv'
    OBVIOUS
<1>1. CASE convert_row
    <2>1. /\ caller' = Stopped("none") /\ stage' = "converted" /\ row' = ConvertRow(rule)
          /\ rule' = rule /\ ip' = ip
        BY <1>1 DEF convert_row, RowInv
    <2>2. row' = ConvertRow(rule')
        BY <2>1
    <2>3. caller'.result = "none"
        BY <2>1 DEF Stopped
    <2> QED
        BY <2>1, <2>2, <2>3, Zenon DEF RowInv, StepFollowsDwarf, BottomIsBottom, SupportedIsUnwound
<1>2. CASE dwarf_unwind_step
    <2>1. /\ rule \in Rules /\ ip \in 0..15 /\ row = ConvertRow(rule)
          /\ row' = row /\ rule' = rule /\ ip' = ip /\ stage' = "stepped"
        BY <1>2 DEF dwarf_unwind_step, RowInv
    <2>2. row' = ConvertRow(rule')
        BY <2>1
    <2>3. StepFollowsDwarf'
        <3> SUFFICES ASSUME caller'.result = "frame"
                     PROVE  /\ caller'.cfa = DwarfCfa' \/ ReadDifferently(rule.cfa)
                            /\ caller'.rbp = DwarfRbp' \/ ReadDifferently(rule.cfa) \/ RbpPassedOver(rule.rbp)
                            /\ ~rule.ra_undefined /\ rule.cfa.kind # "end"
            <4>1. ReadDifferently(rule.cfa)' = ReadDifferently(rule.cfa)
                BY <2>1, Zenon DEF ReadDifferently
            <4> QED
                BY <2>1, <4>1, Zenon DEF StepFollowsDwarf, RbpPassedOver
        <3>1. StopsAt # "frame"
            BY DEF StopsAt
        <3>2. PICK readable \in BOOLEAN : StepFrame(PreviousRsp(readable))
            BY <1>2, <3>1, StepOutcome DEF Stopped
        <3>3. StopsAt = "no"
            BY <1>2, <3>1, StepOutcome DEF Stopped
        <3>4. PreviousRsp(readable) = DwarfCfa \/ ReadDifferently(rule.cfa)
            BY <2>1, <3>2, <3>3, CfaFollows, Zenon DEF StepFrame
        <3>5. DwarfCfa' = DwarfCfa /\ DwarfRbp' = DwarfRbp
            BY <2>1 DEF DwarfCfa, DwarfRbp
        <3> QED
            BY <2>1, <3>2, <3>3, <3>4, <3>5, RbpFollows, Zenon DEF StepFrame
    <2>4. BottomIsBottom'
        <3> SUFFICES ASSUME caller'.result = "bottom"
                     PROVE  rule.cfa.kind = "end" \/ rule.ra_undefined
            BY <2>1 DEF BottomIsBottom
        <3>1. StopsAt = "bottom"
            BY <1>2, StepOutcome DEF Stopped, StepFrame
        <3> QED
            BY <2>1, <3>1, StopsAtBottom
    <2>5. SupportedIsUnwound'
        <3> DEFINE Reads == {"frame", "bottom", "previous_rsp_zero", "previous_rbp_read", "previous_rip_zero"}
        <3>1. StopsAt \in {"no", "bottom"} => caller'.result \in Reads
            BY <1>2, StepOutcome DEF Stopped, StepFrame
        <3> HIDE DEF Reads
        <3>2. SUFFICES ASSUME rule.cfa.kind = "register" => rule.cfa.reg # "other" /\ rule.cfa.offset \in 0..(2^15 - 1),
                              rule.cfa.kind = "deref" => rule.cfa.reg = "sp",
                              rule.cfa.kind \notin {"expression", "plt2"},
                              rule.rbp.kind \notin {"register", "expression"},
                              rule.rbp.kind = "offset" => rule.rbp.offset \in -(2^15)..(2^15 - 1)
                       PROVE  caller'.result \in Reads
            BY <2>1, Zenon DEF SupportedIsUnwound, Reads
        <3> QED
            BY <2>1, <3>1, <3>2, SupportedGoesOn, Zenon
    <2> QED
        BY <2>1, <2>2, <2>3, <2>4, <2>5 DEF RowInv
<1>3. CASE UNCHANGED rowVars
    <2>1. UNCHANGED <<rule, row, ip, caller, stage>>
        BY <1>3 DEF rowVars
    <2>2. StepFollowsDwarf' = StepFollowsDwarf
        BY <2>1, Zenon DEF StepFollowsDwarf, DwarfCfa, DwarfRbp, ReadDifferently, RbpPassedOver
    <2>3. BottomIsBottom' = BottomIsBottom /\ SupportedIsUnwound' = SupportedIsUnwound
        BY <2>1, Zenon DEF BottomIsBottom, SupportedIsUnwound
    <2>4. ConvertRow(rule)' = ConvertRow(rule)
        BY <2>1, Zenon
    <2> QED
        BY <2>1, <2>2, <2>3, <2>4, Zenon DEF RowInv
<1> QED
    BY <1>1, <1>2, <1>3 DEF RowNext

\* A frame the unwinder steps to is the one DWARF describes, whatever the offsets, but for
\* the CFA rules that ReadDifferently names and, as for its rbp, the rules that the
\* conversion passes over (convert.rs:157-245 against profiler.bpf.c:414-519).
THEOREM StepAlwaysFollowsDwarf == RowSpec => []StepFollowsDwarf
<1>1. RowInv => StepFollowsDwarf
    BY DEF RowInv
<1> QED
    BY <1>1, RowInitial, RowPreserved, PTL DEF RowSpec

\* The walk only ends as complete where DWARF ends it (profiler.bpf.c:427-444).
THEOREM BottomAlwaysBottom == RowSpec => []BottomIsBottom
<1>1. RowInv => BottomIsBottom
    BY DEF RowInv
<1> QED
    BY <1>1, RowInitial, RowPreserved, PTL DEF RowSpec

\* A frame with rules that the row can hold is stepped over unless its stack cannot be
\* read (profiler.bpf.c:422-555).
THEOREM SupportedAlwaysUnwound == RowSpec => []SupportedIsUnwound
<1>1. RowInv => SupportedIsUnwound
    BY DEF RowInv
<1> QED
    BY <1>1, RowInitial, RowPreserved, PTL DEF RowSpec

-----------------------------------------------------------------------------
(***************************************************************************)
(* Session: no sample is lost or repeated on its way, and the program is   *)
(* a Recording, whatever the threads do and wherever it stops.             *)
(***************************************************************************)

-----------------------------------------------------------------------------
(* Sequences.                                                              *)

LEMMA LenProperties ==
    ASSUME NEW S, NEW s \in Seq(S)
    PROVE  Len(s) \in Nat /\ s \in [1..Len(s) -> S] /\ DOMAIN s = 1..Len(s)
OBVIOUS

LEMMA AppendProperties ==
    ASSUME NEW S, NEW s \in Seq(S), NEW x \in S
    PROVE  /\ Append(s, x) \in Seq(S) /\ Append(s, x) # <<>> /\ Len(Append(s, x)) = Len(s) + 1
           /\ \A j \in 1..Len(s) : Append(s, x)[j] = s[j]
           /\ Append(s, x)[Len(s) + 1] = x
OBVIOUS

LEMMA HeadTailProperties ==
    ASSUME NEW S, NEW s \in Seq(S), s # <<>>
    PROVE  /\ Head(s) \in S /\ Tail(s) \in Seq(S) /\ Len(Tail(s)) = Len(s) - 1
           /\ \A j \in 1..Len(Tail(s)) : Tail(s)[j] = s[j + 1]
OBVIOUS

LEMMA EmptySeq ==
    ASSUME NEW S
    PROVE  <<>> \in Seq(S) /\ Len(<<>>) = 0 /\ \A s \in Seq(S) : s # <<>> => Len(s) \in Nat \ {0}
OBVIOUS

Count == [Stack -> Nat]
\* What collect_and_send_profile sends: a count of stacks that are not empty.
Profile == {f \in Count : f[EmptyStack] = 0}

-----------------------------------------------------------------------------
\* The samples in a sequence of profiles, one by one.
SamplesIn(c, s) == UNION {{j} \X (1..c[j][s]) : j \in DOMAIN c}

LEMMA SampleIn ==
    ASSUME NEW c, NEW s
    PROVE  /\ \A x \in SamplesIn(c, s) : x = <<x[1], x[2]>>
           /\ \A j, k : <<j, k>> \in SamplesIn(c, s) <=> j \in DOMAIN c /\ k \in 1..c[j][s]
<1>1. ASSUME NEW x \in SamplesIn(c, s) PROVE x = <<x[1], x[2]>>
    <2>1. PICK j \in DOMAIN c : x \in {j} \X (1..c[j][s])
        BY DEF SamplesIn
    <2> QED
        BY <2>1
<1>2. ASSUME NEW j, NEW k
      PROVE  <<j, k>> \in SamplesIn(c, s) <=> j \in DOMAIN c /\ k \in 1..c[j][s]
    BY DEF SamplesIn
<1> QED
    BY <1>1, <1>2

\* One profile has as many samples of a stack as it says.
LEMMA SamplesOfOne ==
    ASSUME NEW j, NEW n \in Nat
    PROVE  IsFiniteSet({j} \X (1..n)) /\ Cardinality({j} \X (1..n)) = n
<1>1. IsFiniteSet({j}) /\ Cardinality({j}) = 1
    BY FS_Singleton, Zenon
<1>2. IsFiniteSet(1..n) /\ Cardinality(1..n) = n
    BY FS_Interval
<1>3. /\ IsFiniteSet({j} \X (1..n))
      /\ Cardinality({j} \X (1..n)) = Cardinality({j}) * Cardinality(1..n)
    BY <1>1, <1>2, FS_Product, Zenon
<1> QED
    BY <1>1, <1>2, <1>3

LEMMA AppendSamples ==
    ASSUME NEW c \in Seq(Count), NEW f \in Count, NEW s \in Stack, IsFiniteSet(SamplesIn(c, s))
    PROVE  /\ IsFiniteSet(SamplesIn(Append(c, f), s))
           /\ Cardinality(SamplesIn(Append(c, f), s)) = Cardinality(SamplesIn(c, s)) + f[s]
<1> DEFINE d == Append(c, f)
           n == Len(c) + 1
           new == {n} \X (1..f[s])
<1>1. /\ Len(c) \in Nat /\ DOMAIN c = 1..Len(c) /\ DOMAIN d = 1..n /\ n \in Nat
      /\ d[n] = f /\ \A j \in 1..Len(c) : d[j] = c[j]
    <2>1. /\ d \in Seq(Count) /\ d # <<>> /\ Len(d) = n
          /\ \A j \in 1..Len(c) : d[j] = c[j]
          /\ d[n] = f
        BY AppendProperties, Zenon
    <2>2. Len(c) \in Nat /\ DOMAIN c = 1..Len(c)
        BY LenProperties, Zenon
    <2>3. Len(d) \in Nat /\ DOMAIN d = 1..Len(d)
        BY <2>1, LenProperties, Zenon
    <2> QED
        BY <2>1, <2>2, <2>3, Zenon
<1>2. f[s] \in Nat
    BY DEF Count
<1>3. IsFiniteSet(new) /\ Cardinality(new) = f[s]
    BY <1>2, SamplesOfOne, Zenon
<1>4. SamplesIn(c, s) \cap new = {}
    <2> SUFFICES ASSUME NEW x \in SamplesIn(c, s), x \in new PROVE FALSE
        OBVIOUS
    <2>1. x[1] = n /\ x = <<x[1], x[2]>>
        OBVIOUS
    <2>2. x[1] \in DOMAIN c
        BY <2>1, SampleIn
    <2>3. n \notin DOMAIN c
        BY ONLY <1>1
    <2> QED
        BY <2>1, <2>2, <2>3, Zenon
<1>5. SamplesIn(d, s) = SamplesIn(c, s) \cup new
    <2>1. \A j, k : <<j, k>> \in new <=> j = n /\ k \in 1..f[s]
        OBVIOUS
    <2>2. \A x \in new : x = <<x[1], x[2]>>
        OBVIOUS
    <2>3. \A j \in DOMAIN d : j \in DOMAIN c \/ j = n
        BY <1>1
    <2>4. DOMAIN c \subseteq DOMAIN d /\ n \in DOMAIN d
        BY <1>1
    <2>5. \A j, k : <<j, k>> \in SamplesIn(d, s) <=> <<j, k>> \in SamplesIn(c, s) \/ <<j, k>> \in new
        <3> TAKE j, k
        <3>1. <<j, k>> \in SamplesIn(d, s) <=> j \in DOMAIN d /\ k \in 1..d[j][s]
            BY SampleIn, Zenon
        <3>2. <<j, k>> \in SamplesIn(c, s) <=> j \in DOMAIN c /\ k \in 1..c[j][s]
            BY SampleIn, Zenon
        <3>3. j \in DOMAIN c => d[j] = c[j] /\ j # n
            BY <1>1
        <3> HIDE DEF d, n, new
        <3> QED
            BY <1>1, <2>1, <2>3, <2>4, <3>1, <3>2, <3>3, Zenon
    <2>6. \A x \in SamplesIn(d, s) : x = <<x[1], x[2]>>
        BY SampleIn
    <2>7. \A x \in SamplesIn(c, s) : x = <<x[1], x[2]>>
        BY SampleIn
    <2> HIDE DEF d, n, new
    <2> QED
        BY <2>2, <2>5, <2>6, <2>7
<1>6. Cardinality(SamplesIn(c, s)) \in Nat
    BY FS_CardinalityType
<1> HIDE DEF d, n, new
<1>7. /\ IsFiniteSet(SamplesIn(c, s) \cup new)
      /\ Cardinality(SamplesIn(c, s) \cup new) = Cardinality(SamplesIn(c, s)) + Cardinality(new) - Cardinality({})
    BY <1>3, <1>4, FS_Union
<1>8. Cardinality({}) = 0
    BY FS_EmptySet
<1> QED
    BY <1>2, <1>3, <1>5, <1>6, <1>7, <1>8 DEF d

LEMMA TailSamples ==
    ASSUME NEW c \in Seq(Count), c # <<>>, NEW s \in Stack, IsFiniteSet(SamplesIn(c, s))
    PROVE  /\ IsFiniteSet(SamplesIn(Tail(c), s))
           /\ Cardinality(SamplesIn(c, s)) = Cardinality(SamplesIn(Tail(c), s)) + Head(c)[s]
<1> DEFINE d == Tail(c)
           old == {1} \X (1..c[1][s])
           rest == SamplesIn(c, s) \ old
           move == [x \in rest |-> <<x[1] - 1, x[2]>>]
<1>1. /\ Len(c) \in Nat /\ DOMAIN c = 1..Len(c) /\ Len(c) # 0
      /\ DOMAIN d = 1..(Len(c) - 1) /\ \A j \in DOMAIN d : d[j] = c[j + 1]
      /\ Head(c) = c[1] /\ Head(c) \in Count
    BY HeadTailProperties, LenProperties, EmptySeq
<1>2. c[1][s] \in Nat /\ Head(c)[s] = c[1][s]
    BY <1>1 DEF Count
<1>3. IsFiniteSet(old) /\ Cardinality(old) = c[1][s]
    BY <1>2, SamplesOfOne, Zenon
<1>4. \A j, k : <<j, k>> \in rest <=> j \in DOMAIN c /\ j # 1 /\ k \in 1..c[j][s]
    <2> TAKE j, k
    <2>1. <<j, k>> \in SamplesIn(c, s) <=> j \in DOMAIN c /\ k \in 1..c[j][s]
        BY SampleIn, Zenon
    <2>2. <<j, k>> \in old <=> j = 1 /\ k \in 1..c[1][s]
        OBVIOUS
    <2> QED
        BY <2>1, <2>2
<1>5. \A j, k : <<j, k>> \in SamplesIn(d, s) <=> j \in DOMAIN d /\ k \in 1..d[j][s]
    BY SampleIn, Zenon
<1>6. /\ \A x \in rest : x = <<x[1], x[2]>>
      /\ \A x \in SamplesIn(d, s) : x = <<x[1], x[2]>>
    BY SampleIn
<1>7. old \subseteq SamplesIn(c, s)
    <2> SUFFICES ASSUME NEW x \in old PROVE x \in SamplesIn(c, s)
        OBVIOUS
    <2>1. x = <<1, x[2]>> /\ x[2] \in 1..c[1][s] /\ 1 \in DOMAIN c
        BY <1>1
    <2> HIDE DEF old
    <2> QED
        BY <2>1, SampleIn
<1> HIDE DEF d, old, rest
<1>8. move \in Bijection(rest, SamplesIn(d, s))
    <2>1. ASSUME NEW x \in rest
          PROVE  move[x] \in SamplesIn(d, s)
        <3>1. x[1] \in DOMAIN c /\ x[1] # 1 /\ x[2] \in 1..c[x[1]][s]
            BY <1>4, <1>6
        <3>2. x[1] - 1 \in DOMAIN d /\ d[x[1] - 1] = c[x[1]]
            BY <1>1, <3>1
        <3> QED
            BY <1>5, <3>1, <3>2
    <2>2. ASSUME NEW x \in rest, NEW y \in rest, move[x] = move[y]
          PROVE  x = y
        <3>1. x[1] \in Int /\ y[1] \in Int
            BY <1>1, <1>4, <1>6
        <3>2. x[1] - 1 = y[1] - 1 /\ x[2] = y[2]
            BY <2>2
        <3>3. x[1] = y[1]
            BY <3>1, <3>2
        <3> QED
            BY <1>6, <3>2, <3>3
    <2>3. ASSUME NEW y \in SamplesIn(d, s)
          PROVE  \E x \in rest : move[x] = y
        <3>1. y[1] \in DOMAIN d /\ y[2] \in 1..d[y[1]][s]
            BY <1>5, <1>6
        <3>2. y[1] + 1 \in DOMAIN c /\ y[1] + 1 # 1 /\ c[y[1] + 1] = d[y[1]] /\ (y[1] + 1) - 1 = y[1]
            BY <1>1, <3>1
        <3>3. <<y[1] + 1, y[2]>> \in rest
            BY <1>4, <3>1, <3>2
        <3>4. move[<<y[1] + 1, y[2]>>] = <<y[1], y[2]>>
            BY <3>2, <3>3
        <3> QED
            BY <1>6, <3>3, <3>4
    <2>4. move \in [rest -> SamplesIn(d, s)]
        BY <2>1
    <2> HIDE DEF move
    <2>5. move \in Injection(rest, SamplesIn(d, s))
        BY <2>2, <2>4 DEF Injection, IsInjective
    <2>6. move \in Surjection(rest, SamplesIn(d, s))
        BY <2>3, <2>4 DEF Surjection
    <2> QED
        BY <2>5, <2>6 DEF Bijection
<1>9. IsFiniteSet(rest) /\ Cardinality(rest) = Cardinality(SamplesIn(c, s)) - Cardinality(SamplesIn(c, s) \cap old)
    <2> DEFINE S == SamplesIn(c, s)
    <2>1. IsFiniteSet(S)
        OBVIOUS
    <2> HIDE DEF S
    <2>2. IsFiniteSet(S \ old) /\ Cardinality(S \ old) = Cardinality(S) - Cardinality(S \cap old)
        BY <2>1, FS_Difference, Zenon
    <2> QED
        BY <2>2 DEF rest, S
<1>10. SamplesIn(c, s) \cap old = old
    BY <1>7
<1>11. IsFiniteSet(SamplesIn(d, s)) /\ Cardinality(SamplesIn(d, s)) = Cardinality(rest)
    <2>1. ExistsBijection(rest, SamplesIn(d, s))
        BY <1>8 DEF ExistsBijection
    <2> QED
        BY <1>9, <2>1, FS_Bijection
<1>12. Cardinality(SamplesIn(c, s)) \in Nat
    BY FS_CardinalityType
<1>13. Cardinality(rest) = Cardinality(SamplesIn(c, s)) - Head(c)[s]
    BY <1>2, <1>3, <1>9, <1>10, Zenon
<1>14. \A m, h \in Nat : \A n : n = m - h => m = n + h
    OBVIOUS
<1>15. Cardinality(SamplesIn(c, s)) = Cardinality(rest) + Head(c)[s]
    <2>1. Head(c)[s] \in Nat
        BY <1>2, Zenon
    <2> QED
        BY <2>1, <1>12, <1>13, <1>14, Zenon
<1> QED
    BY <1>11, <1>15, Zenon DEF d

-----------------------------------------------------------------------------
\* Samples are counted, the profiles sent have no empty stacks and the ones collected
\* none that cannot be placed, and there is a report only at the end.
TypeInv ==
    /\ stacks \in Count /\ raw_sample_chan \in Count /\ raw_samples \in Count
    /\ sampled \in Count /\ dropped \in Count
    /\ profile_chan \in Seq(Profile)
    /\ collecting = None \/ \E f \in Profile : collecting = <<f>>
    /\ profiles \in {f \in Count : \A s \in Stack \ Reportable : f[s] = 0}
    /\ report # None => main = "done"
    /\ \A s \in Stack : IsFiniteSet(SamplesIn(profile_chan, s))

ConservedInv == TypeInv /\ SamplesConserved

\* The sum of the places where the samples of a stack are, and what moving x samples
\* from one of them to another does to it.
IsSum(n, a, b, c, d, e, f) == n = a + b + c + d + e + f

LEMMA SumKept ==
    ASSUME NEW n \in Nat, NEW a \in Nat, NEW b \in Nat, NEW c \in Nat, NEW d \in Nat,
           NEW e \in Nat, NEW f \in Nat, NEW x \in Nat, IsSum(n, a, b, c, d, e, f)
    PROVE  /\ IsSum(n + x, a + x, b, c, d, e, f)
           /\ IsSum(n, a - x, b + x, c, d, e, f)
           /\ IsSum(n, a - x, b, c, d, e, f + x)
           /\ IsSum(n, a, b - x, c + x, d, e, f)
    BY DEF IsSum

LEMMA SumEmptied ==
    ASSUME NEW n \in Nat, NEW a \in Nat, NEW b \in Nat, NEW c \in Nat, NEW d \in Nat,
           NEW e \in Nat, NEW f \in Nat, IsSum(n, a, b, c, d, e, f)
    PROVE  /\ IsSum(n, a, 0, c, d, e, f + b)
           /\ IsSum(n, a, b, 0, d + c, e, f)
    BY DEF IsSum

\* What grows stays between what it was and its limit.
LEMMA GrownWithin ==
    ASSUME NEW a \in Nat, NEW b \in Nat, NEW n \in Nat, a + b <= n
    PROVE  a + b \in a..n
    OBVIOUS

LEMMA SumCollected ==
    ASSUME NEW n \in Nat, NEW a \in Nat, NEW b \in Nat, NEW c \in Nat, NEW e \in Nat,
           NEW f \in Nat, NEW x \in Nat, NEW y \in Nat, IsSum(n, a, b, c, x + y, e, f)
    PROVE  IsSum(n, a, b, c, x + 0, e + y, f)
    BY DEF IsSum

LEMMA SumBounds ==
    ASSUME NEW n \in Nat, NEW a \in Nat, NEW b \in Nat, NEW c \in Nat, NEW e \in Nat,
           NEW f \in Nat, NEW x \in Nat, NEW y \in Nat, IsSum(n, a, b, c, x + y, e, f)
    PROVE  e + y <= n
    BY DEF IsSum

LEMMA Counts ==
    /\ Zero \in Count /\ \A s \in Stack : Zero[s] = 0
    /\ \A s \in Stack : One(s) \in Count /\ One(s)[s] = 1
    /\ \A s, t \in Stack : t # s => One(s)[t] = 0
    /\ \A a, b \in Count : Plus(a, b) \in Count /\ \A s \in Stack : Plus(a, b)[s] = a[s] + b[s]
    /\ \A a \in Count, s \in Stack : a[s] > 0 => Minus(a, One(s)) \in Count
    /\ \A a, b \in Count, s \in Stack : Minus(a, b)[s] = a[s] - b[s]
    /\ \A f \in Count : aggregate(f) \in Profile /\ \A s \in Stack \ {EmptyStack} : aggregate(f)[s] = f[s]
    /\ \A f \in Count : /\ raw_to_processed(f) \in Count
                        /\ \A s \in Unmapped : raw_to_processed(f)[s] = 0
                        /\ \A s \in Stack \ Unmapped : raw_to_processed(f)[s] = f[s]
<1> USE SessionAssumption
<1>1. /\ Zero \in Count /\ \A s \in Stack : Zero[s] = 0
      /\ \A s \in Stack : One(s) \in Count /\ One(s)[s] = 1
      /\ \A s, t \in Stack : t # s => One(s)[t] = 0
    BY DEF Count, Zero, One
<1>2. \A a, b \in Count : Plus(a, b) \in Count /\ \A s \in Stack : Plus(a, b)[s] = a[s] + b[s]
    BY DEF Count, Plus
<1>3. \A a, b \in Count, s \in Stack : Minus(a, b)[s] = a[s] - b[s]
    BY DEF Count, Minus
<1>4. ASSUME NEW a \in Count, NEW s \in Stack, a[s] > 0
      PROVE  Minus(a, One(s)) \in Count
    <2>1. \A t \in Stack : a[t] - One(s)[t] \in Nat
        BY <1>1, <1>4 DEF Count
    <2> QED
        BY <2>1 DEF Count, Minus
<1>5. \A f \in Count : aggregate(f) \in Profile /\ \A s \in Stack \ {EmptyStack} : aggregate(f)[s] = f[s]
    BY DEF Count, Profile, aggregate
<1>6. \A f \in Count : /\ raw_to_processed(f) \in Count
                       /\ \A s \in Unmapped : raw_to_processed(f)[s] = 0
                       /\ \A s \in Stack \ Unmapped : raw_to_processed(f)[s] = f[s]
    BY DEF Count, raw_to_processed
<1> QED
    BY <1>1, <1>2, <1>3, <1>4, <1>5, <1>6, Zenon

LEMMA ConservedInit == Init => ConservedInv
<1> SUFFICES ASSUME Init PROVE ConservedInv
    OBVIOUS
<1>1. \A s : SamplesIn(profile_chan, s) = {}
    BY DEF Init, SamplesIn
<1>2. TypeInv
    BY <1>1, Counts, FS_EmptySet, EmptySeq, Zenon DEF Init, TypeInv, None
<1>3. \A s \in Stack : InFlight(s) = 0
    <2> TAKE s \in Stack
    <2>1. SentSamples(s) = {}
        BY <1>1 DEF SentSamples, SamplesIn
    <2>2. Cardinality(SentSamples(s)) = 0
        BY <2>1, FS_EmptySet
    <2>3. collecting = None
        BY DEF Init
    <2> QED
        BY <2>2, <2>3 DEF InFlight
<1>4. ASSUME NEW s \in Reportable
      PROVE  sampled[s] = stacks[s] + raw_sample_chan[s] + raw_samples[s] + InFlight(s)
                          + profiles[s] + dropped[s]
    <2>1. /\ sampled[s] = 0 /\ stacks[s] = 0 /\ raw_sample_chan[s] = 0 /\ raw_samples[s] = 0
          /\ profiles[s] = 0 /\ dropped[s] = 0
        BY Counts, Zenon DEF Init, Reportable
    <2>2. InFlight(s) = 0
        BY <1>3 DEF Reportable
    <2> QED
        BY <2>1, <2>2
<1> QED
    BY <1>2, <1>4 DEF ConservedInv, SamplesConserved

-----------------------------------------------------------------------------
LEMMA Places ==
    ASSUME TypeInv, NEW s \in Stack
    PROVE  /\ stacks[s] \in Nat /\ raw_sample_chan[s] \in Nat /\ raw_samples[s] \in Nat
           /\ sampled[s] \in Nat /\ dropped[s] \in Nat /\ profiles[s] \in Nat
           /\ Cardinality(SamplesIn(profile_chan, s)) \in Nat
           /\ collecting # None => collecting[1] \in Profile /\ collecting[1][s] \in Nat
           /\ InFlight(s) \in Nat
<1>1. /\ stacks[s] \in Nat /\ raw_sample_chan[s] \in Nat /\ raw_samples[s] \in Nat
      /\ sampled[s] \in Nat /\ dropped[s] \in Nat /\ profiles[s] \in Nat
    BY DEF TypeInv, Count
<1>2. Cardinality(SamplesIn(profile_chan, s)) \in Nat
    BY FS_CardinalityType DEF TypeInv
<1>3. collecting # None => collecting[1] \in Profile /\ collecting[1][s] \in Nat
    <2> SUFFICES ASSUME collecting # None
                 PROVE  collecting[1] \in Profile /\ collecting[1][s] \in Nat
        OBVIOUS
    <2>1. PICK f \in Profile : collecting = <<f>>
        BY DEF TypeInv
    <2> QED
        BY <2>1 DEF Profile, Count
<1>4. Cardinality(SentSamples(s)) \in Nat
    BY <1>2 DEF SentSamples, SamplesIn
<1>5. InFlight(s) \in Nat
    BY <1>3, <1>4 DEF InFlight
<1> QED
    BY <1>1, <1>2, <1>3, <1>5, Zenon

LEMMA CountAt ==
    ASSUME NEW t \in Stack
    PROVE  /\ \A a, b \in Count : Plus(a, b)[t] = a[t] + b[t] /\ Minus(a, b)[t] = a[t] - b[t]
           /\ \A s \in Stack : One(s) \in Count /\ One(s)[t] \in Nat
           /\ Zero[t] = 0
<1>1. \A s \in Stack : One(s) \in Count
    BY Counts, Zenon
<1>2. \A s \in Stack : One(s)[t] \in Nat
    BY <1>1, Zenon DEF Count
<1>3. \A a, b \in Count : Plus(a, b)[t] = a[t] + b[t]
    BY Zenon DEF Plus
<1>4. \A a, b \in Count : Minus(a, b)[t] = a[t] - b[t]
    BY Zenon DEF Minus
<1>5. Zero[t] = 0
    BY Counts, Zenon
<1> QED
    BY <1>1, <1>2, <1>3, <1>4, <1>5, Zenon

\* A step that moves no sample.
Idle ==
    /\ UNCHANGED <<stacks, raw_sample_chan, raw_samples, profile_chan, collecting, profiles,
                   sampled, dropped>>
    /\ report' # None => main' = "done"

LEMMA IdleConserves == ConservedInv /\ Idle => ConservedInv'
<1> SUFFICES ASSUME ConservedInv, Idle PROVE ConservedInv'
    OBVIOUS
<1>1. TypeInv'
    BY DEF ConservedInv, TypeInv, Idle
<1>2. \A s : InFlight(s)' = InFlight(s)
    BY Zenon DEF InFlight, SentSamples, Idle
<1>3. SamplesConserved'
    BY <1>2, Zenon DEF ConservedInv, SamplesConserved, Idle
<1> QED
    BY <1>1, <1>3 DEF ConservedInv

\* The steps that move a sample: there is one less of its stack in one place and one
\* more in another.
LEMMA SampledConserves == ASSUME ConservedInv, NEW s \in Stack, on_event(s) PROVE ConservedInv'
<1> USE DEF on_event, pipeline
<1>1. TypeInv'
    BY Counts, Zenon DEF ConservedInv, TypeInv, Attached
<1>2. ASSUME NEW t \in Reportable
      PROVE  (sampled[t] = stacks[t] + raw_sample_chan[t] + raw_samples[t] + InFlight(t)
                           + profiles[t] + dropped[t])'
    <2>1. t \in Stack
        BY DEF Reportable
    <2>2. InFlight(t)' = InFlight(t)
        BY Zenon DEF InFlight, SentSamples
    <2>3. One(s)[t] \in Nat
        BY <2>1, CountAt, Zenon
    <2>4. stacks'[t] = stacks[t] + One(s)[t] /\ sampled'[t] = sampled[t] + One(s)[t]
        <3>1. stacks \in Count /\ sampled \in Count /\ raw_sample_chan \in Count /\ raw_samples \in Count /\ dropped \in Count
            BY Zenon DEF ConservedInv, TypeInv
        <3> QED
            BY <2>1, <3>1, CountAt, Zenon
    <2>5. IsSum(sampled[t], stacks[t], raw_sample_chan[t], raw_samples[t], InFlight(t), profiles[t], dropped[t])
        BY Zenon DEF ConservedInv, SamplesConserved, IsSum
    <2>6. TypeInv
        BY DEF ConservedInv
    <2>7. /\ stacks[t] \in Nat /\ raw_sample_chan[t] \in Nat /\ raw_samples[t] \in Nat /\ InFlight(t) \in Nat
          /\ sampled[t] \in Nat /\ dropped[t] \in Nat /\ profiles[t] \in Nat
        BY <2>1, <2>6, Places, Zenon
    <2>8. UNCHANGED <<raw_sample_chan, raw_samples, profiles, dropped>>
        OBVIOUS
    <2> HIDE DEF on_event
    <2>9. IsSum(sampled[t] + One(s)[t], stacks[t] + One(s)[t], raw_sample_chan[t], raw_samples[t], InFlight(t),
                profiles[t], dropped[t])
        BY <2>3, <2>5, <2>7, SumKept, Zenon
    <2> QED
        BY <2>2, <2>4, <2>8, <2>9, Zenon DEF IsSum
<1> QED
    BY <1>1, <1>2, Zenon DEF ConservedInv, SamplesConserved, Reportable

LEMMA PolledConserves ==
    ASSUME ConservedInv, NEW s \in Stack, NEW parsed \in BOOLEAN, handle_sample(s, parsed)
    PROVE  ConservedInv'
<1> USE DEF handle_sample, pipeline
<1>1. TypeInv'
    BY Counts, Zenon DEF ConservedInv, TypeInv
<1>2. ASSUME NEW t \in Reportable
      PROVE  (sampled[t] = stacks[t] + raw_sample_chan[t] + raw_samples[t] + InFlight(t)
                           + profiles[t] + dropped[t])'
    <2>1. t \in Stack
        BY DEF Reportable
    <2>2. InFlight(t)' = InFlight(t)
        BY Zenon DEF InFlight, SentSamples
    <2>3. One(s)[t] \in Nat
        BY <2>1, CountAt, Zenon
    <2>4. /\ stacks'[t] = stacks[t] - One(s)[t]
          /\ \/ raw_sample_chan'[t] = raw_sample_chan[t] + One(s)[t] /\ dropped' = dropped
             \/ dropped'[t] = dropped[t] + One(s)[t] /\ raw_sample_chan' = raw_sample_chan
        <3>1. stacks \in Count /\ sampled \in Count /\ raw_sample_chan \in Count /\ raw_samples \in Count /\ dropped \in Count
            BY Zenon DEF ConservedInv, TypeInv
        <3> QED
            BY <2>1, <3>1, CountAt, Zenon
    <2>5. IsSum(sampled[t], stacks[t], raw_sample_chan[t], raw_samples[t], InFlight(t), profiles[t], dropped[t])
        BY Zenon DEF ConservedInv, SamplesConserved, IsSum
    <2>6. TypeInv
        BY DEF ConservedInv
    <2>7. /\ stacks[t] \in Nat /\ raw_sample_chan[t] \in Nat /\ raw_samples[t] \in Nat /\ InFlight(t) \in Nat
          /\ sampled[t] \in Nat /\ dropped[t] \in Nat /\ profiles[t] \in Nat
        BY <2>1, <2>6, Places, Zenon
    <2>8. UNCHANGED <<raw_samples, profiles, sampled>>
        OBVIOUS
    <2> HIDE DEF handle_sample
    <2>9. /\ IsSum(sampled[t], stacks[t] - One(s)[t], raw_sample_chan[t] + One(s)[t], raw_samples[t], InFlight(t),
                   profiles[t], dropped[t])
          /\ IsSum(sampled[t], stacks[t] - One(s)[t], raw_sample_chan[t], raw_samples[t], InFlight(t),
                   profiles[t], dropped[t] + One(s)[t])
        BY <2>3, <2>5, <2>7, SumKept, Zenon
    <2> QED
        BY <2>2, <2>4, <2>8, <2>9, Zenon DEF IsSum
<1> QED
    BY <1>1, <1>2, Zenon DEF ConservedInv, SamplesConserved, Reportable

LEMMA ReceivedConserves == ASSUME ConservedInv, NEW s \in Stack, receive_raw_sample(s) PROVE ConservedInv'
<1> USE DEF receive_raw_sample
<1>1. TypeInv'
    BY Counts, Zenon DEF ConservedInv, TypeInv
<1>2. ASSUME NEW t \in Reportable
      PROVE  (sampled[t] = stacks[t] + raw_sample_chan[t] + raw_samples[t] + InFlight(t)
                           + profiles[t] + dropped[t])'
    <2>1. t \in Stack
        BY DEF Reportable
    <2>2. InFlight(t)' = InFlight(t)
        BY Zenon DEF InFlight, SentSamples
    <2>3. One(s)[t] \in Nat
        BY <2>1, CountAt, Zenon
    <2>4. /\ raw_sample_chan'[t] = raw_sample_chan[t] - One(s)[t]
          /\ raw_samples'[t] = raw_samples[t] + One(s)[t]
        <3>1. stacks \in Count /\ sampled \in Count /\ raw_sample_chan \in Count /\ raw_samples \in Count /\ dropped \in Count
            BY Zenon DEF ConservedInv, TypeInv
        <3> QED
            BY <2>1, <3>1, CountAt, Zenon
    <2>5. IsSum(sampled[t], stacks[t], raw_sample_chan[t], raw_samples[t], InFlight(t), profiles[t], dropped[t])
        BY Zenon DEF ConservedInv, SamplesConserved, IsSum
    <2>6. TypeInv
        BY DEF ConservedInv
    <2>7. /\ stacks[t] \in Nat /\ raw_sample_chan[t] \in Nat /\ raw_samples[t] \in Nat /\ InFlight(t) \in Nat
          /\ sampled[t] \in Nat /\ dropped[t] \in Nat /\ profiles[t] \in Nat
        BY <2>1, <2>6, Places, Zenon
    <2>8. UNCHANGED <<stacks, profiles, sampled, dropped>>
        OBVIOUS
    <2> HIDE DEF receive_raw_sample
    <2>9. IsSum(sampled[t], stacks[t], raw_sample_chan[t] - One(s)[t], raw_samples[t] + One(s)[t], InFlight(t),
                profiles[t], dropped[t])
        BY <2>3, <2>5, <2>7, SumKept, Zenon
    <2> QED
        BY <2>2, <2>4, <2>8, <2>9, Zenon DEF IsSum
<1> QED
    BY <1>1, <1>2, Zenon DEF ConservedInv, SamplesConserved, Reportable

\* Dropping the receivers loses what is in the channel.
LEMMA DroppedConserves == ASSUME ConservedInv, drop_channels PROVE ConservedInv'
<1> USE DEF drop_channels, pipeline
<1>1. TypeInv'
    BY Counts, Zenon DEF ConservedInv, TypeInv
<1>2. ASSUME NEW t \in Reportable
      PROVE  (sampled[t] = stacks[t] + raw_sample_chan[t] + raw_samples[t] + InFlight(t)
                           + profiles[t] + dropped[t])'
    <2>1. t \in Stack /\ t # EmptyStack /\ t \notin Unmapped
        BY DEF Reportable
    <2>2. IsSum(sampled[t], stacks[t], raw_sample_chan[t], raw_samples[t], InFlight(t), profiles[t], dropped[t])
        BY Zenon DEF ConservedInv, SamplesConserved, IsSum
    <2>3. TypeInv
        BY DEF ConservedInv
    <2>4. InFlight(t)' = InFlight(t)
        BY DEF InFlight, SentSamples
    <2>5. dropped'[t] = dropped[t] + raw_sample_chan[t] /\ raw_sample_chan'[t] = 0
        <3>1. raw_sample_chan \in Count /\ dropped \in Count
            BY Zenon DEF ConservedInv, TypeInv
        <3> QED
            BY <2>1, <3>1, CountAt, Zenon
    <2>6. /\ stacks[t] \in Nat /\ raw_sample_chan[t] \in Nat /\ raw_samples[t] \in Nat /\ InFlight(t) \in Nat
          /\ sampled[t] \in Nat /\ dropped[t] \in Nat /\ profiles[t] \in Nat
        BY <2>1, <2>3, Places, Zenon
    <2>7. UNCHANGED <<stacks, raw_samples, profiles, sampled>>
        OBVIOUS
    <2> HIDE DEF drop_channels
    <2>8. IsSum(sampled[t], stacks[t], 0, raw_samples[t], InFlight(t), profiles[t], dropped[t] + raw_sample_chan[t])
        BY <2>2, <2>6, SumEmptied, Zenon
    <2> QED
        BY <2>4, <2>5, <2>7, <2>8, Zenon DEF IsSum
<1> QED
    BY <1>1, <1>2, Zenon DEF ConservedInv, SamplesConserved, Reportable

\* A profile is sent: what the session has is in it, except for the empty stacks, and
\* the session starts anew.
LEMMA SentConserves ==
    ASSUME ConservedInv, collect_and_send_profile, report' # None => main' = "done"
    PROVE  ConservedInv'
<1> USE DEF collect_and_send_profile, ClearedSamples
<1>1. /\ raw_samples \in Count /\ aggregate(raw_samples) \in Profile
      /\ aggregate(raw_samples) \in Count /\ profile_chan \in Seq(Profile)
    BY Counts DEF ConservedInv, TypeInv, Profile
<1>2. profile_chan \in Seq(Count)
    BY <1>1 DEF Profile
<1>3. ASSUME NEW t \in Stack
      PROVE  /\ IsFiniteSet(SamplesIn(profile_chan', t))
             /\ Cardinality(SamplesIn(profile_chan', t))
                    = Cardinality(SamplesIn(profile_chan, t)) + aggregate(raw_samples)[t]
    <2>1. IsFiniteSet(SamplesIn(profile_chan, t))
        BY DEF ConservedInv, TypeInv
    <2> QED
        BY <1>1, <1>2, <2>1, AppendSamples
<1>4. TypeInv'
    <2>1. raw_samples' \in Count
        BY Counts, Zenon
    <2>2. profile_chan' \in Seq(Profile)
        BY <1>1, AppendProperties, Zenon
    <2> QED
        BY <1>3, <2>1, <2>2, Zenon DEF ConservedInv, TypeInv
<1>5. ASSUME NEW t \in Reportable
      PROVE  (sampled[t] = stacks[t] + raw_sample_chan[t] + raw_samples[t] + InFlight(t)
                           + profiles[t] + dropped[t])'
    <2>1. t \in Stack /\ t # EmptyStack /\ t \notin Unmapped
        BY DEF Reportable
    <2>2. IsSum(sampled[t], stacks[t], raw_sample_chan[t], raw_samples[t], InFlight(t), profiles[t], dropped[t])
        BY Zenon DEF ConservedInv, SamplesConserved, IsSum
    <2>3. TypeInv
        BY DEF ConservedInv
    <2>4. Cardinality(SentSamples(t)') = Cardinality(SentSamples(t)) + aggregate(raw_samples)[t]
        BY <1>3, <2>1, Zenon DEF SentSamples, SamplesIn
    <2>5. Cardinality(SentSamples(t)) \in Nat
        BY <2>1, <2>3, Places, Zenon DEF SentSamples, SamplesIn
    <2>6. aggregate(raw_samples)[t] = raw_samples[t] /\ raw_samples'[t] = 0
        BY <1>1, <2>1, Counts, Zenon
    <2>7. /\ stacks[t] \in Nat /\ raw_sample_chan[t] \in Nat /\ raw_samples[t] \in Nat /\ InFlight(t) \in Nat
          /\ sampled[t] \in Nat /\ dropped[t] \in Nat /\ profiles[t] \in Nat
          /\ collecting # None => collecting[1][t] \in Nat
        BY <2>1, <2>3, Places, Zenon
    <2>8. UNCHANGED <<stacks, raw_sample_chan, profiles, sampled, dropped, collecting>>
        OBVIOUS
    <2> HIDE DEF collect_and_send_profile
    <2>9. InFlight(t)' = InFlight(t) + raw_samples[t]
        <3> HIDE DEF ClearedSamples
        <3> DEFINE inCollector == IF collecting = None THEN 0 ELSE collecting[1][t]
                   sentBefore == Cardinality(SentSamples(t))
                   added == raw_samples[t]
        <3>1. InFlight(t) = sentBefore + inCollector
            BY Zenon DEF InFlight
        <3>2. InFlight(t)' = (sentBefore + added) + inCollector
            BY <2>4, <2>6, <2>8, Zenon DEF InFlight
        <3>3. inCollector \in Nat /\ sentBefore \in Nat /\ added \in Nat
            BY <2>5, <2>7, Zenon
        <3> HIDE DEF inCollector, sentBefore, added
        <3>4. (sentBefore + added) + inCollector = (sentBefore + inCollector) + added
            BY ONLY <3>3
        <3>5. InFlight(t)' = InFlight(t) + added
            BY ONLY <3>1, <3>2, <3>4, Zenon
        <3> QED
            BY <3>5, Zenon DEF added
    <2>10. IsSum(sampled[t], stacks[t], raw_sample_chan[t], 0, InFlight(t) + raw_samples[t], profiles[t], dropped[t])
        BY <2>2, <2>7, SumEmptied, Zenon
    <2> QED
        BY <2>6, <2>8, <2>9, <2>10, Zenon DEF IsSum
<1> QED
    BY <1>4, <1>5 DEF ConservedInv, SamplesConserved, Reportable

LEMMA TakenConserves == ASSUME ConservedInv, receive_profile PROVE ConservedInv'
<1> USE DEF receive_profile
<1>1. /\ profile_chan \in Seq(Profile) /\ profile_chan # <<>>
      /\ Head(profile_chan) \in Profile /\ Tail(profile_chan) \in Seq(Profile)
    BY HeadTailProperties DEF ConservedInv, TypeInv
<1>2. profile_chan \in Seq(Count)
    BY <1>1 DEF Profile
<1>3. ASSUME NEW t \in Stack
      PROVE  /\ IsFiniteSet(SamplesIn(profile_chan', t))
             /\ Cardinality(SamplesIn(profile_chan, t))
                    = Cardinality(SamplesIn(profile_chan', t)) + Head(profile_chan)[t]
    <2>1. IsFiniteSet(SamplesIn(profile_chan, t))
        BY DEF ConservedInv, TypeInv
    <2> QED
        BY <1>1, <1>2, <2>1, TailSamples, Zenon
<1>4. TypeInv'
    BY <1>1, <1>3, Zenon DEF ConservedInv, TypeInv
<1>5. ASSUME NEW t \in Reportable
      PROVE  (sampled[t] = stacks[t] + raw_sample_chan[t] + raw_samples[t] + InFlight(t)
                           + profiles[t] + dropped[t])'
    <2>1. t \in Stack /\ t # EmptyStack /\ t \notin Unmapped
        BY DEF Reportable
    <2>2. sampled[t] = stacks[t] + raw_sample_chan[t] + raw_samples[t] + InFlight(t)
                       + profiles[t] + dropped[t]
        BY Zenon DEF ConservedInv, SamplesConserved
    <2>3. TypeInv
        BY DEF ConservedInv
    <2>4. Cardinality(SentSamples(t)) = Cardinality(SentSamples(t)') + Head(profile_chan)[t]
        BY <1>3, <2>1, Zenon DEF SentSamples, SamplesIn
    <2>5. collecting = None /\ collecting' # None /\ collecting'[1] = Head(profile_chan)
        BY DEF None
    <2>6. InFlight(t)' = InFlight(t)
        <3>1. Cardinality(SentSamples(t)) \in Nat /\ Head(profile_chan)[t] \in Nat
            BY <1>1, <2>1, <2>3, Places, Zenon DEF SentSamples, SamplesIn, Profile, Count
        <3>2. InFlight(t) = Cardinality(SentSamples(t)) + 0
            BY <2>5 DEF InFlight
        <3>3. InFlight(t)' = Cardinality(SentSamples(t)') + Head(profile_chan)[t]
            BY <2>5, Zenon DEF InFlight
        <3> QED
            BY ONLY <2>4, <3>1, <3>2, <3>3
    <2>7. /\ stacks[t] \in Nat /\ raw_sample_chan[t] \in Nat /\ raw_samples[t] \in Nat /\ InFlight(t) \in Nat
          /\ sampled[t] \in Nat /\ dropped[t] \in Nat /\ profiles[t] \in Nat
        BY <2>1, <2>3, Places, Zenon
    <2>8. UNCHANGED <<stacks, raw_sample_chan, raw_samples, profiles, sampled, dropped>>
        OBVIOUS
    <2> HIDE DEF receive_profile
    <2> QED
        BY <2>2, <2>6, <2>7, <2>8, Zenon
<1> QED
    BY <1>4, <1>5, Zenon DEF ConservedInv, SamplesConserved, Reportable

LEMMA CollectedConserves == ASSUME ConservedInv, collect PROVE ConservedInv'
<1> USE DEF collect
<1> DEFINE f == collecting[1]
           g == raw_to_processed(f)
<1>1. f \in Profile /\ f \in Count /\ g \in Count /\ g[EmptyStack] = 0
    <2>1. f \in Profile
        BY SessionAssumption, Places, Zenon DEF ConservedInv
    <2>2. f \in Count /\ f[EmptyStack] = 0
        BY <2>1, Zenon DEF Profile
    <2> QED
        BY <2>1, <2>2, SessionAssumption, Counts, Zenon
<1>2. \A s \in Stack \ Reportable : g[s] = 0
    BY <1>1, Counts, Zenon DEF Reportable
<1> HIDE DEF f
<1>3. ASSUME NEW t \in Stack
      PROVE  profiles'[t] = profiles[t] + g[t]
    <2>1. profiles \in Count /\ profiles' = Plus(profiles, g)
        BY Zenon DEF ConservedInv, TypeInv, f
    <2> HIDE DEF collect, g
    <2> QED
        BY <1>1, <2>1, CountAt, Zenon
<1>4. profiles' \in Count
    <2>1. profiles \in Count /\ profiles' = Plus(profiles, g)
        BY Zenon DEF ConservedInv, TypeInv, f
    <2> HIDE DEF collect, g
    <2> QED
        BY <1>1, <2>1, Counts, Zenon
<1>5. \A s \in Stack \ Reportable : profiles'[s] = 0
    <2> TAKE s \in Stack \ Reportable
    <2>1. profiles[s] = 0
        BY Zenon DEF ConservedInv, TypeInv
    <2>2. profiles'[s] = 0 + 0
        BY <1>2, <1>3, <2>1, Zenon
    <2> QED
        BY <2>2
<1>6. TypeInv'
    BY <1>4, <1>5 DEF ConservedInv, TypeInv, Reportable
<1>7. ASSUME NEW t \in Reportable
      PROVE  (sampled[t] = stacks[t] + raw_sample_chan[t] + raw_samples[t] + InFlight(t)
                           + profiles[t] + dropped[t])'
    <2>1. t \in Stack /\ t # EmptyStack /\ t \notin Unmapped
        BY DEF Reportable
    <2>2. sampled[t] = stacks[t] + raw_sample_chan[t] + raw_samples[t] + InFlight(t)
                       + profiles[t] + dropped[t]
        BY Zenon DEF ConservedInv, SamplesConserved
    <2>3. TypeInv
        BY DEF ConservedInv
    <2>4. g[t] = f[t] /\ f[t] \in Nat
        BY <1>1, <2>1, Counts, Zenon DEF Count
    <2>5. InFlight(t) = Cardinality(SentSamples(t)) + f[t]
        BY Zenon DEF InFlight, f
    <2>6. InFlight(t)' = Cardinality(SentSamples(t)) + 0
        BY Zenon DEF InFlight, SentSamples
    <2>7. Cardinality(SentSamples(t)) \in Nat
        BY <2>1, <2>3, Places, Zenon DEF SentSamples, SamplesIn
    <2>8. /\ stacks[t] \in Nat /\ raw_sample_chan[t] \in Nat /\ raw_samples[t] \in Nat /\ InFlight(t) \in Nat
          /\ sampled[t] \in Nat /\ dropped[t] \in Nat /\ profiles[t] \in Nat
        BY <2>1, <2>3, Places, Zenon
    <2>9. UNCHANGED <<stacks, raw_sample_chan, raw_samples, sampled, dropped>>
        OBVIOUS
    <2> HIDE DEF collect, g
    <2>10. IsSum(sampled[t], stacks[t], raw_sample_chan[t], raw_samples[t], Cardinality(SentSamples(t)) + f[t],
                 profiles[t], dropped[t])
        BY <2>2, <2>5, Zenon DEF IsSum
    <2>11. IsSum(sampled[t], stacks[t], raw_sample_chan[t], raw_samples[t], Cardinality(SentSamples(t)) + 0,
                 profiles[t] + f[t], dropped[t])
        BY <2>4, <2>7, <2>8, <2>10, SumCollected, Zenon
    <2>12. profiles'[t] = profiles[t] + f[t]
        BY <1>3, <2>1, <2>4, Zenon
    <2> QED
        BY <2>6, <2>9, <2>11, <2>12, Zenon DEF IsSum
<1> QED
    BY <1>6, <1>7, Zenon DEF ConservedInv, SamplesConserved, Reportable

\* The other steps move none, and only write_report, the last one, makes a report.
LEMMA OthersIdle ==
    ASSUME TypeInv,
           \/ Killswitch \/ touch_killswitch \/ send_event \/ handle_event \/ ctrl_c
           \/ detach \/ finish \/ write_report \/ report_fails \/ UNCHANGED vars
    PROVE  Idle
<1>1. report # None => main = "done"
    BY DEF TypeInv
<1> USE DEF Idle, pipeline
<1>2. CASE Killswitch
    BY <1>1, <1>2, Zenon DEF Killswitch, start, killswitch_tick, killswitch_send, Exited
<1>3. CASE touch_killswitch \/ send_event \/ handle_event \/ ctrl_c \/ UNCHANGED vars
    BY <1>1, <1>3, Zenon DEF touch_killswitch, send_event, handle_event, ctrl_c, Exited, vars
<1>4. CASE detach \/ finish \/ write_report \/ report_fails
    BY <1>1, <1>4 DEF detach, finish, write_report, report_fails
<1> QED
    BY <1>2, <1>3, <1>4

LEMMA ConservedNext == ConservedInv /\ [Next]_vars => ConservedInv'
<1> SUFFICES ASSUME ConservedInv, [Next]_vars PROVE ConservedInv'
    OBVIOUS
<1>1. TypeInv /\ (report # None => main = "done")
    BY DEF ConservedInv, TypeInv
<1>2. CASE \/ Killswitch \/ touch_killswitch \/ send_event \/ handle_event \/ ctrl_c
           \/ detach \/ finish \/ write_report \/ report_fails \/ UNCHANGED vars
    BY <1>1, <1>2, OthersIdle, IdleConserves, Zenon
<1>3. CASE \E s \in Stack : on_event(s)
    BY <1>3, SampledConserves, Zenon
<1>4. CASE \E s \in Stack, parsed \in BOOLEAN : handle_sample(s, parsed)
    BY <1>4, PolledConserves, Zenon
<1>5. CASE \E s \in Stack : receive_raw_sample(s)
    BY <1>5, ReceivedConserves, Zenon
<1>6. CASE session_tick \/ total_duration_tick \/ receive_stop
    <2>1. collect_and_send_profile /\ main = "select"
        BY <1>6 DEF session_tick, total_duration_tick, receive_stop
    <2>2. report' = None
        BY <1>1, <2>1 DEF collect_and_send_profile
    <2> QED
        BY <2>1, <2>2, SentConserves
<1>7. CASE receive_profile
    BY <1>7, TakenConserves, Zenon
<1>8. CASE collect
    BY <1>8, CollectedConserves, Zenon
<1>9. CASE drop_channels
    BY <1>9, DroppedConserves, Zenon
<1> QED
    BY <1>2, <1>3, <1>4, <1>5, <1>6, <1>7, <1>8, <1>9, Zenon
        DEF Next, Apart, Bpf, PollThreads, Select, Shutdown, CollectorThread

\* Each sample with a usable stack is at every moment in exactly one place, or could not be
\* parsed, or is lost to the stop: however many stacks, sessions and samples there are, and
\* however the poll threads, the main thread, the collector and the killswitch's thread
\* interleave (profiler.rs:1072-1081, aggregator.rs, collector.rs).
THEOREM SamplesAlwaysConserved == Spec => []SamplesConserved
<1>1. ConservedInv => SamplesConserved
    BY DEF ConservedInv
<1> QED
    BY <1>1, ConservedInit, ConservedNext, PTL DEF Spec

-----------------------------------------------------------------------------
\* What the collector has of a stack, and what it is about to have, was sampled before.
LEMMA CollectedWasSampled ==
    ASSUME ConservedInv, NEW s \in Reportable, collecting # None
    PROVE  profiles[s] + collecting[1][s] <= sampled[s]
<1>1. TypeInv /\ s \in Stack
    BY DEF ConservedInv, Reportable
<1>2. Cardinality(SentSamples(s)) \in Nat
    BY <1>1, Places, Zenon DEF SentSamples, SamplesIn
<1>3. InFlight(s) = Cardinality(SentSamples(s)) + collecting[1][s]
    BY Zenon DEF InFlight
<1>4. IsSum(sampled[s], stacks[s], raw_sample_chan[s], raw_samples[s],
            Cardinality(SentSamples(s)) + collecting[1][s], profiles[s], dropped[s])
    BY <1>3, Zenon DEF ConservedInv, SamplesConserved, IsSum
<1>5. /\ stacks[s] \in Nat /\ raw_sample_chan[s] \in Nat /\ raw_samples[s] \in Nat
      /\ sampled[s] \in Nat /\ dropped[s] \in Nat /\ profiles[s] \in Nat /\ collecting[1][s] \in Nat
    BY <1>1, Places, Zenon
<1> QED
    BY <1>2, <1>4, <1>5, SumBounds, Zenon

LEMMA RecordInit == Init => Record!Init
    BY DEF Init, Record!Init, Zero, None

LEMMA RecordNext == ConservedInv /\ [Next]_vars => [Record!Next]_(Record!vars)
<1> SUFFICES ASSUME ConservedInv, [Next]_vars PROVE [Record!Next]_(Record!vars)
    OBVIOUS
<1>1. TypeInv /\ (report # None => main = "done") /\ sampled \in Count /\ profiles \in Count
    BY DEF ConservedInv, TypeInv
<1>2. ConservedInv'
    BY ConservedNext
<1>3. CASE UNCHANGED <<sampled, profiles, report>>
    BY <1>3 DEF Record!vars
<1>4. ASSUME NEW s \in Stack, on_event(s)
      PROVE  Record!Next
    <2>1. report = None /\ UNCHANGED <<profiles, report>>
        BY <1>1, <1>4 DEF on_event, Attached, pipeline
    <2>2. sampled' = [sampled EXCEPT ![s] = @ + 1]
        <3>1. sampled' = [t \in Stack |-> sampled[t] + One(s)[t]]
            BY <1>4, Zenon DEF on_event, Plus
        <3>2. ASSUME NEW t \in Stack
              PROVE  sampled[t] + One(s)[t] = [sampled EXCEPT ![s] = @ + 1][t]
            <4>1. One(s)[t] = IF t = s THEN 1 ELSE 0
                BY Counts, Zenon
            <4>2. sampled[t] \in Nat /\ DOMAIN sampled = Stack
                BY <1>1 DEF Count
            <4> QED
                BY <4>1, <4>2
        <3> QED
            BY <1>1, <3>1, <3>2, Zenon DEF Count
    <2> QED
        BY <2>1, <2>2, Zenon DEF Record!Next, Record!Take, None
<1>5. CASE collect
    <2>1. report = None /\ UNCHANGED <<sampled, report>>
        BY <1>1, <1>5 DEF collect, CollectorUnlocked
    <2>2. DOMAIN profiles' = Stack
        BY <1>5, Zenon DEF collect, Plus
    <2>3. ASSUME NEW t \in Stack
          PROVE  profiles'[t] \in profiles[t]..(IF t \in Reportable THEN sampled[t] ELSE 0)
        <3> DEFINE g == raw_to_processed(collecting[1])
        <3>1. collecting # None /\ collecting[1] \in Count
            BY <1>1, <1>5, Places, Zenon DEF collect, Profile
        <3>2. /\ profiles[t] \in Nat /\ sampled[t] \in Nat /\ g[t] \in Nat
              /\ t \in Reportable => g[t] = collecting[1][t]
            BY <1>1, <3>1, Counts, Zenon DEF Count, Reportable
        <3>3. profiles'[t] = profiles[t] + g[t]
            <4>1. profiles' = Plus(profiles, g) /\ g \in Count
                BY <1>5, <3>1, Counts, Zenon DEF collect
            <4> QED
                BY <1>1, <4>1, CountAt, Zenon
        <3>4. t \notin Reportable => profiles'[t] = 0
            BY <1>2 DEF ConservedInv, TypeInv, Reportable
        <3>5. t \in Reportable => profiles[t] + collecting[1][t] <= sampled[t]
            BY <3>1, CollectedWasSampled
        <3> HIDE DEF g
        <3>6. CASE t \in Reportable
            <4>1. profiles[t] + g[t] \in profiles[t]..sampled[t]
                BY <3>2, <3>5, <3>6, GrownWithin, Zenon
            <4> QED
                BY <3>3, <3>6, <4>1, Zenon
        <3>7. CASE t \notin Reportable
            <4>1. profiles[t] = 0
                BY <1>1, <3>7, Zenon DEF TypeInv
            <4>2. 0 \in 0..0
                OBVIOUS
            <4> QED
                BY <3>4, <3>7, <4>1, <4>2, Zenon
        <3> QED
            BY <3>6, <3>7, Zenon
    <2> QED
        BY <2>1, <2>2, <2>3, Zenon DEF Record!Next, Record!Collect, None
<1>6. CASE write_report
    BY <1>1, <1>6 DEF write_report, pipeline, Record!Next, Record!Write, None
<1>7. CASE \/ Killswitch \/ touch_killswitch \/ send_event \/ handle_event \/ ctrl_c
           \/ detach \/ finish \/ drop_channels \/ report_fails \/ UNCHANGED vars
    <2>1. UNCHANGED <<sampled, profiles, report>>
        BY <1>7, Zenon DEF Killswitch, start, killswitch_tick, killswitch_send, touch_killswitch,
            send_event, handle_event, ctrl_c, detach, finish, drop_channels, report_fails, pipeline, vars
    <2> QED
        BY <1>3, <2>1
<1>8. CASE \/ \E s \in Stack, parsed \in BOOLEAN : handle_sample(s, parsed)
           \/ \E s \in Stack : receive_raw_sample(s)
           \/ session_tick \/ total_duration_tick \/ receive_stop \/ receive_profile
    <2>1. UNCHANGED <<sampled, profiles, report>>
        BY <1>8, Zenon DEF handle_sample, receive_raw_sample, session_tick, total_duration_tick,
            receive_stop, receive_profile, collect_and_send_profile, pipeline
    <2> QED
        BY <1>3, <2>1
<1> QED
    BY <1>4, <1>5, <1>6, <1>7, <1>8, Zenon
        DEF Next, Apart, Bpf, PollThreads, Select, Shutdown, CollectorThread

\* The program is a Recording: what its collector gains was sampled, and no stack is
\* ever there more often than it was sampled; a report is written once, of what the
\* collector has, and nothing is collected after it (collector.rs:165-190,
\* profile/convert.rs, main.rs:232-243).
THEOREM SessionIsRecording == Spec => IsRecording
<1> QED
    BY ConservedInit, ConservedNext, RecordInit, RecordNext, PTL DEF Spec, IsRecording, Record!Spec
=============================================================================
