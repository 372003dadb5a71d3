------------------------------ MODULE Unwinder ------------------------------
(***************************************************************************)
(* Walking one user stack in BPF: dwarf_unwind walks a few frames per      *)
(* program and continues in a tail call, up to a number of frames and of   *)
(* tail calls; at the bottom the kernel stack is added and the sample      *)
(* sent, and any other end discards it.                                    *)
(*                                                                         *)
(* A stack is the number of its frames that can be unwound and what comes  *)
(* after them: the bottom, or a frame the unwinder gives up at.  Why it    *)
(* does is told by the counters it bumps, if any.  How a frame's row is    *)
(* found and used is the matter of UnwindTable and CfaRow.                 *)
(***************************************************************************)
EXTENDS Integers

CONSTANTS
    MAX_STACK_DEPTH_PER_PROGRAM,
    MAX_TAIL_CALLS,
    MAX_STACK_DEPTH,
    Depths,           \* user stack depths
    KernelDepths,     \* kernel stack depths, 0 when interrupted in user space
    MAX_STACKS        \* bound on the samples taken

\* Among them the static assertion on the limits (profiler.h:9).
ASSUME UnwinderAssumption ==
    /\ MAX_STACK_DEPTH_PER_PROGRAM \in Nat \ {0}
    /\ MAX_TAIL_CALLS \in Nat
    /\ MAX_STACK_DEPTH \in Nat \ {0}
    /\ MAX_TAIL_CALLS * MAX_STACK_DEPTH_PER_PROGRAM >= MAX_STACK_DEPTH
    /\ Depths \subseteq Nat
    /\ KernelDepths \subseteq 0..MAX_STACK_DEPTH
    /\ MAX_STACKS \in Nat

\* unwinder_stats_t.  The counters of the early returns of dwarf_unwind, and the rest.
GiveUpCounters ==
    {"mapping_not_found", "mapping_does_not_contain_pc", "jit_encountered", "page_not_found",
     "binary_search_exhausted_iterations", "cfa_offset_did_not_fit", "rbp_offset_did_not_fit",
     "unsupported_frame_pointer_action", "unsupported_expression", "should_never_happen",
     "unsupported_cfa_register", "previous_rsp_zero", "previous_rbp_read", "previous_rip_zero"}
Counters ==
    GiveUpCounters \cup
    {"total", "success_dwarf", "truncated", "failure_sending_stack", "previous_rsp_read",
     "sending_new_process_event", "bp_non_zero_for_bottom_frame", "vdso_encountered"}

VARIABLES
    stack,        \* the stack of the sampled thread: [depth, whole, kernel]
    frame,        \* how many frames were walked: ip, sp and bp are this frame's
    ulen, klen,   \* the sample in the heap
    tail_calls,
    i,            \* the iteration in this program
    phase,        \* "idle", "walking", "bottom", "sent" or "discarded"
    stats,        \* percpu_stats
    sent,         \* history: samples that reached the buffer
    uncounted     \* history: samples given up without a counter

unwinderVars == <<stack, frame, ulen, klen, tail_calls, i, phase, stats, sent, uncounted>>

\* The walk of a whole stack ends at the bottom.
Stacks == [depth : Depths, whole : BOOLEAN, kernel : KernelDepths]
NoStack == [depth |-> 0, whole |-> TRUE, kernel |-> 0]

UnwinderInit ==
    /\ stack = NoStack
    /\ frame = 0 /\ ulen = 0 /\ klen = 0 /\ tail_calls = 0 /\ i = 0
    /\ phase = "idle"
    /\ stats = [c \in Counters |-> 0]
    /\ sent = 0 /\ uncounted = 0

\* bump_unwind_* for every counter of S.
Bump(S) == [c \in Counters |-> IF c \in S THEN stats[c] + 1 ELSE stats[c]]

-----------------------------------------------------------------------------
\* on_event for a known process: the walk starts with set_initial_state.
set_initial_state ==
    /\ phase \in {"idle", "sent", "discarded"}
    /\ stats["total"] < MAX_STACKS
    /\ stack' \in Stacks
    /\ frame' = 0 /\ ulen' = 0 /\ klen' = 0 /\ tail_calls' = 0 /\ i' = 0
    /\ phase' = "walking"
    /\ stats' = Bump({"total"})
    /\ UNCHANGED <<sent, uncounted>>

AddFrameUnchecked == ulen + 1
\* The frame is added while there is room: "Appease the verifier."
AddFrame == IF ulen < MAX_STACK_DEPTH THEN ulen + 1 ELSE ulen

\* Only the leaf frame can be in the vDSO, which calls nothing.
unwind_frame ==
    /\ phase = "walking" /\ i < MAX_STACK_DEPTH_PER_PROGRAM
    /\ frame < stack.depth
    /\ ulen' = AddFrame
    /\ frame' = frame + 1
    /\ i' = i + 1
    /\ \/ UNCHANGED stats
       \/ frame = 0 /\ stats' = Bump({"vdso_encountered"})
    /\ UNCHANGED <<stack, klen, tail_calls, phase, sent, uncounted>>

\* The marker after the last function, or an undefined return address.
reached_bottom_of_stack ==
    /\ phase = "walking" /\ i < MAX_STACK_DEPTH_PER_PROGRAM
    /\ frame = stack.depth /\ stack.whole
    /\ phase' = "bottom"
    /\ UNCHANGED <<stack, frame, ulen, klen, tail_calls, i, stats, sent, uncounted>>

\* What the early returns bump: a missing page also asks for unwind information,
\* which may fail, and a failed read of rsp only fails what follows.  The lack of a
\* row and a return address of 0 bump nothing.
GiveUps ==
    {{c} : c \in GiveUpCounters}
    \cup {{"page_not_found", "sending_new_process_event"}}
    \cup {{"previous_rsp_read", c} : c \in {"previous_rsp_zero", "previous_rbp_read",
                                            "previous_rip_zero"}}
    \cup {{}}

\* One of the early returns of dwarf_unwind.
give_up ==
    /\ phase = "walking" /\ i < MAX_STACK_DEPTH_PER_PROGRAM
    /\ frame = stack.depth /\ ~stack.whole
    /\ phase' = "discarded"
    /\ \E bumped \in GiveUps :
        /\ stats' = Bump(bumped)
        /\ uncounted' = IF bumped = {} THEN uncounted + 1 ELSE uncounted
    /\ UNCHANGED <<stack, frame, ulen, klen, tail_calls, i, sent>>

TailCallsTooFew == ulen < MAX_STACK_DEPTH /\ tail_calls < MAX_TAIL_CALLS - 2
CanTailCall == ulen < MAX_STACK_DEPTH /\ tail_calls < MAX_TAIL_CALLS

tail_call ==
    /\ phase = "walking" /\ i = MAX_STACK_DEPTH_PER_PROGRAM
    /\ CanTailCall
    /\ tail_calls' = tail_calls + 1
    /\ i' = 0
    /\ UNCHANGED <<stack, frame, ulen, klen, phase, stats, sent, uncounted>>

\* "Truncated stack, won't be sent"
truncated ==
    /\ phase = "walking" /\ i = MAX_STACK_DEPTH_PER_PROGRAM
    /\ ~CanTailCall
    /\ phase' = "discarded"
    /\ stats' = Bump({"truncated"})
    /\ UNCHANGED <<stack, frame, ulen, klen, tail_calls, i, sent, uncounted>>

KernelStackTooEarly(k) == IF ulen < MAX_STACK_DEPTH - 1 THEN k ELSE 0
\* bpf_get_stack writes behind the user stack, unless that one is full.
KernelStack(k) == IF ulen < MAX_STACK_DEPTH THEN k ELSE 0

SuccessIfSent(lost) == IF lost THEN {"failure_sending_stack"} ELSE {"success_dwarf"}
\* A sample whose buffer is full counts as a success, too.
SendCounters(lost) ==
    {"success_dwarf"} \cup (IF lost THEN {"failure_sending_stack"} ELSE {})

\* The sample is sent, or its buffer is full; the bottom frame's rbp may not be 0.
add_stack ==
    /\ phase = "bottom"
    /\ klen' = KernelStack(stack.kernel)
    /\ \E lost \in BOOLEAN, nonzero \in SUBSET {"bp_non_zero_for_bottom_frame"} :
        /\ stats' = Bump(SendCounters(lost) \cup nonzero)
        /\ sent' = IF lost THEN sent ELSE sent + 1
        /\ phase' = IF lost THEN "discarded" ELSE "sent"
    /\ UNCHANGED <<stack, frame, ulen, tail_calls, i, uncounted>>

UnwinderNext ==
    \/ set_initial_state
    \/ unwind_frame
    \/ reached_bottom_of_stack
    \/ give_up
    \/ tail_call
    \/ truncated
    \/ add_stack

UnwinderSpec == UnwinderInit /\ [][UnwinderNext]_unwinderVars

-----------------------------------------------------------------------------
StatsOK == stats \in [Counters -> Nat] /\ sent \in Nat /\ uncounted \in Nat

\* The heap's sample stays in its bounds: the user stack within MAX_STACK_DEPTH,
\* and the kernel stack within the other half of `addresses`.
TypeOK ==
    /\ stack \in Stacks \cup {NoStack}
    /\ frame \in 0..stack.depth
    /\ ulen \in 0..MAX_STACK_DEPTH /\ klen \in 0..MAX_STACK_DEPTH
    /\ tail_calls \in 0..MAX_TAIL_CALLS
    /\ i \in 0..MAX_STACK_DEPTH_PER_PROGRAM
    /\ phase \in {"idle", "walking", "bottom", "sent", "discarded"}
    /\ StatsOK

\* "enough iterations to traverse the whole stack" (profiler.h:10): a stack that
\* can be unwound and is shorter than MAX_STACK_DEPTH is never given up as
\* truncated, and it is sent whole, with its kernel stack.
ShortStacksAreWhole ==
    phase \in {"bottom", "sent"} /\ stack.depth < MAX_STACK_DEPTH =>
        ulen = stack.depth /\ (phase = "sent" => klen = stack.kernel)

\* A stack that can be unwound and is shorter than MAX_STACK_DEPTH reaches its
\* bottom: neither the frames per program nor the tail calls run out.
ShortStacksFinish ==
    phase = "discarded" /\ stack.depth < MAX_STACK_DEPTH /\ stack.whole =>
        frame = stack.depth /\ i < MAX_STACK_DEPTH_PER_PROGRAM

\* The early returns and the truncation, as the counters have them.
LookupFailures ==
    stats["mapping_not_found"] + stats["mapping_does_not_contain_pc"] + stats["jit_encountered"]
    + stats["page_not_found"] + stats["binary_search_exhausted_iterations"]
RowFailures ==
    stats["cfa_offset_did_not_fit"] + stats["rbp_offset_did_not_fit"]
    + stats["unsupported_frame_pointer_action"] + stats["unsupported_expression"]
    + stats["unsupported_cfa_register"]
WalkFailures ==
    stats["should_never_happen"] + stats["previous_rsp_zero"] + stats["previous_rbp_read"]
    + stats["previous_rip_zero"] + stats["truncated"]
Failures == LookupFailures + RowFailures + WalkFailures

\* The statistics explain every sample taken, over any number of samples: it was sent,
\* found its buffer full, is accounted for by exactly one of the counters of failures,
\* or is one of those that have none (no row, profiler.bpf.c:402 and 411, and a return
\* address of 0, 546).  The success that collect_unwinder_stats reports
\* (profiler.rs:1027-1029) is of stacks walked, sent or not.
StatsExplainSamples ==
    /\ stats["success_dwarf"] = sent + stats["failure_sending_stack"]
    /\ stats["total"] = stats["success_dwarf"] + Failures + uncounted
                       + (IF phase \in {"walking", "bottom"} THEN 1 ELSE 0)
=============================================================================
