------------------------------ MODULE Tracers ------------------------------
(***************************************************************************)
(* The BPF tracing programs that tell user space of unmapped executable    *)
(* mappings and of exited processes.  munmap is traced in two halves: the  *)
(* program at the entry of the system call finds the mapping and keeps its *)
(* address under the id of the thread, and the one at its exit reads that  *)
(* entry and sends the event if the call succeeded.  The threads of a      *)
(* process run in between.  munmap removes a range of addresses, which may *)
(* be a part of a mapping or reach over several; the tracer looks at the   *)
(* address it begins at.                                                   *)
(*                                                                         *)
(* What user space has published in exec_mappings changes at any time; the *)
(* module Profiler has when and how, and that a full buffer loses events.  *)
(***************************************************************************)
EXTENDS Memory, FiniteSets

CONSTANTS
    Thread, Pid,
    ProcessOf,       \* the process of every thread
    Main,            \* the main threads
    Mappings,        \* the mappings each process starts with, and may make again
    Unmaps,          \* the ranges each process may unmap
    MAX_TRACKED,     \* entries in tracked_munmap
    MAX_CALLS        \* bound on the calls of munmap

ASSUME TracersAssumption ==
    /\ ProcessOf \in [Thread -> Pid]
    /\ Main \subseteq Thread
    /\ \A p \in Pid : \E t \in Main : ProcessOf[t] = p
    /\ Mappings \in [Pid -> SUBSET [start : Nat \ {0}, end : Nat, kind : {"data", "exec"}]]
    /\ \A p \in Pid : Disjoint(Mappings[p])
    /\ Unmaps \in [Pid -> SUBSET [start : Nat \ {0}, end : Nat]]
    /\ MAX_TRACKED \in Nat /\ MAX_CALLS \in Nat

VARIABLES
    mapped,          \* the mappings of every process
    exec_mappings,   \* <<pid, begin, end>> of the mappings, and the process entries
    alive,           \* the threads that run
    call,            \* the munmap call each thread is in; history: the published mappings
                     \* it hits and whether it had an entry to use, when it began
    tracked_munmap,  \* address by key
    calls,           \* calls of munmap so far
    sent,            \* the event the last step sent
    attempts         \* history: <<thread, address>> of calls on published mappings

vars == <<mapped, exec_mappings, alive, call, tracked_munmap, calls, sent, attempts>>

\* The entry of a process, under address 0 (shared_helpers.h:11-17).
ProcessEntry(p) == <<p, 0, 0>>

NoEvent == [type |-> "none"]
MunmapEvent(p, a) == [type |-> "munmap", pid |-> p, start_address |-> a]
ExitEvent(p) == [type |-> "process_exit", pid |-> p]
NoCall == [at |-> "user", start |-> 0, end |-> 0, ret |-> 0, hits |-> {}, room |-> FALSE]

\* bpf_get_current_pid_tgid
Key(t) == <<ProcessOf[t], t>>

Init ==
    /\ mapped = Mappings
    /\ exec_mappings = {}
    /\ alive = Thread
    /\ call = [t \in Thread |-> NoCall]
    /\ tracked_munmap = [k \in {} |-> 0]
    /\ calls = 0
    /\ sent = NoEvent
    /\ attempts = {}

Around(p, a) == {m \in exec_mappings : m[1] = p /\ m[2] <= a /\ a < m[3]}

\* The longest prefix that matches: that of a mapping around a, or else the process
\* entry, of which the process id is the whole key.
find_mapping(p, a) ==
    IF Around(p, a) # {} THEN Around(p, a) ELSE {ProcessEntry(p)} \cap exec_mappings

AnyEntry(p, a) == find_mapping(p, a) # {}
\* "Ensure we didn't get a process entry."
MappingAt(p, a) == \E m \in find_mapping(p, a) : m[2] <= a /\ a < m[3]

process_is_known(p) == ProcessEntry(p) \in exec_mappings

-----------------------------------------------------------------------------
\* add_bpf_mappings and add_bpf_process, for what is mapped now.
publish(p) ==
    /\ \E t \in alive : ProcessOf[t] = p
    /\ exec_mappings' = exec_mappings \cup {ProcessEntry(p)}
           \cup {<<p, m.start, m.end>> : m \in {n \in mapped[p] : n.kind = "exec"}}
    /\ sent' = NoEvent
    /\ UNCHANGED <<mapped, alive, call, tracked_munmap, calls, attempts>>

\* delete_bpf_mappings, on a munmap event.
unpublish(m) ==
    /\ m # ProcessEntry(m[1])
    /\ exec_mappings' = exec_mappings \ {m}
    /\ sent' = NoEvent
    /\ UNCHANGED <<mapped, alive, call, tracked_munmap, calls, attempts>>

\* The process maps a file, or memory, where nothing is mapped.
mmap(t, m) ==
    /\ t \in alive /\ call[t].at = "user"
    /\ \A n \in mapped[ProcessOf[t]] : ~Overlap(m, n)
    /\ mapped' = [mapped EXCEPT ![ProcessOf[t]] = @ \cup {m}]
    /\ sent' = NoEvent
    /\ UNCHANGED <<exec_mappings, alive, call, tracked_munmap, calls, attempts>>

HasRoom(t) == Key(t) \in DOMAIN tracked_munmap \/ Cardinality(DOMAIN tracked_munmap) < MAX_TRACKED

KeepsFirst(t, a) ==
    IF HasRoom(t) THEN [k \in DOMAIN tracked_munmap \cup {Key(t)} |->
                           IF k \in DOMAIN tracked_munmap THEN tracked_munmap[k] ELSE a]
    ELSE tracked_munmap

\* bpf_map_update_elem with BPF_ANY; its result is not looked at.
Tracked(t, a) ==
    IF HasRoom(t) THEN [k \in DOMAIN tracked_munmap \cup {Key(t)} |->
                           IF k = Key(t) THEN a ELSE tracked_munmap[k]]
    ELSE tracked_munmap

\* The length of the range is not looked at.
tracer_enter_munmap(t, r) ==
    LET p == ProcessOf[t]
    IN  /\ t \in alive /\ call[t].at = "user" /\ calls < MAX_CALLS
        /\ calls' = calls + 1
        /\ tracked_munmap' =
               IF MappingAt(p, r.start) THEN Tracked(t, r.start) ELSE tracked_munmap
        /\ call' = [call EXCEPT ![t] =
               [at |-> "kernel", start |-> r.start, end |-> r.end, ret |-> 0,
                hits |-> {m \in exec_mappings : m[1] = p /\ m[2] < r.end /\ r.start < m[3]},
                room |-> HasRoom(t)]]
        /\ attempts' = IF Around(p, r.start) # {} THEN attempts \cup {<<t, r.start>>}
                       ELSE attempts
        /\ sent' = NoEvent
        /\ UNCHANGED <<mapped, exec_mappings, alive>>

\* The system call itself, which may fail.
munmap(t) ==
    /\ call[t].at = "kernel"
    /\ \/ /\ mapped' = [mapped EXCEPT ![ProcessOf[t]] = Unmapped(@, call[t])]
          /\ call' = [call EXCEPT ![t].at = "returning"]
       \/ /\ call' = [call EXCEPT ![t].at = "returning", ![t].ret = -1]
          /\ UNCHANGED mapped
    /\ sent' = NoEvent
    /\ UNCHANGED <<exec_mappings, alive, tracked_munmap, calls, attempts>>

tracer_exit_munmap(t) ==
    /\ call[t].at = "returning"
    /\ \/ /\ Key(t) \in DOMAIN tracked_munmap /\ call[t].ret = 0
          /\ sent' = MunmapEvent(ProcessOf[t], tracked_munmap[Key(t)])
       \/ /\ ~(Key(t) \in DOMAIN tracked_munmap /\ call[t].ret = 0)
          /\ sent' = NoEvent
    /\ call' = [call EXCEPT ![t] = NoCall]
    /\ UNCHANGED <<mapped, exec_mappings, alive, tracked_munmap, calls, attempts>>

\* "Only report main thread terminating."
ReportsExit(t) == process_is_known(ProcessOf[t]) /\ t \in Main

\* A thread exits, in user mode.
tracer_process_exit(t) ==
    /\ t \in alive /\ call[t].at = "user"
    /\ alive' = alive \ {t}
    /\ \/ ReportsExit(t) /\ sent' = ExitEvent(ProcessOf[t])
       \/ ~ReportsExit(t) /\ sent' = NoEvent
    /\ UNCHANGED <<mapped, exec_mappings, call, tracked_munmap, calls, attempts>>

Next ==
    \/ \E p \in Pid : publish(p)
    \/ \E m \in exec_mappings : unpublish(m)
    \/ \E t \in Thread : \E m \in Mappings[ProcessOf[t]] : mmap(t, m)
    \/ \E t \in Thread : \E r \in Unmaps[ProcessOf[t]] : tracer_enter_munmap(t, r)
    \/ \E t \in Thread : munmap(t)
    \/ \E t \in Thread : tracer_exit_munmap(t)
    \/ \E t \in Thread : tracer_process_exit(t)

Spec == Init /\ [][Next]_vars

-----------------------------------------------------------------------------
Returns(t) == call[t].at = "returning" /\ call[t].ret = 0 /\ call'[t].at = "user"

\* "Called when a process exits or a mapping gets unmapped" (profiler.rs:1278): a
\* mapping that was published when a call began, and of which that call removes
\* memory, is reported when it returns, whatever the other threads did meanwhile,
\* with the address of the call.  There are two exceptions.  A mapping that begins
\* inside the range, behind its start, goes away unreported, because only the start is
\* looked up and the length is not (tracers.bpf.c:87, 94-103).  And tracked_munmap, of
\* which no entry is ever deleted, may have been full (107).
MunmapIsReported ==
    [][\A t \in Thread : Returns(t) /\ call[t].room =>
           \A m \in call[t].hits : m[2] <= call[t].start =>
               sent' = MunmapEvent(ProcessOf[t], call[t].start)]_vars

\* "we definitely don't want to notify of non-executable mappings being unmapped"
\* (tracers.bpf.c:92-95): an address that is reported is one on which the thread itself
\* called munmap while a mapping was published there.  That may have been an earlier
\* call than the one that returns, since entries are never deleted (118).
ReportedWasAttempted ==
    [][sent'.type = "munmap" =>
           \E t \in Thread : /\ Returns(t) /\ sent'.pid = ProcessOf[t]
                             /\ <<t, sent'.start_address>> \in attempts]_vars
=============================================================================
