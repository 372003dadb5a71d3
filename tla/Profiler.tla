------------------------------ MODULE Profiler ------------------------------
(***************************************************************************)
(* Tracking processes.  The BPF programs report processes they do not      *)
(* know, code without unwind information, munmap() calls and exits; the    *)
(* profiler's main loop, one thread, records processes and their mappings, *)
(* loads unwind tables, publishes the mappings in the `exec_mappings` trie *)
(* and takes everything down again.  Kernel steps happen between any two   *)
(* steps of a handler, and the two event channels are drained in any       *)
(* order.                                                                  *)
(*                                                                         *)
(* A sampled stack is one program counter, at the start of a mapping: each *)
(* frame of a real stack is looked up the same way.  A mapping is one      *)
(* entry of the trie (the prefixes that cover it are the matter of         *)
(* AddressBlocks).                                                         *)
(***************************************************************************)
EXTENDS NativeUnwindState, Memory, Sequences

CONSTANTS
    Pid,              \* process ids the kernel hands out
    KERNEL_PID,       \* the pseudo-process that owns the kernel's mappings
    Layouts,          \* the executable mappings a process may start with
    Dlopened,         \* the executable mappings a process may add
    Unmaps,           \* the ranges of addresses a process may remove
    NoExecutable,     \* the id of anonymous mappings
    KernelExecutable, \* the build id of the kernel image
    Profiled,         \* the processes should_profile() accepts
    Unreadable,       \* executables whose file may fail to open
    MAX_PROCESSES,
    MAX_MAPPINGS,
    NEW_PROC_EVENTS,  \* bound: events in flight from the unwinder
    TRACER_EVENTS,    \* bound: events in flight from the tracers
    RAW_SAMPLES,      \* bound: distinct samples in a session
    MAX_OS_CHANGES    \* bound: processes started or ended and mappings made or removed

\* What /proc/pid/maps may list: mappings are not empty, files and the vDSO have
\* an executable, and the mappings of a process do not overlap.
ExecMapping ==
    {m \in [start : Nat, end : Nat, exe : ExecutableId \cup {NoExecutable},
            kind : {"FileBacked", "Vdso", "Anonymous", "Kernel"}] :
        m.start < m.end /\ (m.kind = "Anonymous" <=> m.exe = NoExecutable)}

ASSUME ProfilerAssumption ==
    /\ KERNEL_PID \notin Pid
    /\ KernelExecutable \in ExecutableId
    /\ NoExecutable \notin ExecutableId
    /\ \A p \in Pid : Dlopened[p] \subseteq ExecMapping
    /\ \A p \in Pid : \A r \in Unmaps[p] : r.start \in Nat /\ r.end \in Nat /\ r.start < r.end
    /\ \A p \in Pid : \A layout \in Layouts[p] :
          IsFiniteSet(layout) /\ layout \subseteq ExecMapping /\ Disjoint(layout)

VARIABLES
    os,               \* kernel: live processes -> their executable mappings
    exec_mappings,    \* BPF: <<pid, mapping>>, and <<pid, ProcessEntry>>
    rate_limits,      \* BPF: unwinder events already sent in this session
    new_proc_chan,    \* events from the unwinder, in order
    tracers_chan,     \* events from the tracers, in order
    procs,            \* processes ever recorded -> status, mappings, soft-deleted ones
    last_used,        \* processes ever recorded -> last_used
    object_files,     \* executables ever recorded -> references
    raw_samples,      \* <<pid, address>> sampled since the last session
    process_evicted_lately,
    task,             \* where the main loop is
    os_changes,       \* changes of os so far
    unmapped,         \* history: for each munmap() the pid, the address it began at and the
                      \* mappings it removed memory of
    unreported        \* history: processes an exit of which sent no event

kernelVars == <<os, rate_limits, new_proc_chan, tracers_chan, raw_samples>>
userVars == <<procs, last_used, object_files, process_evicted_lately>>
historyVars == <<os_changes, unmapped, unreported>>
vars == <<unwindVars, kernelVars, userVars, exec_mappings, task, historyVars>>

Mapping(start, end, exe, kind) == [start |-> start, end |-> end, exe |-> exe, kind |-> kind]
ProcessEntry == Mapping(0, 0, NoExecutable, "Process")
KernelMapping == Mapping(100, 101, KernelExecutable, "Kernel")

Select == [op |-> "select"]

Init ==
    /\ UnwindInit
    /\ os = [p \in {} |-> {}]
    /\ exec_mappings = {}
    /\ rate_limits = {}
    /\ new_proc_chan = <<>>
    /\ tracers_chan = <<>>
    /\ procs = [p \in {KERNEL_PID} |->
                  [status |-> "Running", mappings |-> {KernelMapping}, deleted |-> {}]]
    /\ last_used = [p \in {KERNEL_PID} |-> 0]
    /\ object_files = [e \in {KernelExecutable} |-> 1]
    /\ raw_samples = {}
    /\ process_evicted_lately = TRUE
    /\ task = Select
    /\ os_changes = 0 /\ unmapped = {} /\ unreported = {}

for_address(S, a) == {m \in S : Contains(m, a)}

\* The trie lookup: the mapping of p around a, or nothing.
BpfMappings(p) == {x[2] : x \in {y \in exec_mappings : y[1] = p}} \ {ProcessEntry}
process_is_known(p) == <<p, ProcessEntry>> \in exec_mappings

-----------------------------------------------------------------------------
\* The kernel: processes, the sampling unwinder and the tracers.

OsChanges == os_changes < MAX_OS_CHANGES /\ os_changes' = os_changes + 1

ProcessStart(p) ==
    /\ OsChanges
    /\ p \notin DOMAIN os
    /\ \E layout \in Layouts[p] : os' = [q \in DOMAIN os \cup {p} |->
                                           IF q = p THEN layout ELSE os[q]]
    /\ UNCHANGED <<unwindVars, userVars, exec_mappings, rate_limits, new_proc_chan,
                   tracers_chan, raw_samples, task, unmapped, unreported>>

Mmap(p, m) ==
    /\ OsChanges
    /\ p \in DOMAIN os
    /\ \A n \in os[p] : ~Overlap(m, n)
    /\ os' = [os EXCEPT ![p] = @ \cup {m}]
    /\ UNCHANGED <<unwindVars, userVars, exec_mappings, rate_limits, new_proc_chan,
                   tracers_chan, raw_samples, task, unmapped, unreported>>

\* An event that finds its buffer full is lost.
SendTracerEvent(event) ==
    tracers_chan' = IF Len(tracers_chan) < TRACER_EVENTS
                    THEN Append(tracers_chan, event) ELSE tracers_chan

\* munmap() of a range, a part of a mapping or several, that leaves the process some
\* code; the tracer reports where the range begins if a published mapping is there.
Munmap(p, r) ==
    /\ OsChanges
    /\ p \in DOMAIN os
    /\ Unmapped(os[p], r) # {}
    /\ os' = [os EXCEPT ![p] = Unmapped(os[p], r)]
    /\ unmapped' = unmapped \cup {<<p, r.start, {m \in os[p] : Overlap(m, r)}>>}
    /\ IF for_address(BpfMappings(p), r.start) # {}
       THEN SendTracerEvent([type |-> "Munmap", pid |-> p, start_address |-> r.start])
       ELSE UNCHANGED tracers_chan
    /\ UNCHANGED <<unwindVars, userVars, exec_mappings, rate_limits, new_proc_chan, raw_samples,
                   task, unreported>>

tracer_process_exit(p) ==
    /\ OsChanges
    /\ p \in DOMAIN os
    /\ os' = [q \in DOMAIN os \ {p} |-> os[q]]
    /\ IF process_is_known(p)
       THEN SendTracerEvent([type |-> "ProcessExit", pid |-> p])
       ELSE UNCHANGED tracers_chan
    /\ unreported' = IF tracers_chan' = tracers_chan THEN unreported \cup {p} ELSE unreported
    /\ UNCHANGED <<unwindVars, userVars, exec_mappings, rate_limits, new_proc_chan, raw_samples,
                   task, unmapped>>

\* The rate limit is set even if the event was lost, unless its map is full.
send_event(event) ==
    /\ event \notin rate_limits
    /\ new_proc_chan' = IF Len(new_proc_chan) < NEW_PROC_EVENTS
                        THEN Append(new_proc_chan, event) ELSE new_proc_chan
    /\ rate_limits' = IF Cardinality(rate_limits) < MAX_PROCESSES
                      THEN rate_limits \cup {event} ELSE rate_limits
    /\ UNCHANGED raw_samples

SampleUnknownProcess(p) ==
    /\ ~process_is_known(p)
    /\ send_event([type |-> "NEW_PROCESS", pid |-> p])

SampleWithoutUnwindInfo(p, a) ==
    /\ process_is_known(p)
    /\ \E m \in for_address(BpfMappings(p), a) :
        /\ m.kind # "Anonymous"
        /\ <<m.exe, 1>> \notin executable_to_page
        /\ send_event([type |-> "NEED_UNWIND_INFO", pid |-> p, address |-> a])

SampleUnwound(p, a) ==
    /\ process_is_known(p)
    /\ \E m \in for_address(BpfMappings(p), a) :
        /\ m.kind # "Anonymous"
        /\ <<m.exe, 1>> \in executable_to_page
    /\ raw_samples' = raw_samples \cup {<<p, a>>}
    /\ Cardinality(raw_samples') <= RAW_SAMPLES
    /\ UNCHANGED <<rate_limits, new_proc_chan>>

on_event(p) ==
    /\ p \in DOMAIN os
    /\ \E m \in os[p] : \/ SampleUnknownProcess(p)
                        \/ SampleWithoutUnwindInfo(p, m.start)
                        \/ SampleUnwound(p, m.start)
    /\ UNCHANGED <<unwindVars, userVars, exec_mappings, os, tracers_chan, task, historyVars>>

-----------------------------------------------------------------------------
\* Soft deletion of mappings, with the references of their executables.

AnyReference(S) == {m \in S : m.exe \in DOMAIN object_files}
\* Of the mappings S of one process, deleted in address order, the ones
\* whose deletion takes the references of their executable to zero.
LastReferences(S) ==
    {m \in S :
        /\ m.exe \in DOMAIN object_files
        /\ object_files[m.exe] = Cardinality({n \in S : n.exe = m.exe /\ n.start <= m.start})}

References(S, e) == Cardinality({m \in S : m.exe = e})

ReleaseAll(S) ==
    [e \in DOMAIN object_files |->
        IF References(S, e) > object_files[e] THEN 0 ELSE object_files[e] - References(S, e)]

ReleaseAgain(p, S) == S
NotYetDeleted(p, S) == S \ procs[p].deleted

mark_as_deleted(p, S, status, entries) ==
    LET newly == NotYetDeleted(p, S)
        gone == {m \in LastReferences(newly) : m.exe \in DOMAIN known_executables}
    IN  /\ procs' = [procs EXCEPT ![p].deleted = @ \cup newly, ![p].status = status]
        /\ object_files' = ReleaseAll(newly)
        /\ exec_mappings' = exec_mappings \ ({<<p, m>> : m \in gone} \cup entries)
        /\ DeleteTables({m.exe : m \in gone})
        /\ UNCHANGED last_used

KeepRunning(p) ==
    IF p \in DOMAIN procs
    THEN mark_as_deleted(p, procs[p].mappings, procs[p].status, {<<p, ProcessEntry>>})
    ELSE UNCHANGED <<unwindVars, procs, object_files, exec_mappings, last_used>>

handle_process_exit(p) ==
    IF p \in DOMAIN procs
    THEN mark_as_deleted(p, procs[p].mappings, "Exited", {<<p, ProcessEntry>>})
    ELSE UNCHANGED <<unwindVars, procs, object_files, exec_mappings, last_used>>

MatchesBehind(p, a) == {m \in procs[p].mappings : a <= m.end}

\* The address of a munmap() also matches a mapping that ends there.
MunmapMatches(p, a) == {m \in procs[p].mappings : m.start <= a /\ a <= m.end}

handle_munmap(p, a) ==
    IF p \in DOMAIN procs
    THEN mark_as_deleted(p, MunmapMatches(p, a), procs[p].status, {})
    ELSE UNCHANGED <<unwindVars, procs, object_files, exec_mappings, last_used>>

\* maybe_evict_process: nothing to do, an eviction, or a refusal.
RunningProcs == {p \in DOMAIN procs : procs[p].status = "Running"}
TooManyProcs == Cardinality(RunningProcs) >= MAX_PROCESSES

EvictProcess ==
    \/ /\ RunningProcs = {}
       /\ UNCHANGED <<unwindVars, procs, object_files, exec_mappings, last_used, process_evicted_lately>>
    \/ \E victims \in LeastRecentlyUsed([p \in RunningProcs |-> last_used[p]], 1) :
        \E p \in victims :
            /\ handle_process_exit(p)
            /\ process_evicted_lately' = TRUE

-----------------------------------------------------------------------------
\* The main loop: one receiver is served at a time, and each handler runs to
\* its end before the next.

LoadTask(p) ==
    LET todo == {m \in procs'[p].mappings : m.kind # "Anonymous"}
    IN  IF todo = {} THEN [op |-> "publish", pid |-> p]
                     ELSE [op |-> "load", pid |-> p, todo |-> todo]

Received(type) ==
    /\ task = Select
    /\ new_proc_chan # <<>>
    /\ Head(new_proc_chan).type = type
    /\ new_proc_chan' = Tail(new_proc_chan)
    /\ UNCHANGED <<os, rate_limits, tracers_chan, raw_samples>>

\* event_new_proc for a process that is filtered out, is dead, or would need
\* an eviction too soon after the last.
event_new_proc_ignored ==
    /\ Received("NEW_PROCESS")
    /\ LET p == Head(new_proc_chan).pid
       IN  \/ p \notin Profiled
           \/ /\ p \notin DOMAIN procs
              /\ p \notin DOMAIN os \/ (TooManyProcs /\ process_evicted_lately)
    /\ UNCHANGED <<unwindVars, userVars, exec_mappings, task>>

\* event_new_proc for a process recorded before, whatever became of it.
event_new_proc_known ==
    /\ Received("NEW_PROCESS")
    /\ LET p == Head(new_proc_chan).pid
       IN  /\ p \in Profiled
           /\ p \in DOMAIN procs
           /\ UNCHANGED <<unwindVars, userVars, exec_mappings>>
           /\ task' = LoadTask(p)

\* event_new_proc for a new process: add_proc reads its mappings, and evicts
\* another process if there are too many.
event_new_proc_unknown ==
    /\ Received("NEW_PROCESS")
    /\ LET p == Head(new_proc_chan).pid
       IN  /\ p \in Profiled
           /\ p \notin DOMAIN procs
           /\ p \in DOMAIN os
           /\ task' = [op |-> "add", pid |-> p, maps |-> os[p]]
           /\ \/ ~TooManyProcs
                 /\ UNCHANGED <<unwindVars, userVars, exec_mappings>>
              \/ TooManyProcs /\ ~process_evicted_lately /\ EvictProcess

ReferencesOfRecorded(S) == [e \in DOMAIN object_files |-> object_files[e] + References(S, e)]

\* References after the mappings S were recorded: those of a file are counted,
\* the vDSO's entry is replaced.
AddReferences(S) ==
    [e \in DOMAIN object_files \cup {m.exe : m \in {n \in S : n.kind # "Anonymous"}} |->
        IF \E m \in S : m.exe = e /\ m.kind = "Vdso" THEN 1
        ELSE References(S, e) + (IF e \in DOMAIN object_files THEN object_files[e] ELSE 0)]

\* The rest of add_proc.  A file that cannot be opened is left out; if the
\* process is gone by then any file can, and the process is recorded but the
\* read of its threads fails.
add_proc ==
    /\ task.op = "add"
    /\ \E skipped \in SUBSET {m \in task.maps : m.kind # "Anonymous"} :
        LET S == task.maps \ skipped
        IN  /\ task.pid \in DOMAIN os => \A m \in skipped : m.exe \in Unreadable
            /\ object_files' = AddReferences(S)
            /\ procs' = [q \in DOMAIN procs \cup {task.pid} |->
                           IF q = task.pid THEN [status |-> "Running", mappings |-> S, deleted |-> {}]
                           ELSE procs[q]]
    /\ last_used' = Stamp(last_used, {task.pid})
    /\ task' = IF task.pid \in DOMAIN os THEN LoadTask(task.pid) ELSE Select
    /\ UNCHANGED <<unwindVars, kernelVars, exec_mappings, process_evicted_lately>>

\* The loop of add_unwind_info_for_process, in address order; the first table
\* that cannot be loaded ends it.
load_unwind_info ==
    /\ task.op = "load"
    /\ \E m \in task.todo, ok \in BOOLEAN :
        /\ \A n \in task.todo : m.start <= n.start
        /\ AddUnwindInformation(m.exe, ok)
        /\ task' = IF ~ok THEN Select
                   ELSE IF task.todo = {m} THEN [op |-> "publish", pid |-> task.pid]
                   ELSE [task EXCEPT !.todo = @ \ {m}]
    /\ UNCHANGED <<kernelVars, userVars, exec_mappings>>

\* The entries of p that a trie with room for `free` more takes in, in address order.
EntriesWritten(p, free) ==
    LET missing == {m \in procs[p].mappings : <<p, m>> \notin exec_mappings}
    IN  {<<p, m>> : m \in {n \in missing : Cardinality({k \in missing : k.start <= n.start}) <= free}}

PublishProcessFirst ==
    /\ task.op = "publish"
    /\ LET added == exec_mappings \cup {<<task.pid, ProcessEntry>>}
       IN  exec_mappings' = added \cup EntriesWritten(task.pid, MAX_MAPPINGS - Cardinality(added))
    /\ task' = Select
    /\ UNCHANGED <<unwindVars, kernelVars, userVars>>

\* The mappings and then the process entry are published; if either fails
\* what was written is to be taken back.
add_bpf_mappings ==
    /\ task.op = "publish"
    /\ LET p == task.pid
           added == exec_mappings \cup EntriesWritten(p, MAX_MAPPINGS - Cardinality(exec_mappings))
           full == Cardinality(added \cup {<<p, ProcessEntry>>}) > MAX_MAPPINGS
       IN  /\ exec_mappings' = IF full THEN added ELSE added \cup {<<p, ProcessEntry>>}
           /\ task' = IF ~full /\ {<<p, m>> : m \in procs[p].mappings} \subseteq added
                      THEN Select ELSE [op |-> "cleanup", pid |-> p]
    /\ UNCHANGED <<unwindVars, kernelVars, userVars>>

remove_partial_write ==
    /\ task.op = "cleanup"
    /\ handle_process_exit(task.pid)
    /\ task' = [op |-> "evict"]
    /\ UNCHANGED <<kernelVars, process_evicted_lately>>

\* "Evict a process to make room for more."
evict_to_make_room ==
    /\ task.op = "evict"
    /\ \/ ~process_evicted_lately /\ EvictProcess
       \/ /\ process_evicted_lately
          /\ UNCHANGED <<unwindVars, userVars, exec_mappings>>
    /\ task' = Select
    /\ UNCHANGED kernelVars

\* The mapping is looked up in what was recorded; its table is loaded unless
\* its object file is missing, which panics.
event_need_unwind_info ==
    /\ Received("NEED_UNWIND_INFO")
    /\ LET p == Head(new_proc_chan).pid
           a == Head(new_proc_chan).address
           found == IF p \in DOMAIN procs THEN for_address(procs[p].mappings, a) ELSE {}
       IN  \/ /\ found = {}
              /\ UNCHANGED unwindVars
           \/ \E m \in found :
                IF m.exe \in DOMAIN known_executables \cup DOMAIN object_files
                THEN \E ok \in BOOLEAN : AddUnwindInformation(m.exe, ok)
                ELSE /\ panicked' = TRUE
                     /\ UNCHANGED <<known_executables, outer_map, executable_to_page, evicted_lately>>
    /\ UNCHANGED <<userVars, exec_mappings, task>>

receive_tracer_event ==
    /\ task = Select
    /\ tracers_chan # <<>>
    /\ tracers_chan' = Tail(tracers_chan)
    /\ LET event == Head(tracers_chan)
       IN  \/ event.type = "ProcessExit" /\ handle_process_exit(event.pid)
           \/ event.type = "Munmap" /\ handle_munmap(event.pid, event.start_address)
    /\ UNCHANGED <<os, rate_limits, new_proc_chan, raw_samples, process_evicted_lately, task>>

\* A session ends: what was sampled is stamped, and events may be sent again.
SampledExecutables ==
    {m.exe : m \in UNION {for_address(procs[s[1]].mappings, s[2]) :
                            s \in {r \in raw_samples : r[1] \in DOMAIN procs}}}

CollectKeepsRateLimits ==
    /\ task = Select
    /\ last_used' = Stamp(last_used, {s[1] : s \in raw_samples} \cap DOMAIN procs)
    /\ BumpExecutables(SampledExecutables)
    /\ raw_samples' = {}
    /\ UNCHANGED <<os, new_proc_chan, tracers_chan, procs, object_files, rate_limits,
                   process_evicted_lately, exec_mappings, task, historyVars>>

CollectClearsPages ==
    /\ task = Select
    /\ last_used' = Stamp(last_used, {s[1] : s \in raw_samples} \cap DOMAIN procs)
    /\ executable_to_page' = {}
    /\ raw_samples' = {}
    /\ rate_limits' = {}
    /\ UNCHANGED <<known_executables, outer_map, evicted_lately, panicked, os, new_proc_chan,
                   tracers_chan, procs, object_files, process_evicted_lately, exec_mappings, task,
                   historyVars>>

collect_profile ==
    /\ task = Select
    /\ last_used' = Stamp(last_used, {s[1] : s \in raw_samples} \cap DOMAIN procs)
    /\ BumpExecutables(SampledExecutables)
    /\ raw_samples' = {}
    /\ rate_limits' = {}
    /\ UNCHANGED <<os, new_proc_chan, tracers_chan, procs, object_files,
                   process_evicted_lately, exec_mappings, task, historyVars>>

\* 500ms have elapsed since the last eviction of a process.
ProcessCooldown ==
    /\ process_evicted_lately
    /\ process_evicted_lately' = FALSE
    /\ UNCHANGED <<unwindVars, kernelVars, procs, last_used, object_files, exec_mappings, task,
                   historyVars>>

TablesCooldown ==
    /\ ExecutableCooldown
    /\ UNCHANGED <<kernelVars, userVars, exec_mappings, task, historyVars>>

-----------------------------------------------------------------------------
MainLoop ==
    /\ \/ event_new_proc_ignored
       \/ event_new_proc_known
       \/ event_new_proc_unknown
       \/ add_proc
       \/ load_unwind_info
       \/ add_bpf_mappings
       \/ remove_partial_write
       \/ evict_to_make_room
       \/ event_need_unwind_info
       \/ receive_tracer_event
    /\ UNCHANGED historyVars

Next ==
    /\ ~panicked
    /\ \/ \E p \in Pid : ProcessStart(p)
       \/ \E p \in Pid : \E m \in Dlopened[p] : Mmap(p, m)
       \/ \E p \in Pid : \E r \in Unmaps[p] : Munmap(p, r)
       \/ \E p \in Pid : tracer_process_exit(p)
       \/ \E p \in Pid : on_event(p)
       \/ MainLoop
       \/ collect_profile
       \/ ProcessCooldown
       \/ TablesCooldown

Spec == Init /\ [][Next]_vars

\* The main loop keeps up: a session is far longer than the handling of the events it
\* brings, each of which is sent once, so that again and again nothing is left to do,
\* and a session ends then.  Cool-downs elapse, and a running process keeps being
\* sampled, so that it does not miss every chance to send its event.
Idle == task = Select /\ new_proc_chan = <<>> /\ tracers_chan = <<>>

Fairness ==
    /\ []<>Idle
    /\ SF_vars(Idle /\ collect_profile /\ ~panicked)
    /\ WF_vars(ProcessCooldown /\ ~panicked) /\ WF_vars(TablesCooldown /\ ~panicked)
    /\ \A p \in Pid : SF_vars(on_event(p) /\ new_proc_chan' # new_proc_chan /\ ~panicked)

FairSpec == Spec /\ Fairness

-----------------------------------------------------------------------------
LiveMappings(p) == procs[p].mappings \ procs[p].deleted

\* The mappings of an executable that no handler has deleted.
LiveReferences(e) ==
    {x \in UNION {{p} \X LiveMappings(p) : p \in DOMAIN procs} : x[2].exe = e}

VdsoExecutables ==
    {m.exe : m \in {n \in UNION {procs[p].mappings : p \in DOMAIN procs} : n.kind = "Vdso"}}

\* The references of a file (object_files, profiler.rs:1911-1926 and
\* process.rs:84-88) are exactly its mappings that no handler has deleted,
\* over all processes: no exit, munmap or eviction counts one twice.  The vDSO's
\* are not counted (1960-1971).
ReferencesExact ==
    \A e \in DOMAIN object_files \ VdsoExecutables : object_files[e] = Cardinality(LiveReferences(e))

\* A process the unwinder knows has all of its remaining mappings in the trie,
\* except while a partial write is being taken back (profiler.rs:1433-1450):
\* otherwise its samples fail without an event that would repair it.
PublishedWhole ==
    \A p \in Pid : process_is_known(p) /\ task # [op |-> "cleanup", pid |-> p] =>
        /\ p \in DOMAIN procs
        /\ LiveMappings(p) \subseteq BpfMappings(p)

\* The trie holds recorded mappings only, with the object file of each, so that
\* the mapping of a NEED_UNWIND_INFO event is found and the unwrap() of its
\* object file (profiler.rs:1470) holds, in whatever order events arrive.
TrieRecorded ==
    \A p \in Pid : \A m \in BpfMappings(p) :
        /\ p \in DOMAIN procs /\ m \in procs[p].mappings
        /\ m.kind # "Anonymous" => m.exe \in DOMAIN object_files

\* Outside evictions of tables, the table of a file is deleted with the last reference
\* to it and not before (process.rs:84-94): every mapping of it that was recorded, in
\* whatever process, has been deleted, by an exit, by a munmap() or with its process to
\* make room.  A process that is published again after that still maps the file, which
\* is not counted; the table may then be deleted under it.
TablesOutliveMappings ==
    [][\A e \in (DOMAIN known_executables \ DOMAIN known_executables') \ VdsoExecutables' :
          evicted_lately' = evicted_lately => LiveReferences(e)' = {}]_vars

\* What was published of p is being taken back, because the trie has no room for all.
TakenBack(p) == task = [op |-> "cleanup", pid |-> p]

\* A process that runs on is published again and again, even though events are rate
\* limited or lost and it may be evicted for another (profiler.bpf.c:141-162,
\* profiler.rs:1748-1785): none waits for ever for its event to be sent or handled,
\* once processes have stopped coming and going (os changes MAX_OS_CHANGES times).  In
\* a trie with no room for all of them (1433-1450) it is at least tried again and
\* again, and may be taken back each time: once all processes are held as exited
\* there is none left to evict (1748-1764).
SampledIsPublished ==
    \A p \in Profiled : []<>(process_is_known(p) \/ TakenBack(p) \/ p \notin DOMAIN os)

\* A process is only held as running while it runs or its exit is on its way, unless
\* its exit was not reported: the buffer was full or it was not published yet, as
\* when it ends while add_proc records it (tracers.bpf.c:55-77, profiler.rs:1788).
RunningIsAlive ==
    \A p \in RunningProcs \ {KERNEL_PID} :
        \/ p \in DOMAIN os \cup unreported
        \/ \E i \in DOMAIN tracers_chan : tracers_chan[i] = [type |-> "ProcessExit", pid |-> p]

\* The process has removed memory of the mapping, or of what was left of it.
RemovedPart(p, m) ==
    \E x \in unmapped : x[1] = p /\ \E n \in x[3] :
        n.exe = m.exe /\ n.kind = m.kind /\ m.start <= n.start /\ n.end <= m.end

WasRemoved(p, m) ==
    \E x \in unmapped :
        /\ x[1] = p /\ m.start <= x[2] /\ x[2] <= m.end
        /\ x[2] = m.end \/ p \in unreported \/ RemovedPart(p, m)

\* Of a process that runs on, a mapping is only deleted if a munmap() of the process
\* began inside it or where it ends (handle_munmap, profiler.rs:893-894).  If it began
\* inside, the process did remove memory of this mapping, whatever was mapped again
\* meanwhile and however late the event is handled; but it may still have the rest: the
\* event has no length, and the mapping is deleted whole.  Only if the exit of an
\* earlier process with its pid was not reported may it be another at that address.
DeletedWasUnmapped ==
    \A p \in RunningProcs : \A m \in procs[p].deleted : WasRemoved(p, m)

\* delete_bpf_native_unwind_all, which takes mappings out of the trie, is "called when a
\* process exits" (profiler.rs:1278), and test_bpf_cleanup finds nothing of its process
\* in the trie after handle_process_exit (2166-2169): once a process is held as exited
\* none of its entries is left.
ExitUnpublishes ==
    [][\A p \in RunningProcs \ RunningProcs' : \A x \in exec_mappings' : x[1] # p]_vars

=============================================================================
