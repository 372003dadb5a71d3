------------------------------- MODULE Pprof -------------------------------
(***************************************************************************)
(* From the raw samples of a session to the pprof that is written or sent: *)
(* frames are normalised to addresses of their object file, symbolised if  *)
(* this is done locally, and stored in the tables of PprofBuilder, where   *)
(* samples refer to locations, locations to mappings and functions, and    *)
(* functions to strings.                                                   *)
(*                                                                         *)
(* The known_* maps of the builder say at which place of its table the     *)
(* entry with a key is, so they are read off the tables.                   *)
(*                                                                         *)
(* Labels come from a cache that is filled when a process is recorded, or  *)
(* else when a sample is converted.  Until then tasks end, and their pid   *)
(* and tid are used again.                                                 *)
(***************************************************************************)
EXTENDS Integers, Sequences

CONSTANTS
    KERNEL_PID,
    procs,         \* the mappings of each known process, in the order of the list
    objs,          \* the load segments of each known object file
    Symbols,       \* what debug information says: <<executable, address>> to the
                   \* start of the function and its frames, the innermost first
    Unreadable,    \* the object files that cannot be opened any more
    ksyms,         \* kallsyms, by address
    LabelOf,       \* the metadata of each task, <<pid, tid>>, by its life
    Ending,        \* the tasks that may end before the profile is converted
    RawSamples,    \* the aggregated raw samples that a session may have
    MAX_SAMPLES    \* bound: samples of a session

None == -1
BAD == -2          \* 0xBAD, an address in no mapping

Mapping == [exe : Nat \ {0}, start : Nat, end : Nat, offset : Nat, kind : STRING, file : STRING]
Segment == [p_offset : Nat, p_vaddr : Nat, p_filesz : Nat]
Symbol == [name : STRING, line : Int, file : STRING]
Label == [key : STRING, value : STRING]
Life == {"first", "gone", "second"}
RawSample == [pid : Nat, tid : Nat, ustack : Seq(Nat), kstack : Seq(Nat), count : Nat]

TaskOf(s) == <<s.pid, s.tid>>

\* Every task of a known process has metadata, if only that it is gone.
ASSUME PprofAssumption ==
    /\ \A pid \in DOMAIN procs : procs[pid] \in Seq(Mapping)
    /\ \A exe \in DOMAIN objs : objs[exe] \in Seq(Segment)
    /\ \A at \in DOMAIN Symbols : Symbols[at].start \in Nat /\ Symbols[at].frames \in Seq(Symbol)
    /\ ksyms \in Seq([start : Nat, name : STRING])
    /\ RawSamples \subseteq RawSample /\ MAX_SAMPLES \in Nat
    /\ \A t \in DOMAIN LabelOf : LabelOf[t] \in [Life -> Label]
    /\ Ending \subseteq DOMAIN LabelOf
    /\ \A s \in RawSamples : s.pid \in DOMAIN procs => TaskOf(s) \in DOMAIN LabelOf

\* The kernel and its modules are object files, loaded above the KASLR offset; the
\* load segments of an object file are apart in the file.
ASSUME AddressAssumption ==
    /\ \A pid \in DOMAIN procs : \A i \in DOMAIN procs[pid] :
        procs[pid][i].kind = "Kernel" =>
            /\ procs[pid][i].exe \in DOMAIN objs
            /\ procs[pid][i].offset <= procs[pid][i].start
    /\ \A exe \in DOMAIN objs : \A i, j \in DOMAIN objs[exe] :
        \/ i = j
        \/ objs[exe][i].p_offset + objs[exe][i].p_filesz <= objs[exe][j].p_offset
        \/ objs[exe][j].p_offset + objs[exe][j].p_filesz <= objs[exe][i].p_offset

EmptyString == ""
NoSymbol == [name |-> "none", line |-> None, file |-> EmptyString]
Error(what) == [name |-> what, line |-> 0, file |-> EmptyString]

-----------------------------------------------------------------------------
First(places) == CHOOSE i \in places : \A j \in places : i <= j
Last(places) == CHOOSE i \in places : \A j \in places : j <= i

\* The elements at some places of a sequence, in their order.
Select(s, places) ==
    LET upTo[i \in 0..Len(s)] ==
            IF i = 0 THEN <<>>
            ELSE IF i \in places THEN Append(upTo[i - 1], s[i]) ELSE upTo[i - 1]
    IN  upTo[Len(s)]

Elements(s) == {s[i] : i \in DOMAIN s}

\* The elements of the elements.
Flatten(s) ==
    LET upTo[i \in 0..Len(s)] == IF i = 0 THEN <<>> ELSE upTo[i - 1] \o s[i]
    IN  upTo[Len(s)]

-----------------------------------------------------------------------------
VARIABLES
    raw,           \* the raw samples of the profile
    profile,       \* the aggregated profile
    symbolized,    \* it went through symbolize_profile
    phase,         \* "raw", "processed", "converting" or "built"
    task_to_labels,
    pprof,         \* the PprofBuilder
    life,          \* task -> "first", "gone" or, with its numbers used again, "second"
    process_label_cache   \* [task, label], the least recently used first

pprofVars ==
    <<raw, profile, symbolized, phase, task_to_labels, pprof, life, process_label_cache>>
metadataVars == <<life, process_label_cache>>

Builder == [mappings |-> <<>>, strings |-> <<>>, locations |-> <<>>,
            functions |-> <<>>, samples |-> <<>>]

PprofInit ==
    /\ \E n \in 0..MAX_SAMPLES : raw \in [1..n -> RawSamples]
    /\ \A i, j \in DOMAIN raw : raw[i] = raw[j] => i = j
    /\ profile = <<>> /\ symbolized = FALSE
    /\ phase = "raw"
    /\ task_to_labels = <<>>
    /\ pprof = Builder
    /\ life = [t \in DOMAIN LabelOf |-> "first"]
    /\ process_label_cache = <<>>

-----------------------------------------------------------------------------
(* Metadata.  The cache is an LRU cache; only sampled tasks are followed.  *)

CachedByTid(t) == {i \in DOMAIN process_label_cache : process_label_cache[i].task[2] = t[2]}
Cached(t) == {i \in DOMAIN process_label_cache : process_label_cache[i].task = t}

\* A task that is gone has a name that says so.
get_labels(t) == LabelOf[t][life[t]]

get_metadata(t) ==
    IF Cached(t) = {} THEN get_labels(t) ELSE process_label_cache[First(Cached(t))].label

\* The entry becomes the most recently used one.
push(t, label) ==
    Append(Select(process_label_cache, DOMAIN process_label_cache \ Cached(t)),
           [task |-> t, label |-> label])

SampledTasks == {TaskOf(raw[i]) : i \in DOMAIN raw} \cap Ending

\* add_proc, for a thread of the process.
register_task(t) ==
    /\ phase = "raw" /\ life[t] # "gone" /\ Cached(t) = {}
    /\ process_label_cache' = push(t, get_labels(t))
    /\ UNCHANGED <<raw, profile, symbolized, phase, task_to_labels, pprof, life>>

\* The task ends, or another one gets its numbers.
task_turns(t) ==
    /\ phase = "raw" /\ life[t] # "second"
    /\ life' = [life EXCEPT ![t] = IF @ = "first" THEN "gone" ELSE "second"]
    /\ UNCHANGED <<raw, profile, symbolized, phase, task_to_labels, pprof, process_label_cache>>

\* A full cache takes in a task that is not followed.
other_task_pushed ==
    /\ phase = "raw" /\ process_label_cache # <<>>
    /\ process_label_cache' = Tail(process_label_cache)
    /\ UNCHANGED <<raw, profile, symbolized, phase, task_to_labels, pprof, life>>

-----------------------------------------------------------------------------
(* Normalisation.                                                          *)

MapFrames(Op(_), s) == [i \in DOMAIN s |-> Op(s[i])]

MappingsAt(pid, a) == {i \in DOMAIN procs[pid] :
                         procs[pid][i].start <= a /\ a < procs[pid][i].end}
IsMapped(pid, a) == pid \in DOMAIN procs /\ MappingsAt(pid, a) # {}
for_address(pid, a) == procs[pid][First(MappingsAt(pid, a))]

FirstSegment(segments, offset) ==
    {i \in DOMAIN segments :
        segments[i].p_offset <= offset /\ offset < segments[i].p_offset + segments[i].p_filesz}

normalized_address(a, m) ==
    IF m.kind = "Kernel" THEN a - m.offset
    ELSE LET offset == a - m.start + m.offset
             found == FirstSegment(objs[m.exe], offset)
         IN  IF found = {} THEN None
             ELSE LET s == objs[m.exe][First(found)] IN offset - s.p_offset + s.p_vaddr

file_offset(pid, a) ==
    LET m == for_address(pid, a)
    IN  IF m.exe \in DOMAIN objs THEN normalized_address(a, m) ELSE None

Frame(a, offset, symbol) == [address |-> a, offset |-> offset, symbol |-> symbol]

Frames(pid, stack) ==
    MapFrames(LAMBDA a : Frame(a, file_offset(pid, a), NoSymbol),
              Select(stack, {i \in DOMAIN stack : IsMapped(pid, stack[i])}))

Processed(s) ==
    [pid |-> s.pid, tid |-> s.tid, count |-> s.count,
     ustack |-> Frames(s.pid, s.ustack), kstack |-> Frames(KERNEL_PID, s.kstack)]

\* process() refuses samples of unknown processes, and ones without a frame.
IsProcessed(s) ==
    /\ {s.pid, KERNEL_PID} \subseteq DOMAIN procs
    /\ Processed(s).ustack # <<>> \/ Processed(s).kstack # <<>>

Kept == Select(raw, {i \in DOMAIN raw : IsProcessed(raw[i])})

raw_to_processed ==
    /\ phase = "raw"
    /\ profile' = MapFrames(Processed, Kept)
    /\ phase' = "processed"
    /\ UNCHANGED <<raw, symbolized, task_to_labels, pprof>> /\ UNCHANGED metadataVars

-----------------------------------------------------------------------------
(* Symbolisation.                                                          *)

\* Every frame of a symbol has the start of the function as its offset.
Symbolised(a, exe, offset) ==
    LET found == Symbols[<<exe, offset>>]
    IN  MapFrames(LAMBDA s : Frame(a, found.start, s), found.frames)

symbolize_native_stack_blaze(a, exe, offset) ==
    IF exe \in Unreadable THEN <<Frame(BAD, None, Error("failed to symbolize"))>>
    ELSE IF <<exe, offset>> \in DOMAIN Symbols THEN Symbolised(a, exe, offset)
    ELSE <<Frame(a, None, Error("unknown symbol"))>>

\* Frames of profiles are mapped, and those without an offset are left out.
symbolize_user_stack(pid, stack) ==
    LET symbolise(f) == LET m == for_address(pid, f.address)
                        IN  IF f.offset = None \/ m.exe \notin DOMAIN objs THEN <<>>
                            ELSE symbolize_native_stack_blaze(f.address, m.exe, f.offset)
    IN  Flatten(MapFrames(symbolise, stack))

KsymAt(a) ==
    LET below == {i \in DOMAIN ksyms : ksyms[i].start <= a}
    IN  IF below = {} THEN "not found" ELSE ksyms[Last(below)].name

symbolize_kernel_stack(stack) ==
    MapFrames(LAMBDA f : Frame(f.address, None, Error(KsymAt(f.address))), stack)

symbolize_profile ==
    /\ phase = "processed" /\ ~symbolized
    /\ profile' = MapFrames(LAMBDA s :
                    [s EXCEPT !.ustack = symbolize_user_stack(s.pid, s.ustack),
                              !.kstack = symbolize_kernel_stack(s.kstack)],
                    profile)
    /\ symbolized' = TRUE
    /\ UNCHANGED <<raw, phase, task_to_labels, pprof>> /\ UNCHANGED metadataVars

-----------------------------------------------------------------------------
(* The builder.  A table with an entry, unless one with its key is there,  *)
(* and the place of the entry.                                             *)

NextId(table) == Len(table) + 1

\* known are the places of the table with the key of the entry.
With(table, entry, known) == IF known = {} THEN Append(table, entry) ELSE table
IdOf(table, known) == IF known = {} THEN NextId(table) ELSE First(known)

KnownStrings(strings, s) == {i \in DOMAIN strings : strings[i] = s}

\* The first string is the empty one; identifiers of strings begin with 0.
get_or_insert_string(b, s) ==
    LET strings == IF b.strings = <<>> THEN <<EmptyString>> ELSE b.strings
    IN  [b EXCEPT !.strings = With(strings, s, KnownStrings(strings, s))]
string_id(b, s) == IdOf(b.strings, KnownStrings(b.strings, s)) - 1

\* A function is known by its name.
KnownFunctions(b, name) == {i \in DOMAIN b.functions : b.functions[i].name = name}

add_function(b, name, file) ==
    LET c == get_or_insert_string(get_or_insert_string(b, name), file)
        n == string_id(c, name)
    IN  [c EXCEPT !.functions =
            With(@, [name |-> n, file |-> string_id(c, file)], KnownFunctions(c, n))]
function_id(b, name) == IdOf(b.functions, KnownFunctions(b, string_id(b, name)))

SameAddress(l, address, mapping) == l.address = address
SameLocation(l, address, mapping) == l.address = address /\ l.mapping = mapping

KnownLocations(b, address, mapping) ==
    {i \in DOMAIN b.locations : SameLocation(b.locations[i], address, mapping)}

add_location(b, address, mapping, lines) ==
    [b EXCEPT !.locations =
        With(@, [address |-> address, mapping |-> mapping, lines |-> lines],
             KnownLocations(b, address, mapping))]
location_id(b, address, mapping) == IdOf(b.locations, KnownLocations(b, address, mapping))

\* A mapping is known by the executable.
KnownMappings(b, m) == {i \in DOMAIN b.mappings : b.mappings[i].id = m.exe}

add_mapping(b, m) ==
    [get_or_insert_string(b, m.file) EXCEPT !.mappings =
        With(@, [id |-> m.exe, start |-> m.start, end |-> m.end], KnownMappings(b, m))]
mapping_id(b, m) == IdOf(b.mappings, KnownMappings(b, m))

new_label(b, label) ==
    get_or_insert_string(get_or_insert_string(b, label.key), label.value)

add_sample(b, sample) == [b EXCEPT !.samples = Append(@, sample)]

build(b) ==
    LET types == get_or_insert_string(get_or_insert_string(b, "samples"), "count")
        period == get_or_insert_string(get_or_insert_string(types, "cpu"), "nanoseconds")
    IN  get_or_insert_string(period, "lightswitch")

-----------------------------------------------------------------------------
(* to_pprof.                                                               *)

\* One frame: the builder and the locations of the sample so far.
AddFrame(pid, acc, f) ==
    IF ~IsMapped(pid, f.address) \/ for_address(pid, f.address).exe \notin DOMAIN objs THEN acc
    ELSE LET m == for_address(pid, f.address)
             normalized == IF f.offset = None THEN normalized_address(f.address, m)
                           ELSE f.offset
             mapped == add_mapping(acc.b, m)
             named == IF f.symbol = NoSymbol THEN mapped
                      ELSE add_function(mapped, f.symbol.name, f.symbol.file)
             lines == IF f.symbol = NoSymbol THEN <<>>
                      ELSE <<[function |-> function_id(named, f.symbol.name),
                              line |-> f.symbol.line]>>
             id == mapping_id(mapped, m)
             located == add_location(named, normalized, id, lines)
         IN  IF normalized = None THEN acc
             ELSE [b |-> located,
                   locations |-> Append(acc.locations, location_id(named, normalized, id))]

AddFrames(pid, acc, frames) ==
    LET upTo[i \in 0..Len(frames)] ==
            IF i = 0 THEN acc ELSE AddFrame(pid, upTo[i - 1], frames[i])
    IN  upTo[Len(frames)]

\* One sample: the kernel's frames, the process's frames, the labels of the task.
\* Labels are looked up once for each tid.
to_pprof ==
    /\ phase \in {"processed", "converting"}
    /\ profile # <<>>
    /\ LET s == Head(profile)
           k == AddFrames(KERNEL_PID, [b |-> pprof, locations |-> <<>>], s.kstack)
           u == AddFrames(s.pid, k, s.ustack)
           fresh == s.tid \notin DOMAIN task_to_labels
           label == IF fresh THEN get_metadata(TaskOf(s)) ELSE task_to_labels[s.tid]
           b == IF fresh THEN new_label(u.b, label) ELSE u.b
       IN  /\ pprof' = add_sample(b, [locations |-> u.locations, count |-> s.count,
                                      label |-> string_id(b, label.value)])
           /\ task_to_labels' = [t \in DOMAIN task_to_labels \cup {s.tid} |->
                                   IF t = s.tid THEN label ELSE task_to_labels[t]]
           /\ process_label_cache' = IF fresh THEN push(TaskOf(s), label) ELSE process_label_cache
    /\ profile' = Tail(profile)
    /\ phase' = "converting"
    /\ UNCHANGED <<raw, symbolized, life>>

built ==
    /\ phase \in {"processed", "converting"}
    /\ profile = <<>>
    /\ pprof' = build(pprof)
    /\ phase' = "built"
    /\ UNCHANGED <<raw, profile, symbolized, task_to_labels>> /\ UNCHANGED metadataVars

Metadata ==
    \/ \E t \in SampledTasks : register_task(t) \/ task_turns(t)
    \/ other_task_pushed

PprofNext == Metadata \/ raw_to_processed \/ symbolize_profile \/ to_pprof \/ built

PprofSpec == PprofInit /\ [][PprofNext]_pprofVars

-----------------------------------------------------------------------------
(* What PprofBuilder::validate checks.                                     *)

validate(b) ==
    \A i \in DOMAIN b.samples : \A j \in DOMAIN b.samples[i].locations :
        LET id == b.samples[i].locations[j]
        IN  /\ id \in DOMAIN b.locations
            /\ LET l == b.locations[id]
               IN  /\ l.mapping \in DOMAIN b.mappings
                   /\ b.mappings[l.mapping].id # 0
                   /\ \A k \in DOMAIN l.lines :
                        /\ l.lines[k].function \in DOMAIN b.functions
                        /\ b.functions[l.lines[k].function].name + 1 \in DOMAIN b.strings

-----------------------------------------------------------------------------
(* Reference: what a reader of the pprof sees, and what was sampled.       *)

\* A frame: the executable, the address that its location has, and its symbol.
Located(exe, at, symbol) == [exe |-> exe, at |-> at, symbol |-> symbol]

DecodedLocation(l) ==
    LET symbol == IF l.lines = <<>> THEN NoSymbol
                  ELSE LET f == pprof.functions[l.lines[1].function]
                       IN  [name |-> pprof.strings[f.name + 1], line |-> l.lines[1].line,
                            file |-> pprof.strings[f.file + 1]]
    IN  Located(pprof.mappings[l.mapping].id, l.address, symbol)

Decoded(s) ==
    [stack |-> MapFrames(LAMBDA id : DecodedLocation(pprof.locations[id]), s.locations),
     count |-> s.count]

\* The address in the object file, by its segments.
ElfAddress(pid, a) ==
    LET m == for_address(pid, a)
        at == a - m.start + m.offset
        inside == IF m.exe \notin DOMAIN objs THEN {}
                  ELSE {s \in {objs[m.exe][i] : i \in DOMAIN objs[m.exe]} :
                          at - s.p_offset \in 0 .. s.p_filesz - 1}
    IN  IF m.kind = "Kernel" THEN {a - m.offset} ELSE {s.p_vaddr + at - s.p_offset : s \in inside}

Known(pid, stack) ==
    Select(stack, {i \in DOMAIN stack : IsMapped(pid, stack[i]) /\ ElfAddress(pid, stack[i]) # {}})

\* The frames of a symbol have the start of its function as their address.
SampledFrames(pid, a) ==
    LET exe == for_address(pid, a).exe
        at == CHOOSE x \in ElfAddress(pid, a) : TRUE
        found == Symbols[<<exe, at>>]
    IN  IF ~symbolized THEN <<Located(exe, at, NoSymbol)>>
        ELSE IF pid = KERNEL_PID THEN <<Located(exe, at, Error(KsymAt(a)))>>
        ELSE IF exe \in Unreadable THEN <<>>
        ELSE IF <<exe, at>> \in DOMAIN Symbols
        THEN MapFrames(LAMBDA s : Located(exe, found.start, s), found.frames)
        ELSE <<Located(exe, at, Error("unknown symbol"))>>

Sampled(s) ==
    LET frames(pid, stack) ==
            Flatten(MapFrames(LAMBDA a : SampledFrames(pid, a), Known(pid, stack)))
    IN  [stack |-> frames(KERNEL_PID, s.kstack) \o frames(s.pid, s.ustack), count |-> s.count]

\* Where f was sampled, d is shown: one of the frames at its location, but that the file
\* may be the one of any function with its name.
ShownFor(d, f, frames) ==
    /\ d.exe = f.exe /\ d.at = f.at
    /\ \E g, h \in frames :
        /\ g.exe = f.exe /\ g.at = f.at /\ h.symbol.name = g.symbol.name
        /\ d.symbol = [g.symbol EXCEPT !.file = h.symbol.file]

\* The samples refer to locations that a reader can follow to mappings, functions and
\* strings, as validate() checks, whatever is shared between them; and a reader who
\* does finds the stacks that were sampled, the kernel's frames first, in order and with
\* their counts.  Not symbolised, every frame is the sampled address of its object file.
\* Symbolised, it is of the same function, but where several frames of the profile are of
\* one function, inlined into it or at other lines of it, the reader finds one of these
\* for all: each has the start of the function as its address (usym.rs:73, 84), by which
\* locations are known (profile.rs:234).  The file may be of another function with
\* the name (profile.rs:195).  Frames of a file that cannot be opened any more are missing
\* from a symbolised profile (usym.rs:37).
ReaderSeesSampled ==
    phase = "built" =>
        LET decoded == MapFrames(Decoded, pprof.samples)
            sampled == MapFrames(Sampled, Kept)
            frames == UNION {Elements(sampled[i].stack) : i \in DOMAIN sampled}
        IN  /\ validate(pprof)
            /\ DOMAIN decoded = DOMAIN sampled
            /\ \A i \in DOMAIN sampled :
                /\ decoded[i].count = sampled[i].count
                /\ DOMAIN decoded[i].stack = DOMAIN sampled[i].stack
                /\ \A j \in DOMAIN sampled[i].stack :
                    ShownFor(decoded[i].stack[j], sampled[i].stack[j], frames)

\* A sample carries the labels of a task that had its pid and its tid: of the one that
\* ran, for as long as it runs; of an earlier one if the numbers were used again, and
\* none if it ended before it was first asked for (metadata_provider.rs:97-112).  The
\* exception is a tid that an earlier sample of the profile had in another process
\* (convert.rs:193).
LabelsAreOfTask ==
    phase = "built" =>
        LET Reused(i) == \E j \in 1 .. i - 1 : Kept[j].tid = Kept[i].tid /\ Kept[j].pid # Kept[i].pid
        IN  \A i \in DOMAIN Kept : LET t == TaskOf(Kept[i]) IN
              \/ Reused(i)
              \/ \E l \in {"first", life[t]} :
                    pprof.strings[pprof.samples[i].label + 1] = LabelOf[t][l].value
=============================================================================
