# A TLA+ model of lightswitch

lightswitch is a sampling profiler for Linux. BPF programs interrupt running
processes and unwind their stacks with tables that user space prepares from
DWARF information; other BPF programs report processes that exit and memory that
is unmapped; a Rust program keeps the tables and the list of processes up to
date, turns samples into profiles and writes or sends them.

These modules model its control: which events arrive in which order, what each
handler changes, and what is left when a step fails. They follow the code in
`src/`; the file and line of every definition are in `PROJECT.json` under `map`.
Line numbers below refer to `src/src/profiler.rs` unless a file is named.

## 1. The system

| Component | State it keeps | Operations | Hard part |
|---|---|---|---|
| Main loop (`profiler.rs`, `process.rs`) | processes with their mappings, status and `last_used`; object files with reference counts; event channels | new process, unwind information needed, exit, munmap, session tick, evict a process | events of the unwinder and of the tracers come through two channels, late, limited in rate or not at all; every handler takes several steps while processes go on |
| Native unwind state (`profiler.rs`) | `known_executables`, BPF `outer_map` and `executable_to_page` | load a table, evict tables, delete a table, stamp | three structures to keep in step when a write fails half way; full maps; memory limit |
| Unwind tables (`unwind_info/convert.rs`, `optimize.rs`, `pages.rs`) | rows, pages | build, shorten, split into pages, look up, delete | in-place loops; a search over half program counters; boundaries of pages |
| Rows and frames (`convert.rs`, `profiler.bpf.c`) | a row of 8 and 16 bit fields | convert DWARF rules, step over a frame | two programs must read the fields alike |
| Unwinder (`profiler.bpf.c`) | the sample in a per-CPU heap | walk, tail call, send | bounds on frames, tail calls and the buffer |
| Cache of tables (`manager.rs`, `persist.rs`) | files, usage records | fetch, write, evict, restart | crashes during a write, files damaged or left behind |
| Tracers (`tracers.bpf.c`) | `tracked_munmap` | process exit, munmap entry and exit | threads in munmap at once, a bounded map |
| Address blocks (`util/lpm.rs`) | the trie `exec_mappings` | split a range, add, delete, look up | alignment, top of the address space |
| Session (`aggregator.rs`, `collector.rs`, `cli/main.rs`, `cli/killswitch.rs`) | buffers, channels, profiles, the killswitch file | start, sample, poll, aggregate, collect, stop, report | six threads and a shutdown |
| Locks (`profiler.rs`) | `procs`, `object_files`, the collector | every handler and the collector's thread | nested locks, writers that wait before readers |
| Pprof (`profile/convert.rs`, `usym.rs`, `lightswitch-proto`) | tables of strings, functions, locations, mappings | normalise, symbolise, build | sharing of entries, identifiers from 0 or 1 |
| Labels (`metadata_provider.rs`) | a cache by pid and tid | register, look up, evict | tasks end, and their numbers are used again |
| Metadata sources, debug information, object files, kernel symbols, command line | files | | see section 9 |

How they interact: the unwinder sends *new process* and *need unwind info* events,
the tracers send *exit* and *munmap* events; the main loop answers by recording the
process, loading the tables of its executables (through the cache) into the outer
map, and publishing its mappings in the trie, which all BPF programs read. Samples go
through a channel to the main loop, at the end of a session as a profile to the
collector's thread, and at the end of the program to the report.

## 2. The modules

| Module | Models | Extends |
|---|---|---|
| `LastUsed` | `last_used` stamps and the choice of eviction victims | |
| `NativeUnwindState` | the tables in the BPF maps: the abstract specification `UnwindSpec` of what loading, evicting and deleting tables may do | `LastUsed` |
| `Memory` | what the kernel leaves of mappings when a range is unmapped, as operators | |
| `Profiler` | the main loop, the events and the trie; implements `UnwindSpec` | `NativeUnwindState`, `Memory` |
| `CompactUnwindInfo` | from functions to the shortened table, as operators | |
| `UnwindTable` | pages, search and deletion for one table | |
| `UnwindInfo` | the two composed: from functions to the row the unwinder finds | `UnwindTable`, `CompactUnwindInfo` |
| `CfaRow` | one row from DWARF rules to the caller's registers | |
| `Unwinder` | the walk over one stack after another, with the counters of `unwinder_stats_t` | |
| `UnwindCache` | the directory of cached tables | `LastUsed` |
| `Tracers` | the exit and munmap programs | `Memory` |
| `AddressBlocks` | ranges as prefixes in the trie | |
| `Recording` | what profiling promises: samples are taken, collected at most once, reported as collected | |
| `Session` | the way of a sample to the report, the start, the stop and the killswitch; implements `Recording` | |
| `Locks` | who holds which lock when | |
| `Pprof` | from raw samples to a pprof, with the cache of labels | |
| `ProfilerProofs`, `ProfilerDeletionProofs` | theorems about `NativeUnwindState` and `Profiler` | |
| `UnwindTableProofs` | theorems about `UnwindTable` | |
| `UnwindInfoProofs` | theorems about `CompactUnwindInfo` and `UnwindInfo` | |
| `SampleProofs` | theorems about `Unwinder`, `CfaRow` and `Session` | |
| `MappingProofs` | theorems about `AddressBlocks`, `Tracers` and `UnwindCache` | |
| `PprofProofs`, `PprofReaderProofs` | theorems about `Pprof` | |
| `MC*` | instances for TLC | |

Data is abstract where no property tells it apart: an executable, a stack, a label
or a DWARF rule is a model value. Program counters, offsets and addresses are
numbers where the code computes with them: `CfaRow` keeps the row's widths (u16,
i16, one byte each for a dereference), `AddressBlocks` wraps at 2^W, and
`UnwindTable` splits program counters by the page size.

Notes on single modules:

- `LastUsed`: only the order of two instants is read, so a stamp is the number of
  older entries. Equal instants stay possible, and ties are broken arbitrarily (the
  code iterates over a `HashMap`).
- `NativeUnwindState`: `AddUnwindInformation(e, ok)` is the whole of
  `add_unwind_information_for_executable`, with its early returns (already loaded,
  too large, eviction refused within its cool-down) and its failures: the table
  cannot be fetched (`FetchMayFail`), the memory of an inner map cannot be mapped, or
  the page map fills up after some pages. The unwrap of the outer map's update sets `panicked`. The
  creation of an inner map, unwrapped too, is taken to succeed.
- `Memory`: a call of munmap() removes a range of addresses. Mappings in it go away whole,
  shrink, or are split in two.
- `Profiler`: `task` is where the main loop is inside a handler, so that processes
  start, exit, map and unmap between reading `/proc`, loading tables and
  publishing. A sampled stack is one program counter at the start of a mapping,
  and a mapping is one entry of the trie. `clear_map` is one step. The
  channel of raw samples is folded into the set `raw_samples`; `Session` has it.
  `unmapped` and `unreported` are histories: the start of every range a process unmapped
  with the mappings it removed memory of, and which exits sent no event. No action
  reads them.
- `Unwinder` has one counter for each field of `unwinder_stats_t`, and an early
  return is the set of counters it bumps. `sent` and `uncounted` are histories.
- `Session`: two refinements of state are not visible outside, the killswitch thread
  between its check and its send, and the collector's thread between receiving a
  profile and taking the lock. A killswitch that cannot be examined panics, a sample may
  fail to parse, and the report may fail to be created or written.
- `CompactUnwindInfo`: a loop over the rows is a recursive function of how many of them
  it has seen, and the rows below `new_i` are a sequence.
- `CfaRow` writes the OR of two u16 bit by bit.
- `Pprof`: the `known_*` maps of the builder say where in its table the entry with a key
  is, so they are read off the tables. The cache follows the tasks sampled; that others push an entry out is an
  action. A task has a first and a second life with the same numbers, and a name that
  says it is gone in between.
- `UnwindTable` takes a step for each iteration of the loops of `to_pages` and
  `find_offset_for_pc`.
- `UnwindCache`: of the creation times of files only the order is read, so they are
  stamps of `LastUsed`. A write may fail at any of its steps (`DiskMayFail`). It has the histories `uncounted` and `damaged`, which say when the
  two properties may be expected to hold.
- `Locks` describes a handler as the sequence of its lock operations and of the
  effects that another thread can see. A reader does not pass a waiting writer, as
  in parking_lot.

## 3. The runs

Every property has a comment above its definition that states it and names the
code. `CHECK_DEADLOCK FALSE` stands where a panic, a bound on samples or calls,
or the end of the computation, really stops the model; `profiler_liveness`,
`unwind_info` and `unwind_cache` check for deadlock.

| Run | Question | Properties |
|---|---|---|
| `profiler` | Do counts, trie, tables and pages stay in step, with each other and with what processes do, when writes fail half way and events come late or never? | `KnownIsLoaded`, `PagesHaveTables`, `PanicMeansForgotten`, `ReferencesExact`, `PublishedWhole`, `TrieRecorded`, `RunningIsAlive`, `DeletedWasUnmapped`, `TablesOutliveMappings` |
| `profiler_liveness` | Does the profiler implement `UnwindSpec` within the memory limit, and is a process that keeps being sampled published again and again? | `TablesAreKnown`, `MemoryWithinLimit`, `UnwindSpec`, `SampledIsPublished` |
| `profiler_exit` | Is nothing of a process left in the trie once it has exited? | `ExitUnpublishes`, violated |
| `unwind_info` | Does the unwinder find for every program counter the rule of its function, and does deletion find every page? | `TypeOK`, `UnwindsAsFunctionsSay`, `LookupCorrect`, `NeverExhausted`, `LoadedIsFound`, `DeletesAllPages` |
| `cfa_row` | Is the frame stepped to the one DWARF describes? | `StepFollowsDwarf`, `BottomIsBottom`, `SupportedIsUnwound` |
| `unwinder` | Are stacks that fit the buffer finished and sent whole, and do the statistics account for every sample? | `TypeOK`, `ShortStacksAreWhole`, `ShortStacksFinish`, `StatsExplainSamples` |
| `unwind_cache` | Is what a fetch returns the table, after crashes and damage, and is the cache bounded? | `FetchReturnsTable`, `CacheBounded` |
| `tracers` | Is a munmap reported with its address, whatever other threads do, and nothing that was not attempted? | `MunmapIsReported`, `ReportedWasAttempted` |
| `address_blocks` | Is every address found in its mapping and no other, at every step of adding and deleting? | `LookupExact`, `Ends` |
| `session` | Is every sample counted once, is the program a `Recording`, does a stop lead to a report, and does the killswitch stop it? | `SamplesConserved`, `IsRecording`, `StopIsReported`, `KillswitchStops` |
| `locks` | Does every handler finish, and does the collector see whole processes? | `ProcessSeenWhole`, `HandlersFinish` |
| `pprof` | Does a reader of the pprof find what was sampled, and the labels of the task? | `ReaderSeesSampled`, `LabelsAreOfTask` |

All hold but `ExitUnpublishes` (item 3 of section 5). For each of the others `PROJECT.json` names a mutant: a changed form of a
definition, as a plausible mistake in the code would change it, under which TLC
finds the property violated (a reference forgotten, a page range without its end, an
order of two writes swapped, a loop condition off by one). The mutated forms stand
before the definitions they replace.

### Bounds

- `profiler`: two processes that run the same program; one also uses a library or
  generates code, in front of its program. It unmaps a range that is the second half
  of the library, or the code, and that ends where its program begins, and may map code
  there again: mappings shrink, go away and come back, and the end of one is the start
  of another. Room for one table, two pages, four trie entries and two processes, of
  which the kernel is one: tables, pages, trie and processes all fill up and are
  evicted. The library may fail to be read, and its table to be fetched. `MAX_OS_CHANGES` is
  4: a process may start, unmap, map and exit. One event of each channel in flight: a
  second one of the same channel is limited in rate, or waits in the BPF buffer as a
  sample not yet taken. No samples are collected (`RAW_SAMPLES` is 0), which only
  matters for stamps. 1.2 million states.
- `profiler_liveness`: one process needs two tables of a megabyte each, the other one of
  two megabytes, and there is room for two megabytes: tables are evicted for larger and
  for smaller ones. Two changes by processes; four trie entries, so that what was
  published is also taken back; one distinct sample in a session, so that executables
  and processes are stamped. Rows and pages never fail to be written here:
  `TablesAreKnown` is about that case.
- `profiler_exit`: two processes run one program; ample maps, three changes by processes.
- `unwind_info`: 9 program counters in pages of 4, up to two functions of up to
  two rows, with and without an address where unwinding is made to stop. Tables
  cross pages, leave gaps of whole pages and begin in any of them. The depth
  of 3 stands to pages of 4 as the code's 17 stands to pages of 2^16.
- `unwinder`: the code's own limits (7 frames in a program, 19 tail calls, 127
  addresses) with depths around each of them and beyond, one sample after another.
- `cfa_row`: offsets around every limit of the fields (2^8, 2^15, 2^16 and their
  negatives), all kinds of rules for the CFA and for rbp, also those the conversion passes
  over, x86_64.
- `unwind_cache`: four executables, one without unwind information, room for two
  files, and a file of an earlier run. Listing, writing and the disk may fail.
- `tracers`: a process with two threads, where data lies in front of code, and one with
  one. A range covers the code, begins inside it, or begins in the data and reaches into
  the code. Two entries for pending calls, three calls of munmap, so that the third
  thread finds the map full.
- `address_blocks`: 4-bit addresses, every two disjoint ranges. The whole address
  space as one range is left out: its size does not fit an address.
- `session`: two samples, two session ticks, one event, two changes of the killswitch
  file, with a stack in no mapping and an empty one. Two samples are enough for one to
  overtake the other at every stage.
- `locks`: two profiles; handlers in any order and number.
- `pprof`: up to two distinct samples (`MAX_SAMPLES`), in any order, of two processes with stacks of up to two
  frames, in a file without a segment for the address, in a file that cannot be opened
  any more, in no mapping, and in the kernel; a function sampled at two addresses, at one of
  which another is inlined, which has the name of a function of the kernel; a thread number used by two processes;
  one task that ends and is replaced.

### Fairness

- `Profiler`: a session of seconds is much longer than the handling of the events it brings,
  each of which is sent once in it, so that again and again the main loop waits with no
  event pending (`[]<>Idle`), and a session ends then (strong fairness). The 500ms of both
  cool-downs elapse (weak fairness), and a running process is sampled often enough not
  to miss every chance to send its event (strong fairness).
- `Session`: main runs (weak fairness), and crossbeam's `select!` picks at random among
  the channels that are ready, so that a stop signal is received in the end. The
  killswitch's ticker ticks (weak fairness of its thread). Nothing is assumed of the poll
  threads and of the collector's thread, and nothing makes anyone press Ctrl+C or touch
  the file.
- `Locks`: threads run (weak), and a thread that finds a lock free again and again
  gets it (strong): parking_lot is eventually fair.
- `AddressBlocks`: the loop goes on.

## 4. What is proved

TLAPS proves the theorems for every value of the constants that the modules'
assumptions allow; TLC evaluates the assumptions in the runs. The bounds of section 3 are
constants, too: a theorem holds for any number of processes, functions, rows, samples or
bits.

What a loop computes for inputs of any length is proved by induction over the
sequence. The library's rule for natural numbers takes an operator as a parameter, which the
provers cannot instantiate, so `UnwindInfoProofs`, `MappingProofs` and `PprofProofs` have
a rule about sets: `LeastNumber` from the well-foundedness of the naturals, `Induction`
from that, and `Recursion`, that a function defined by recursion exists. A
lemma such as `RedundantLoop` or `FramesLoop` then says that the recursive function of an
operator has the equations of its definition.

**Tables in the BPF maps** (first part of `ProfilerProofs`, from `TablesAssumption`:
finitely many executables, positive map sizes).

- `UnwindTypeCorrect`, `KnownIsAlwaysLoaded`, `PagesAlwaysHaveTables`: the three
  structures stay in step, whatever writes fail and whatever is evicted. The
  invariant is `TablesInv`, their conjunction: that a known table has its pages is only kept
  by an eviction because the pages deleted are those of the tables dropped, and
  that pages have tables only by an insertion because the table comes first.
- `PanicsOnlyWhenForgotten`: the unwrap of the outer map's update fails only when a
  table is in the map that user space does not know. The invariant `EntriesInv`
  adds that no more executables are known than the map has entries; the lemmas
  `FullEvicts` and `EvictionMakesRoom` show that a full map makes
  `maybe_evict_executables` free an entry before the insertion.
- `TablesAlwaysKnown`, `NeverPanics`: if no write can fail (`NoWriteFails`: inner
  maps can be mapped, and the page map has room for all pages), user space knows
  all tables and the unwrap never fails. The invariant `RoomInv` adds
  `TablesAreKnown`; the lemma `WholeTableWritten` counts pages to show that a
  table is written whole.

**The main loop** (`ProfilerProofs` and `ProfilerDeletionProofs`, from `TablesAssumption`
and `ProfilerAssumption`: the kernel's pid is no other process's, files and the vDSO have
an executable and anonymous mappings none, mappings and unmapped ranges are not empty, and the
mappings of a process are finitely many and do not overlap).

- `TrieAlwaysRecorded`: the invariant `RecordInv` relates the mappings of running processes
  (`OsInv`), the recorded processes with the object files of their mappings
  (`ProcsInv`), the trie (`TrieInv`), the events on their way (`ChanInv`) and the
  handler under way (`TaskInv`). An event stays meaningful until it is handled because
  no handler takes a process, its mappings or an object file out of the records
  (`Grows`, `EventsStay`); the four ways to delete mappings all come down to `Deletes`.
- `ProfilerImplementsTables`: `Spec => UnwindSpec`. A step of a handler
  is a step of the tables or leaves them alone; it needs `RecordInv` since the unwrap
  of an object file for a needed table (1470) would otherwise panic. With it
  `ProfilerKnownIsLoaded`, `ProfilerPagesHaveTables` and
  `ProfilerPanicsOnlyWhenForgotten` carry the results on the tables over.
- `PublishedAlwaysWhole`: on top of `RecordInv`, `WholeInv`: deletion keeps the entries
  of live mappings, and the process entry is written last.
- `RunningAlwaysAlive`: `AliveInv` adds that a process being recorded runs, or its
  exit was not reported, for it is not in the trie yet.
- `ReferencesAlwaysExact`: the count in an object file is the number of live mappings of
  running processes that refer to it. It is proved as a count of a set of pairs of a
  process and a mapping (`LiveReferences`), so that an exit, an eviction, a munmap and a
  new process each add or remove a set of known size (`ExitCounts`, `MunmapCounts`,
  `AddCounts`). The invariant `CountInv` adds that
  what is counted, or read from `/proc` to be counted, is finite. Executables mapped as a vDSO are left out (item 9).
- `TablesAlwaysOutliveMappings`: no step deletes a table that a live mapping needs, except
  to make room for another one. It follows from the exact counts: a table is deleted
  with the last reference.
- `AlwaysDeletedWasUnmapped`: of a mapping deleted from a process held as running the process
  has removed memory, or the mapping ends where a range it removed begins (item 7); only
  if the exit of an earlier process with its pid was not reported (items 6 and 10) may
  it be another one around an address that was unmapped. The invariant `DeletedInv` follows a
  munmap from the process through the channel to the handler: of what the handler of an
  event will delete memory was removed, or its process is no longer held as running by then
  (`EventInv`), and every recorded mapping of a process is still mapped or the process has
  removed memory of it (`MappedInv`). `UnmappedIsLayout` shows that what munmap leaves are
  again disjoint mappings, each a part of one before; that is why memory removed from a
  remainder was memory of the recorded mapping (`RemovedPart`, `RemovedStays`).

**The tracers** (second part of `MappingProofs`, from `TracersAssumption`).

- `MunmapAlwaysReported`: a mapping published when a call began, and of which the call
  removed memory at its start, is reported when it returns. While a thread is in such a
  call its entry in `tracked_munmap` is its address, since no other thread has its key.
  Mappings that begin behind the start, and a full map, are left out (item 24).
- `ReportedAlwaysAttempted`: every entry of `tracked_munmap` is an address that its
  thread tried to unmap while it was published.

**The trie** (first part of `MappingProofs`, from `BlocksAssumption`: addresses have a
number of bits).

- `LookupAlwaysExact`: for addresses of any width and any two disjoint ranges, the longest
  matching prefix is in the mapping of the address, after every operation and, for the
  addresses of the other mapping, during it. The invariant `BlocksInv` says that the
  blocks in the trie tile the part of a mapping that was added and not yet deleted (`Tiles`),
  and that each is the block the loop computes at its address: this is why deleting a
  range again finds the keys that adding it left, and no other mapping's. `BlockFits`
  shows that a block is aligned and ends within the range, from lemmas on powers of two
  (`Multiples`, `TrailingZeros`, `Log2`), and `PrefixMatches` that a prefix matches
  exactly the addresses of its block.

**Lookup of rows** (`UnwindTableProofs`, from `UnwindTableAssumption`: tables
are strictly increasing and not empty, the page size is positive).

- `LookupAlwaysCorrect`: for every table, page size and program counter whose
  page has rows, what page lookup, binary search and the step to the previous page
  find is the last row at or below the program counter. `LookupInv` consists of what
  `to_pages` has done so far (`PagingInv`), that every row behind it has a page
  (`IndexInv`), that each page's rows are exactly those with its high bits
  (`PageSound`), and of the invariant of the search (`SearchInv`): rows below
  `left` are at or below the program counter, rows from `right` are above it. It
  rests on lemmas on division (`HighLow`, `HighMonotone`) that let rows of one
  page be compared by their low bits.
- `TableTypeCorrect`: indices stay within the table.
- `LoadedAlwaysFound`, `AlwaysDeletesAllPages`: every program counter from a table's first
  page to its last row has a page, gaps included, and deletion from the first to
  the last program counter meets all pages. `CoverInv` says which pages there are: all
  from the first row's to the one before the page being collected, and in the end to the
  last row's.
- `SearchNeverExhausted`: the binary search ends within `MAX_BINARY_SEARCH_DEPTH` in every
  page with fewer rows than addresses: each iteration halves what is left. This needs
  `SearchDepthAssumption`: 2^(depth - 1) is at least the page size, as for the code's 17
  and 2^16. `_Static_assert(MAX_BINARY_SEARCH_DEPTH >=
  UNWIND_INFO_PAGE_BIT_LEN)` alone would also allow 16, which is one too few.

**From functions to rows** (`UnwindInfoProofs`, from `UnwindInfoAssumption`: the
end marker is no rule of a function).

- `AlwaysUnwindsAsFunctionsSay`: for any number of functions with any rows, and any address
  where unwinding is made to stop, the row that is found for a program counter says what the
  functions say of it. Three loops are followed by induction: `ProcessRules`, the
  rows of the functions with a marker at the end of each say of every address what the
  functions say; `MarkersRemoved`, dropping superfluous markers keeps what is said and
  leaves one row for an address; `RedundantRemoved`, dropping repeated rows keeps what is
  said. `CompactRules` joins them: it leaves out the case of item 11, in which the
  statement is false. `RowsMakeTable` shows that the
  result is a table of `UnwindTable`, so that `LookupInv` applies to it.

**One row** (second part of `SampleProofs`, from `RowAssumption`: offsets are
integers, additions natural numbers).

- `StepAlwaysFollowsDwarf`, `BottomAlwaysBottom`, `SupportedAlwaysUnwound`: for all offsets and
  additions, not only those at the limits. `RowInv` adds that the row stays the
  conversion of its rule; `Packed` and `Unpacked` show that two bytes that are ORed
  into a u16 are read from it again; the step is then taken case by case (`CfaFollows`,
  `RbpFollows`, `StepOutcome`). The CFA rules of items 13 to 15 and, for rbp alone, the
  rules of item 33 are left out.

**The walk** (first part of `SampleProofs`, from `UnwinderAssumption`, which contains the
static assertion of `profiler.h:9`).

- `SampleStaysInBounds`: the user stack stays within its buffer, and
  the tail calls within their limit.
- `ShortStacksAlwaysFinish`, `ShortStacksAlwaysWhole`: a stack that can be unwound
  and is shorter than the buffer is never given up as truncated, and is sent with
  all its frames and its kernel stack. The invariant `WalkInv` ties the frames
  walked to the iterations made, `frame = tail_calls * MAX_STACK_DEPTH_PER_PROGRAM + i`.
- `StatsAlwaysExplain`: the counters account for every sample, for any number of samples.

**The cache** (last part of `MappingProofs`, from `UnwindCacheAssumption`: finitely many files at
the start, a limit that is a natural number).

- `FetchAlwaysReturnsTable`: a fetch returns the executable's table or nothing, if it checks
  the digest or no file was damaged: by the disk, by a crash during a write, or by a write
  that failed behind the dummy header (item 20). The invariant `FileInv` says that only
  the file being written is incomplete, unless one was damaged so.
- `CacheAlwaysBounded`: between fetches there are at most `max_cached_files` files besides
  those no use was counted for. The bound on files comes from a bound on uses: by
  `UseInv` every counted file has a use that was not popped yet, or is being written,
  and there are never more uses than the limit. It also holds when a file has two uses
  (item 21), for the file goes with the first of them.

**The session** (last part of `SampleProofs`, from `SessionAssumption`).

- `SamplesAlwaysConserved`: every sample with a usable stack is in exactly one place, for any
  stacks and any number of samples, sessions and events. The samples on their way to the
  collector are counted as a set, a pair of a position in the channel and a number for
  each, so that sending adds and receiving removes a set of known size (`AppendSamples`,
  `TailSamples`, which needs a bijection since every position moves up). `ConservedInv`
  adds that profiles on their way hold no empty stack, and the collector's only usable ones.
- `SessionIsRecording`: the program implements `Recording`, step by step: `on_event` takes,
  `collect` collects, `write_report` writes, and all others are stutters. That what the
  collector gains was sampled follows from `ConservedInv`.

**The pprof** (`PprofProofs` and `PprofReaderProofs`, from `PprofAssumption`, the types of what processes, object
files, symbols and tasks are, and that every task of a known process has labels, if only those
that say it is gone; and from `AddressAssumption`: the mappings of the kernel have an
object file and lie above their offset, as `add_kernel_modules` makes them
(645-707), and load segments of a file do not overlap in it).

- `AlwaysValid`: for any samples, symbolised or not, `validate` finds nothing wrong at any point
  of the conversion. `PprofInv` says that the tables only refer to each other's entries
  (`Linked`) and samples to those (`Sound`). Tables only grow (`Grown`), so that an
  identifier stays what it was; each `add_` operation gives one whose entry
  has the key (`StringAdded`, `FunctionAdded`, `MappingAdded`, `LocationAdded`).
- `LabelsAlwaysOfTask`: the rest of `PprofInv` follows a label from the task to the cache
  (`Fitting`), from there to the labels kept for a tid (`Asked`), and into the strings of the
  builder (`Labelled`), while tasks end and are replaced.
- `ReaderAlwaysSeesSampled` (`PprofReaderProofs`): in a profile that is not symbolised locally, as those sent to a
  server, a reader finds the stacks that were sampled, for any number of samples and frames.
  The invariant `PlainInv` says that the samples converted so far show their stacks and
  that the rest is still what was processed. `FileAddress` shows that the first segment with
  the offset is the only one, so that the normalised address is the one of the object file;
  `StackShown` follows the frames of a stack by induction, with shared locations;
  `DecodedStackStays` says that later samples do not change what earlier ones show.

Only model-checked:

- liveness and everything under fairness (`SampledIsPublished`, `StopIsReported`,
  `KillswitchStops`, `HandlersFinish`, `Ends`), which is out of the prover's reach;
- `ReaderSeesSampled` for symbolised profiles, where frames of a function share a location
  and functions of one name a file (item 27);
- `MemoryWithinLimit`, whose exceptions (item 1) would have to be carried through the sums of
  table sizes;
- `ProcessSeenWhole`: the scripts of `Locks` are fixed sequences, and its one constant bounds
  the number of profiles, so that a proof for all values would say little more than
  the run.

## 5. Disagreements with comments, tests and messages

Modelling brought up places where the code does other than its comments, tests or
messages say. The properties above are stated so that they hold of the code, and say in
their comment or definition which case they leave out. Quotes are of the repository.

Main loop and tables:

1. `maybe_evict_executables` counts every victim with the size of the new table
   (1644), so that more memory is used than "to stay below the memory limit" (1641) if
   a victim is smaller; and a table larger than the limit is added all the same.
   `MemoryWithinLimit` names both cases.
2. `is_outer_map_full` (1600) counts known executables; tables whose pages could
   not be written stay in the outer map and are not counted, and the unwrap at 1353
   can panic. `PanicMeansForgotten` says that nothing else makes it panic.
3. `handle_process_exit` (864-878) deletes trie entries of a mapping only with the
   last reference to its executable and a known table; mappings of shared
   executables and anonymous ones stay, and nothing removes them later. "Called when a process exits or
   a mapping gets unmapped" (1278), and the test at 2166 expects none after the exit.
   The run `profiler_exit` shows it: two processes run one program, both are
   published, and the first to exit leaves its entry.
4. An event handled after the exit of its process (1735) loads a table that nothing
   references; the test at 2165 expects none after the exit.
5. Only processes marked Running are counted (1757): processes evicted and
   published again are not, and more than "Maximum number of processes we are
   willing to track" (`bpf/profiler.h:15`) are in the trie.
6. A pid that is used again is taken for the process recorded before (1703), whose
   mappings are published for it: "we know about this process" (1704).
7. `handle_munmap` includes the end of a mapping (894), so that unmapping what begins
   where another mapping ends deletes that one. The event has no length, so that a
   mapping is deleted whole when only its end was unmapped, and the process is
   unwound no more there. `DeletedWasUnmapped` names both.
8. A process eviction may pick the kernel's pseudo process (1768), which frees no
   entry: "Evict a process to make room for more." (1448) Once all processes are held as
   exited there is none left to evict (1748-1764), and a process for which the trie has
   no room is published in part and taken back each time it is sampled.
   `SampledIsPublished` counts that as an attempt.
9. The vDSO's object file is inserted with `references: 1` for each process (1963), so
   that the first exit deletes a table others use. `ReferencesExact` and
   `TablesOutliveMappings` leave it out, and the instances have no vDSO.
10. A process that exits after its maps were read and before it is published (1788)
    sends no exit event and stays Running. `RunningIsAlive` names it.

Tables and frames:

11. A row replaced by `stop_unwinding` looks like an end marker; when the function
    before ends there, both are dropped (`optimize.rs:18`). `MarkerLost` in
    `UnwindInfo` is this case.
12. Pages that fill a gap are searched by low halves that belong to another page
    (`profiler.bpf.c:105`); `PageHasRows` leaves them out.
13. A CFA offset of 2^15 and more is stored as u16 and read as s16
    (`profiler.bpf.c:417`).
14. Offset and addition of a dereference get one byte each (`convert.rs:210`);
    "both the offset and addition will fit in 2 bytes" (206).
15. `11 ? found_cfa_type == CFA_TYPE_PLT1 : 10` (`profiler.bpf.c:482`) is 1 for PLT1 and
    0 for PLT2, so that PLT2 rows count as "should never happen". Items 13 to 15
    are `ReadDifferently` in `CfaRow`.
16. On arm64 the leaf's address is added before `ulen == 0` is tested
    (`profiler.bpf.c:534`), so that the link register is not used.
17. Frames beyond the buffer are walked and left out, and the sample is sent if the bottom is
    reached in the last program (`profiler.bpf.c:448`): "Truncated stack, won't be sent"
    (604).
18. A user stack that fills the buffer is sent without its kernel stack (265).

Cache, session, tracers, pprof:

19. Both fetches pass `check_digest = false` (1510, 1532); a digest "that is checked
    on the read path" (`persist.rs:37`) is not. `FetchReturnsTable` covers both.
20. A failed write leaves a file that no use is counted for (`manager.rs:136`):
    `uncounted`. If it fails behind the dummy header (`persist.rs:71-75`), a later fetch
    that checks no digest returns the file as a table without rows: `damaged`.
21. A file written again has two usage records, and the older one evicts the newer
    file (`manager.rs:175`).
22. Nothing waits for the collector's thread after `run()`: the last profile may
    miss the report (`cli/main.rs:232`; `tests/integration_test.rs:117` reads it
    at once).
23. Poll threads outlive `run()`; an event that arrives after its receivers are gone
    panics (752, 2045) before the report. A report that cannot be created panics
    (`cli/main.rs:261`, 287), and one that cannot be written is only logged (269, 296).
    `StopIsReported` names these cases.
24. The result of the update of `tracked_munmap` is ignored and entries are never
    deleted (`tracers.bpf.c:107`): with the map full a munmap is not reported. Only the start
    of the range is looked up (87, 94-103): a mapping that begins behind it goes away
    unreported. `MunmapIsReported` names both cases.
25. An entry of an earlier call makes a later munmap be reported with the old address
    (`tracers.bpf.c:118`). `ReportedWasAttempted` allows for it.
26. The exit of a main thread counts as the exit of a process whose other threads
    run on (`tracers.bpf.c:60`).
27. A symbolised frame has the start of its function as offset (`usym.rs:73`, 84), by which
    locations are known (`profile.rs:234`), so that inlined frames and other lines of a
    function become one location. Functions are known by their name alone
    (`profile.rs:195`), so that two files' functions of one name share the first file.
    `ShownFor` in `ReaderSeesSampled` allows for it, and the instance has all of these.
28. A frame that cannot be symbolised gets the address 0xBAD and is dropped
    (`usym.rs:37`). `ReaderSeesSampled` says so.
29. Labels are kept by thread number alone (`profile/convert.rs:193`).
    `LabelsAreOfTask` leaves out a number used by two processes.
30. The label cache is by pid and tid (`metadata_provider.rs:98`) and nothing is taken out
    when a process ends: a task that gets the numbers of an earlier one gets its
    labels. `LabelsAreOfTask` allows for it.
31. "Clear the `percpu_stats` maps one entry at a time." stands above `clear_maps`,
    which clears `rate_limits` only; the statistics run on over sessions, which is what
    `StatsExplainSamples` is about.
32. Three returns of the walk bump no counter (`profiler.bpf.c:402`, 411, 546), and a sample that
    could not be sent counts as a success (590, 306): `uncounted` and the first
    conjunct of `StatsExplainSamples`.
33. Rules that say how to compute rbp, not where it was saved, fall into the last arm of the
    conversion (`convert.rs:239-241`), and rbp is taken to be unchanged: `RbpPassedOver`
    in `CfaRow`.

## 6. Further observations

- An event lost after its rate limit was set is not sent again before the session's
  end clears the limits; `SampledIsPublished` rests on that.
- The search runs out of iterations only in a page with as many rows as addresses
  (`NeverExhausted`).
- A failed read of the CFA of a dereference is counted and the walk goes on with
  the addition alone (`PreviousRsp` in `CfaRow`).
- Samples in the channel when the stop arrives are dropped (`dropped` in `Session`);
  when its channel is closed, the collector's thread spins on the error.
- A process that needs more tables than the memory limit has room for is never
  published: loading the second table evicts the first, or is refused within the
  cool-down, and each time the loop ends early (1415-1431). In the instance of
  `profiler_liveness` the tables of each process just fit.
- A killswitch path that cannot be examined panics (`killswitch.rs:23`), which ends
  the program without a report.
- Threads that start after their process was recorded are not registered for labels;
  they are asked for when they are first sampled and collected.
- The failure of `set_initial_state` is not looked at, and user space is taken to
  be in the root pid namespace.

## 7. Hazards

`PROJECT.json` lists under `hazards` what a test would hardly reach, at the line where
it bites: orders of events (exits before requests, late munmaps), partial failures
(publishing, loading, caching), bounds (outer map, page map, processes, tail calls, pending
calls), edges (pages, widths, prefixes), staleness (pids, thread numbers, cache files)
and the shutdown. Each names the properties that cover it, or says why none
does; the ones without are cases of section 5 in which the code makes no promise.

## 8. Plan

Done: the modules of section 2, the composition `UnwindInfo`, the refinements of
`UnwindSpec` by `Profiler` and of `Recording` by `Session`, both proved, and the theorems
of section 4.

Next, in the model:

- debug information (`debug_info.rs`): a copy that was interrupted is taken for complete;
- a vDSO in the instances of `Profiler`, and a bound on how far the memory limit is
  exceeded.

Next, in the proofs:

- `Locks`: the order of locks as an invariant;
- `Pprof`: `ReaderSeesSampled` for symbolised profiles, with sharing as in item 27.

## 9. What is not modelled

- Parsing: ELF files, `.eh_frame` (gimli), `/proc/<pid>/maps`, kallsyms and kernel modules,
  command line. Their results are the constants of the models.
- Pure input and output: HTTP upload, flame graphs, folded stacks, log messages, BPF feature
  probes, perf event attributes, printing of statistics.
- The metadata providers that read `/proc` and `uname`: what they return for a task is a
  constant of `Pprof`. The copying and uploading of debug information (section 8).
- The collector that streams profiles to a server: one request for each, without retry.
- The generated kernel headers (`vmlinux_x86.h`, `vmlinux_arm64.h`), which are nearly all of the lines of C
  in the repository: type declarations without behaviour. Of the BPF programs' own code,
  `profiler.bpf.c` and `tracers.bpf.c` with their headers, all functions that change
  state are modelled.
- Weak memory effects within the BPF programs: a program runs to its end on one CPU with its
  own heap; map operations are atomic.
