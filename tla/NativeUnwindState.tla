-------------------------- MODULE NativeUnwindState --------------------------
(***************************************************************************)
(* The unwind tables loaded in the kernel, and what user space remembers   *)
(* of them: `known_executables`, the 'outer' map from an executable to its *)
(* table and the `executable_to_page` index into it.  Tables are added by  *)
(* add_unwind_information_for_executable, which first evicts the least     *)
(* recently used ones if there are too many or they take too much memory,  *)
(* and deleted when the last mapping of their executable goes away.        *)
(*                                                                         *)
(* A table is its number of rows and of 64KB pages; rows and page contents *)
(* are the matter of UnwindTable.                                          *)
(***************************************************************************)
EXTENDS LastUsed

CONSTANTS
    ExecutableId,                      \* executables with an object file
    Rows,                              \* rows in the table of an executable
    Pages,                             \* pages in the table of an executable
    FetchMayFail,                      \* executables whose table may fail to be fetched
    MmapMayFail,                       \* whether mapping an inner map may fail
    ROWS_PER_MB,                       \* rows in a megabyte of BPF map
    MAX_UNWIND_INFO_SIZE,              \* rows a table may have
    MAX_OUTER_UNWIND_MAP_ENTRIES,      \* tables the outer map may hold
    MAX_EXECUTABLE_TO_PAGE_ENTRIES,    \* entries the page map may hold
    max_native_unwind_info_size_mb     \* memory all tables may take

ASSUME TablesAssumption ==
    /\ IsFiniteSet(ExecutableId)
    /\ Rows \in [ExecutableId -> Nat]
    /\ Pages \in [ExecutableId -> Nat \ {0}]
    /\ FetchMayFail \subseteq ExecutableId
    /\ MmapMayFail \in BOOLEAN
    /\ ROWS_PER_MB \in Nat \ {0}
    /\ MAX_UNWIND_INFO_SIZE \in Nat
    /\ MAX_OUTER_UNWIND_MAP_ENTRIES \in Nat \ {0}
    /\ MAX_EXECUTABLE_TO_PAGE_ENTRIES \in Nat
    /\ max_native_unwind_info_size_mb \in Nat

VARIABLES
    known_executables,    \* the executables user space holds as loaded -> last_used
    outer_map,            \* BPF: the executables with an inner map
    executable_to_page,   \* BPF: <<executable, page>>
    evicted_lately,       \* the last eviction of executables is under 500ms old
    panicked              \* an unwrap() failed, which ends the program

unwindVars == <<known_executables, outer_map, executable_to_page, evicted_lately, panicked>>

PagesOf(S) == {p \in executable_to_page : p[1] \in S}

UnwindInit ==
    /\ known_executables = [e \in {} |-> 0]
    /\ outer_map = {}
    /\ executable_to_page = {}
    /\ evicted_lately = TRUE
    /\ panicked = FALSE

-----------------------------------------------------------------------------
\* Accounting.  The size in MB is truncated, so a small table counts for nothing.

unwind_info_size_mb(n) == n \div ROWS_PER_MB

\* The megabytes in use, one element each: a table has at most
\* MAX_UNWIND_INFO_SIZE rows.
unwind_info_memory_usage ==
    Cardinality({p \in (DOMAIN known_executables) \X (1..unwind_info_size_mb(MAX_UNWIND_INFO_SIZE)) :
                    p[2] <= unwind_info_size_mb(Rows[p[1]])})

OuterMapFullTooLate ==
    Cardinality(DOMAIN known_executables) > MAX_OUTER_UNWIND_MAP_ENTRIES

is_outer_map_full ==
    Cardinality(DOMAIN known_executables) >= MAX_OUTER_UNWIND_MAP_ENTRIES

ToFreeMb(n) ==
    LET over == unwind_info_memory_usage + unwind_info_size_mb(n) - max_native_unwind_info_size_mb
    IN  IF over > 0 THEN over ELSE 0

ShouldEvict(n) == is_outer_map_full \/ ToFreeMb(n) # 0

EvictOnlyWhenFull(n) == IF is_outer_map_full THEN 1 ELSE 0

\* How many executables make room for a table of n rows.  Every executable
\* evicted is taken to free the size of the table being added, not its own.
EvictionCount(n) ==
    LET size == unwind_info_size_mb(n)
        byMemory == IF ToFreeMb(n) = 0 THEN 0
                    ELSE IF size = 0 THEN Cardinality(DOMAIN known_executables)
                    ELSE (ToFreeMb(n) + size - 1) \div size
    IN  IF is_outer_map_full /\ byMemory = 0 THEN 1 ELSE byMemory

Victims(n) == LeastRecentlyUsed(known_executables, EvictionCount(n))

-----------------------------------------------------------------------------
EvictTablesKeepInner(V) ==
    /\ known_executables' = Drop(known_executables, V)
    /\ executable_to_page' = executable_to_page \ PagesOf(V)
    /\ UNCHANGED outer_map

\* delete_bpf_unwind_info_map and delete_bpf_pages for every one of V.
EvictTables(V) ==
    /\ known_executables' = Drop(known_executables, V)
    /\ outer_map' = outer_map \ V
    /\ executable_to_page' = executable_to_page \ PagesOf(V)

\* add_unwind_information_for_executable(e), whose outcome is Ok iff ok.

AlreadyLoaded(e, ok) ==
    /\ e \in DOMAIN known_executables
    /\ ok
    /\ UNCHANGED unwindVars

FetchFails(e, ok) ==
    /\ e \notin DOMAIN known_executables
    /\ e \in FetchMayFail
    /\ ~ok
    /\ UNCHANGED unwindVars

EvictionRefused(e, ok) ==
    /\ e \notin DOMAIN known_executables
    /\ ShouldEvict(Rows[e]) /\ evicted_lately
    /\ ~ok
    /\ UNCHANGED unwindVars

AllPages(e) == {<<e, i>> : i \in 1..Pages[e]}

\* The pages of e that a page map with room for `free` more takes in: they are
\* written in order, up to the first one there is no room for.
PagesWritten(e, free) ==
    LET missing == AllPages(e) \ executable_to_page
    IN  {p \in missing : Cardinality({q \in missing : q[2] <= p[2]}) <= free}

WriteTableKnownFirst(e, V, ok) ==
    LET kept == executable_to_page \ PagesOf(V)
        pages == kept \cup PagesWritten(e, MAX_EXECUTABLE_TO_PAGE_ENTRIES - Cardinality(kept))
    IN  /\ outer_map' = (outer_map \ V) \cup {e}
        /\ \/ /\ executable_to_page' = pages
              /\ ok = (AllPages(e) \subseteq pages)
           \/ /\ MmapMayFail
              /\ executable_to_page' = kept
              /\ ~ok
        /\ known_executables' = Stamp(Drop(known_executables, V), {e})

\* The table is created, filled and indexed; the executable becomes known
\* only if all of that worked, and nothing is undone otherwise.
WriteTable(e, V, ok) ==
    LET kept == executable_to_page \ PagesOf(V)
        pages == kept \cup PagesWritten(e, MAX_EXECUTABLE_TO_PAGE_ENTRIES - Cardinality(kept))
    IN  /\ outer_map' = (outer_map \ V) \cup {e}
        /\ \/ /\ executable_to_page' = pages
              /\ ok = (AllPages(e) \subseteq pages)
           \/ /\ MmapMayFail
              /\ executable_to_page' = kept
              /\ ~ok
        /\ known_executables' =
              IF ok THEN Stamp(Drop(known_executables, V), {e}) ELSE Drop(known_executables, V)

EvictAndAdd(e, ok) ==
    /\ e \notin DOMAIN known_executables
    /\ ~(ShouldEvict(Rows[e]) /\ evicted_lately)
    /\ \E V \in Victims(Rows[e]) :
        LET accepted == Rows[e] \in 1..MAX_UNWIND_INFO_SIZE
            fits == Cardinality((outer_map \ V) \cup {e}) <= MAX_OUTER_UNWIND_MAP_ENTRIES
        IN  /\ evicted_lately' = (evicted_lately \/ V # {})
            /\ panicked' = (accepted /\ ~fits)
            /\ IF accepted /\ fits
               THEN WriteTable(e, V, ok)
               ELSE ~ok /\ EvictTables(V)

AddUnwindInformation(e, ok) ==
    \/ AlreadyLoaded(e, ok)
    \/ FetchFails(e, ok)
    \/ EvictionRefused(e, ok)
    \/ EvictAndAdd(e, ok)

-----------------------------------------------------------------------------
DeleteTablesNotPages(S) ==
    /\ known_executables' = Drop(known_executables, S)
    /\ outer_map' = outer_map \ S
    /\ UNCHANGED <<executable_to_page, evicted_lately, panicked>>

\* The part of delete_bpf_native_unwind_all that is about the tables of the
\* executables S.
DeleteTables(S) ==
    /\ EvictTables(S)
    /\ UNCHANGED <<evicted_lately, panicked>>

\* The executables S were seen in the samples of the last session.
BumpExecutables(S) ==
    /\ known_executables' = Stamp(known_executables, S \cap DOMAIN known_executables)
    /\ UNCHANGED <<outer_map, executable_to_page, evicted_lately, panicked>>

\* 500ms have elapsed since the last eviction of executables.
ExecutableCooldown ==
    /\ evicted_lately
    /\ evicted_lately' = FALSE
    /\ UNCHANGED <<known_executables, outer_map, executable_to_page, panicked>>

\* The tables on their own: the rest of the profiler adds, deletes and uses
\* executables in any order.
UnwindNext ==
    /\ ~panicked
    /\ \/ \E e \in ExecutableId, ok \in BOOLEAN : AddUnwindInformation(e, ok)
       \/ \E S \in SUBSET DOMAIN known_executables : DeleteTables(S)
       \/ \E S \in SUBSET DOMAIN known_executables : BumpExecutables(S)
       \/ ExecutableCooldown

UnwindSpec == UnwindInit /\ [][UnwindNext]_unwindVars

-----------------------------------------------------------------------------
\* The tables, pages and stamps are of their kinds, and a page map entry is one
\* of the pages to_pages makes for its executable.
UnwindTypeOK ==
    /\ DOMAIN known_executables \subseteq ExecutableId
    /\ known_executables \in [DOMAIN known_executables -> Nat]
    /\ outer_map \subseteq ExecutableId
    /\ executable_to_page \subseteq UNION {AllPages(e) : e \in ExecutableId}
    /\ evicted_lately \in BOOLEAN
    /\ panicked \in BOOLEAN

\* What user space holds as loaded really is: the table of a known executable
\* is in the outer map with every one of its pages indexed, so that is_known
\* (profiler.rs:98) may skip loading.  Partial writes (1573-1583), evictions
\* and deletions all have to keep the three structures in step.
KnownIsLoaded ==
    \A e \in DOMAIN known_executables :
        e \in outer_map /\ AllPages(e) \subseteq executable_to_page

\* The unwinder finds a page only for a table that is there (find_page,
\* profiler.bpf.c:125-128): no deletion leaves pages of a dropped table behind,
\* not even after a partial write.
PagesHaveTables == \A page \in executable_to_page : page[1] \in outer_map

\* Every table in the outer map is one user space can evict: a table it has
\* forgotten would hold its entry for ever (profiler.rs:1623-1630).
TablesAreKnown == outer_map \subseteq DOMAIN known_executables

\* maybe_evict_executables always leaves an entry for the table about to be
\* added, so that the unwrap() of the outer map's update (profiler.rs:1348-1353)
\* holds; it can only fail once partial writes have left tables behind that
\* user space does not know, which is_outer_map_full (1599) does not count.
PanicMeansForgotten == panicked => ~TablesAreKnown

\* "max_memory_mb: The maximum memory that all unwind information should account for in
\* BPF maps" (profiler.rs:1608): whenever a table has been added, all tables are within
\* the limit.  There are two exceptions.  A table that is larger than the limit is added
\* all the same.  And the number to evict is reckoned from the size of the table to
\* be added (1644), so that the limit is overrun if one that is evicted is smaller.
MemoryWithinLimit ==
    [][\A e \in DOMAIN known_executables' \ DOMAIN known_executables :
          LET size == unwind_info_size_mb(Rows[e])
          IN  \/ unwind_info_memory_usage' <= max_native_unwind_info_size_mb
              \/ size > max_native_unwind_info_size_mb
              \/ \E v \in DOMAIN known_executables \ DOMAIN known_executables' :
                    unwind_info_size_mb(Rows[v]) < size]_unwindVars
=============================================================================
