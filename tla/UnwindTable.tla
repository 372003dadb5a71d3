----------------------------- MODULE UnwindTable -----------------------------
(***************************************************************************)
(* One executable's unwind table and the index into it.  User space splits *)
(* the table in pages by the high bits of the program counters (to_pages)  *)
(* and stores the low bits with the rows; the unwinder finds the page of a *)
(* program counter, searches the page's rows by the low bits, and falls    *)
(* back on the row before the page.  Loops take a step per iteration.      *)
(*                                                                         *)
(* A table is its program counters, from row 0, strictly increasing (see   *)
(* CompactUnwindInfo), and not empty (an empty one is refused).            *)
(***************************************************************************)
EXTENDS Integers, FiniteSets

CONSTANTS
    Tables,                    \* the tables an executable may have
    MAX_PC,                    \* bound: addresses looked up
    UNWIND_INFO_PAGE_SIZE,
    MAX_BINARY_SEARCH_DEPTH

RowCount(t) == Cardinality(DOMAIN t)

IsTable(t) ==
    /\ RowCount(t) \in Nat \ {0}
    /\ t \in [0..RowCount(t) - 1 -> Nat]
    /\ \A j, k \in DOMAIN t : j < k => t[j] < t[k]

ASSUME UnwindTableAssumption ==
    /\ \A t \in Tables : IsTable(t)
    /\ MAX_PC \in Nat
    /\ UNWIND_INFO_PAGE_SIZE \in Nat \ {0}
    /\ MAX_BINARY_SEARCH_DEPTH \in Nat

\* The iterations are enough for a page that is not full (17 for 2^16 addresses,
\* profiler.h:22-27): halving its size in each of them but the last leaves no row.
ASSUME SearchDepthAssumption ==
    /\ MAX_BINARY_SEARCH_DEPTH > 0
    /\ \E w \in [0..MAX_BINARY_SEARCH_DEPTH - 1 -> 0..UNWIND_INFO_PAGE_SIZE - 1] :
          /\ w[0] = UNWIND_INFO_PAGE_SIZE - 1
          /\ \A d \in 1..MAX_BINARY_SEARCH_DEPTH - 1 : w[d] = w[d - 1] \div 2
          /\ w[MAX_BINARY_SEARCH_DEPTH - 1] = 0

VARIABLES
    table,         \* the unwind table: pc of each row
    pages,         \* executable_to_page, for this executable
    i,             \* to_pages: the next row
    prev_high_pc,
    prev_index,
    pc,            \* the program counter looked up, relative to the object file
    low_index, high_index,
    left, right, found, depth,
    table_idx,     \* the row found
    phase

pagingVars == <<pages, i, prev_high_pc, prev_index>>
searchVars == <<low_index, high_index, left, right, found, depth>>
vars == <<table, pagingVars, pc, searchVars, table_idx, phase>>

None == -1
BINARY_SEARCH_DEFAULT == -2
BINARY_SEARCH_EXHAUSTED_ITERATIONS == -3
PageNotFound == -4

LOW_PC(a) == a % UNWIND_INFO_PAGE_SIZE
HIGH_PC(a) == a - LOW_PC(a)
PREVIOUS_PAGE(a) == a - UNWIND_INFO_PAGE_SIZE

Size == RowCount(table)
PageInclusive(address, low, high) == [address |-> address, low_index |-> low, high_index |-> high + 1]
Page(address, low, high) == [address |-> address, low_index |-> low, high_index |-> high]

IndexInit ==
    /\ pages = {}
    /\ i = 0 /\ prev_high_pc = None /\ prev_index = 0
    /\ pc = 0
    /\ low_index = 0 /\ high_index = 0 /\ left = 0 /\ right = 0
    /\ found = BINARY_SEARCH_DEFAULT /\ depth = 0
    /\ table_idx = PageNotFound
    /\ phase = "paging"

Init == table \in Tables /\ IndexInit

-----------------------------------------------------------------------------
\* to_pages, one row at a time.

\* The addresses in steps of a page from `from` up to `to`, which is left out.
PageSteps(from, to) == {a \in from..to - 1 : (a - from) % UNWIND_INFO_PAGE_SIZE = 0}

NoGapPages(high) == {Page(prev_high_pc, prev_index, i)}

\* The page that ends before row i, and if the next row is further than a page
\* away one for each address in between, with the same rows.
PagesUpTo(high) ==
    IF prev_high_pc + UNWIND_INFO_PAGE_SIZE < high
    THEN {Page(a, prev_index, i) : a \in PageSteps(prev_high_pc, high)}
    ELSE {Page(prev_high_pc, prev_index, i)}

to_pages_row ==
    /\ phase = "paging"
    /\ i < Size
    /\ i' = i + 1
    /\ LET high == HIGH_PC(table[i])
       IN  /\ prev_high_pc' = high
           /\ IF prev_high_pc \in {None, high}
              THEN UNCHANGED <<pages, prev_index>>
              ELSE /\ pages' = pages \cup PagesUpTo(high)
                   /\ prev_index' = i
    /\ UNCHANGED <<table, pc, searchVars, table_idx, phase>>

to_pages_last ==
    /\ phase = "paging"
    /\ i = Size
    /\ pages' = pages \cup {Page(prev_high_pc, prev_index, Size)}
    /\ phase' = "ready"
    /\ UNCHANGED <<table, i, prev_high_pc, prev_index, pc, searchVars, table_idx>>

-----------------------------------------------------------------------------
\* The unwinder looks a program counter up.

find_page(a) ==
    /\ phase = "ready"
    /\ pc' = a
    /\ \/ \E p \in pages :
            /\ p.address = HIGH_PC(a)
            /\ low_index' = p.low_index /\ high_index' = p.high_index
            /\ left' = p.low_index /\ right' = p.high_index
            /\ found' = BINARY_SEARCH_DEFAULT
            /\ depth' = 0
            /\ phase' = "search"
            /\ UNCHANGED table_idx
       \/ /\ \A p \in pages : p.address # HIGH_PC(a)
          /\ table_idx' = PageNotFound
          /\ phase' = "found"
          /\ UNCHANGED searchVars
    /\ UNCHANGED <<table, pagingVars>>

RowAtOrBelow(mid) == LOW_PC(table[mid]) <= LOW_PC(pc)

SameRow(mid) == mid
AfterRow(mid) == mid + 1

\* find_offset_for_pc, one iteration.
Narrow ==
    /\ phase = "search"
    /\ depth < MAX_BINARY_SEARCH_DEPTH
    /\ left < right
    /\ LET mid == (left + right) \div 2
       IN  \/ /\ RowAtOrBelow(mid)
              /\ found' = mid /\ left' = AfterRow(mid)
              /\ UNCHANGED right
           \/ /\ ~RowAtOrBelow(mid)
              /\ right' = mid
              /\ UNCHANGED <<found, left>>
    /\ depth' = depth + 1
    /\ UNCHANGED <<table, pagingVars, pc, low_index, high_index, table_idx, phase>>

Exhausted ==
    /\ phase = "search"
    /\ depth = MAX_BINARY_SEARCH_DEPTH
    /\ table_idx' = BINARY_SEARCH_EXHAUSTED_ITERATIONS
    /\ phase' = "found"
    /\ UNCHANGED <<table, pagingVars, pc, searchVars>>

\* The search ends; if every row of the page is above, the row before the page
\* is taken.  There is none before row 0: the index wraps around.
NoPreviousRow == BINARY_SEARCH_DEFAULT
PreviousRow ==
    IF low_index > 0 /\ pc > PREVIOUS_PAGE(HIGH_PC(pc)) + LOW_PC(table[low_index - 1])
    THEN low_index - 1 ELSE BINARY_SEARCH_DEFAULT

SearchDone ==
    /\ phase = "search"
    /\ depth < MAX_BINARY_SEARCH_DEPTH
    /\ left >= right
    /\ table_idx' = IF found = BINARY_SEARCH_DEFAULT THEN PreviousRow ELSE found
    /\ phase' = "found"
    /\ UNCHANGED <<table, pagingVars, pc, searchVars>>

\* The row is used, and the lookup's variables go out of scope.
NextLookup ==
    /\ phase = "found"
    /\ phase' = "ready"
    /\ pc' = 0
    /\ low_index' = 0 /\ high_index' = 0 /\ left' = 0 /\ right' = 0
    /\ found' = BINARY_SEARCH_DEFAULT /\ depth' = 0
    /\ table_idx' = PageNotFound
    /\ UNCHANGED <<table, pagingVars>>

-----------------------------------------------------------------------------
\* The table is dropped: the pages from its first to its last program counter
\* are deleted, without reading the table again.
WithoutEndPage(start, end) == {HIGH_PC(a) : a \in PageSteps(start, end)}
PagesInRange(start, end) == {HIGH_PC(a) : a \in PageSteps(start, end)} \cup {HIGH_PC(end)}

delete_bpf_pages ==
    /\ phase = "ready"
    /\ pages' = {p \in pages : p.address \notin PagesInRange(table[0], table[Size - 1])}
    /\ phase' = "deleted"
    /\ UNCHANGED <<table, i, prev_high_pc, prev_index, pc, searchVars, table_idx>>

\* The executable is loaded again.
load_again ==
    /\ phase = "deleted"
    /\ i' = 0 /\ prev_high_pc' = None /\ prev_index' = 0
    /\ phase' = "paging"
    /\ UNCHANGED <<table, pages, pc, searchVars, table_idx>>

Next ==
    \/ to_pages_row
    \/ to_pages_last
    \/ \E a \in 0..MAX_PC : find_page(a)
    \/ Narrow
    \/ Exhausted
    \/ SearchDone
    \/ NextLookup
    \/ delete_bpf_pages
    \/ load_again

Spec == Init /\ [][Next]_vars

-----------------------------------------------------------------------------
\* Indices of pages and of the search stay within the table, also where the search
\* leaves its range at either end (pages.rs:24-86, profiler.bpf.c:76-113).
TypeOK ==
    /\ IsTable(table)
    /\ pages \subseteq [address : Nat, low_index : Nat, high_index : Nat]
    /\ i \in 0..Size /\ prev_high_pc \in Nat \cup {None} /\ prev_index \in 0..Size
    /\ pc \in 0..MAX_PC
    /\ low_index \in 0..Size /\ high_index \in 0..Size /\ left \in 0..Size /\ right \in 0..Size
    /\ found \in 0..Size - 1 \cup {BINARY_SEARCH_DEFAULT}
    /\ depth \in 0..MAX_BINARY_SEARCH_DEPTH
    /\ table_idx \in 0..Size - 1 \cup {BINARY_SEARCH_DEFAULT, BINARY_SEARCH_EXHAUSTED_ITERATIONS, PageNotFound}
    /\ phase \in {"paging", "ready", "search", "found", "deleted"}

\* Row r says how to unwind at pc: the last row at or below it, or none is.
Covers(r) ==
    \/ /\ r \in DOMAIN table
       /\ table[r] <= pc
       /\ \A k \in DOMAIN table : k > r => pc < table[k]
    \/ /\ r = BINARY_SEARCH_DEFAULT
       /\ \A k \in DOMAIN table : pc < table[k]

PageHasRows == \E k \in DOMAIN table : HIGH_PC(table[k]) = HIGH_PC(pc)

\* "Find the row index containing the unwind information for a given program
\* counter" (profiler.bpf.c:76-77): where the program counter's page has rows
\* of its own, the search by low bits alone and the fallback to the previous
\* page find the row that covers the whole program counter.
LookupCorrect ==
    phase = "found" /\ PageHasRows /\ table_idx # BINARY_SEARCH_EXHAUSTED_ITERATIONS => Covers(table_idx)

\* A page with fewer rows than addresses is searched in the iterations the
\* unwinder has (MAX_BINARY_SEARCH_DEPTH, profiler.h:22,29): the last one
\* only notices that the search is over.
NeverExhausted ==
    phase = "found" /\ table_idx = BINARY_SEARCH_EXHAUSTED_ITERATIONS =>
        high_index - low_index >= UNWIND_INFO_PAGE_SIZE

\* Between the first and the last row of a table every program counter has a
\* page, so that the unwinder never asks again for a table that is loaded
\* (profiler.bpf.c:362-375).
LoadedIsFound ==
    phase = "found" /\ table_idx = PageNotFound => pc < HIGH_PC(table[0]) \/ table[Size - 1] < pc

\* Deleting the pages from the first to the last program counter (profiler.rs:
\* 1135-1177) deletes all that to_pages made, those that fill gaps included:
\* none is left that points into a table that is gone.
DeletesAllPages == phase = "deleted" => pages = {}
==============================================================================
