--------------------------- MODULE ProfilerProofs ---------------------------
(***************************************************************************)
(* Proofs about Profiler, for all executables, mappings and map sizes.     *)
(*                                                                         *)
(* The tables (NativeUnwindState): what is known is loaded even when       *)
(* writes fail half way, and the outer map only overflows once such a      *)
(* write has left a table behind.                                          *)
(*                                                                         *)
(* The processes: RecordInv relates the mappings of the operating system,  *)
(* the recorded processes, the trie, the events on their way and the       *)
(* handler under way.  What a handler finds in an event or in its own      *)
(* state was recorded before and is recorded still, for the mappings of a  *)
(* recorded process never change and no entry of `procs` or `object_files` *)
(* ever goes away.                                                         *)
(***************************************************************************)
EXTENDS Profiler, FiniteSetTheorems, TLAPS

-----------------------------------------------------------------------------
(* Sequences.                                                              *)

LEMMA LenProperties ==
    ASSUME NEW S, NEW s \in Seq(S)
    PROVE  Len(s) \in Nat /\ s \in [1..Len(s) -> S] /\ DOMAIN s = 1..Len(s)
OBVIOUS

LEMMA AppendProperties ==
    ASSUME NEW S, NEW s \in Seq(S), NEW x \in S
    PROVE  /\ Append(s, x) \in Seq(S) /\ Append(s, x) # <<>> /\ Len(Append(s, x)) = Len(s) + 1
           /\ \A i \in 1..Len(s) : Append(s, x)[i] = s[i]
           /\ Append(s, x)[Len(s) + 1] = x
OBVIOUS

LEMMA SeqMonotonic ==
    ASSUME NEW S, NEW T, S \subseteq T
    PROVE  Seq(S) \subseteq Seq(T)
OBVIOUS

LEMMA HeadTailProperties ==
    ASSUME NEW S, NEW s \in Seq(S), s # <<>>
    PROVE  /\ Head(s) \in S /\ Tail(s) \in Seq(S) /\ Len(Tail(s)) = Len(s) - 1
           /\ \A i \in 1..Len(Tail(s)) : Tail(s)[i] = s[i + 1]
OBVIOUS

LEMMA EmptySeq ==
    ASSUME NEW S
    PROVE  <<>> \in Seq(S) /\ Len(<<>>) = 0 /\ \A s \in Seq(S) : s # <<>> => Len(s) \in Nat \ {0}
OBVIOUS

-----------------------------------------------------------------------------
\* Stamps stay natural numbers, whatever is dropped or stamped.
LEMMA DropType ==
    ASSUME NEW f, NEW S, IsFiniteSet(DOMAIN f)
    PROVE  /\ DOMAIN Drop(f, S) = DOMAIN f \ S
           /\ Drop(f, S) \in [DOMAIN f \ S -> Nat]
<1>1. ASSUME NEW x
      PROVE  Cardinality({y \in DOMAIN f \ S : f[y] < f[x]}) \in Nat
    <2>1. {y \in DOMAIN f \ S : f[y] < f[x]} \in SUBSET DOMAIN f
        OBVIOUS
    <2>2. QED
        BY <2>1, FS_Subset, FS_CardinalityType
<1>2. QED
    BY <1>1 DEF Drop

LEMMA StampType ==
    ASSUME NEW f, NEW S, IsFiniteSet(DOMAIN f)
    PROVE  /\ DOMAIN Stamp(f, S) = DOMAIN f \cup S
           /\ Stamp(f, S) \in [DOMAIN f \cup S -> Nat]
<1>1. Cardinality(DOMAIN f \ S) \in Nat
    BY FS_Difference, FS_CardinalityType, Zenon
<1>2. \A x \in DOMAIN f \ S : Drop(f, S)[x] \in Nat
    BY DropType, Zenon
<1>3. QED
    BY <1>1, <1>2 DEF Stamp

\* A table written after an eviction adds its executable to those that are left.
LEMMA WriteStamps ==
    ASSUME NEW e, NEW V, IsFiniteSet(DOMAIN known_executables)
    PROVE  DOMAIN Stamp(Drop(known_executables, V), {e}) = (DOMAIN known_executables \ V) \cup {e}
<1>. DEFINE f == Drop(known_executables, V)
<1>1. DOMAIN f = DOMAIN known_executables \ V
    BY DropType, Zenon
<1>2. IsFiniteSet(DOMAIN f)
    BY <1>1, FS_Difference, Zenon
<1>. HIDE DEF f
<1>3. DOMAIN Stamp(f, {e}) = DOMAIN f \cup {e}
    BY <1>2, StampType, Zenon
<1>4. QED
    BY <1>1, <1>3 DEF f

\* Victims are loaded executables.
LEMMA VictimsAreKnown ==
    ASSUME NEW n, NEW V \in Victims(n)
    PROVE  V \subseteq DOMAIN known_executables
BY DEF Victims, LeastRecentlyUsed

-----------------------------------------------------------------------------
\* The inductive invariant of the loaded tables.
TablesInv == UnwindTypeOK /\ KnownIsLoaded /\ PagesHaveTables

\* Evicting or deleting tables keeps the three structures in step.
LEMMA EvictKeepsTables ==
    ASSUME TablesInv, NEW V, EvictTables(V),
           evicted_lately' \in BOOLEAN, panicked' \in BOOLEAN
    PROVE  TablesInv'
<1>. USE TablesAssumption
<1>0. IsFiniteSet(DOMAIN known_executables)
    BY FS_Subset DEF TablesInv, UnwindTypeOK
<1>1. /\ DOMAIN known_executables' = DOMAIN known_executables \ V
      /\ known_executables' \in [DOMAIN known_executables \ V -> Nat]
    BY <1>0, DropType, Zenon DEF EvictTables
<1>2. UnwindTypeOK'
    BY <1>1 DEF TablesInv, UnwindTypeOK, EvictTables, PagesOf, AllPages
<1>3. KnownIsLoaded'
    BY <1>1 DEF TablesInv, KnownIsLoaded, EvictTables, PagesOf, AllPages
<1>4. PagesHaveTables'
    BY DEF TablesInv, PagesHaveTables, EvictTables, PagesOf
<1>5. QED
    BY <1>2, <1>3, <1>4 DEF TablesInv

\* Writing a table, whether or not it is written whole, keeps them in step.
LEMMA WriteKeepsTables ==
    ASSUME TablesInv, NEW e \in ExecutableId, NEW V \in SUBSET (DOMAIN known_executables),
           NEW ok \in BOOLEAN, e \notin DOMAIN known_executables, WriteTable(e, V, ok),
           evicted_lately' \in BOOLEAN, panicked' \in BOOLEAN
    PROVE  TablesInv'
<1>. USE TablesAssumption
<1>0. IsFiniteSet(DOMAIN known_executables)
    BY FS_Subset DEF TablesInv, UnwindTypeOK
<1>a. IsFiniteSet(DOMAIN known_executables \ V)
    BY <1>0, FS_Difference, Zenon
<1>1. /\ DOMAIN Drop(known_executables, V) = DOMAIN known_executables \ V
      /\ Drop(known_executables, V) \in [DOMAIN known_executables \ V -> Nat]
      /\ IsFiniteSet(DOMAIN Drop(known_executables, V))
    BY <1>0, <1>a, DropType, Zenon
<1>2. /\ DOMAIN known_executables' =
             (DOMAIN known_executables \ V) \cup (IF ok THEN {e} ELSE {})
      /\ known_executables' \in [DOMAIN known_executables' -> Nat]
    BY <1>1, StampType, Zenon DEF WriteTable
<1>3. /\ executable_to_page \ PagesOf(V) \subseteq executable_to_page'
      /\ executable_to_page' \subseteq (executable_to_page \ PagesOf(V)) \cup AllPages(e)
    BY Zenon DEF WriteTable, PagesWritten
<1>4. ok => AllPages(e) \subseteq executable_to_page'
    BY Zenon DEF WriteTable
<1>5. outer_map' = (outer_map \ V) \cup {e}
    BY DEF WriteTable
<1>6. UnwindTypeOK'
    BY <1>2, <1>3, <1>5 DEF TablesInv, UnwindTypeOK, AllPages
<1>7. KnownIsLoaded'
    BY <1>2, <1>3, <1>4, <1>5 DEF TablesInv, KnownIsLoaded, PagesOf, AllPages
<1>8. PagesHaveTables'
    <2>1. ASSUME NEW page \in executable_to_page' PROVE page[1] \in outer_map'
        <3>1. CASE page \in AllPages(e)
            BY <3>1, <1>5 DEF AllPages
        <3>2. CASE page \in executable_to_page \ PagesOf(V)
            BY <3>2, <1>5 DEF TablesInv, UnwindTypeOK, PagesHaveTables, PagesOf
        <3>3. QED
            BY <2>1, <1>3, <3>1, <3>2
    <2>2. QED
        BY <2>1 DEF PagesHaveTables
<1>9. QED
    BY <1>6, <1>7, <1>8 DEF TablesInv

LEMMA TablesInit == UnwindInit => TablesInv
BY Zenon DEF UnwindInit, TablesInv, UnwindTypeOK, KnownIsLoaded, PagesHaveTables

LEMMA TablesNext == TablesInv /\ [UnwindNext]_unwindVars => TablesInv'
<1>. SUFFICES ASSUME TablesInv, [UnwindNext]_unwindVars PROVE TablesInv'
    OBVIOUS
<1>. USE TablesAssumption
<1>1. CASE UNCHANGED unwindVars
    BY <1>1 DEF unwindVars, TablesInv, UnwindTypeOK, KnownIsLoaded, PagesHaveTables, AllPages
<1>2. ASSUME NEW e \in ExecutableId, NEW ok \in BOOLEAN, AddUnwindInformation(e, ok)
      PROVE  TablesInv'
    <2>1. CASE AlreadyLoaded(e, ok) \/ FetchFails(e, ok) \/ EvictionRefused(e, ok)
        BY <1>1, <2>1 DEF AlreadyLoaded, FetchFails, EvictionRefused
    <2>2. CASE EvictAndAdd(e, ok)
        <3>1. PICK V \in Victims(Rows[e]) :
                LET accepted == Rows[e] \in 1..MAX_UNWIND_INFO_SIZE
                    fits == Cardinality((outer_map \ V) \cup {e}) <= MAX_OUTER_UNWIND_MAP_ENTRIES
                IN  /\ evicted_lately' = (evicted_lately \/ V # {})
                    /\ panicked' = (accepted /\ ~fits)
                    /\ IF accepted /\ fits
                       THEN WriteTable(e, V, ok)
                       ELSE ~ok /\ EvictTables(V)
            BY <2>2, Zenon DEF EvictAndAdd
        <3>2. evicted_lately' \in BOOLEAN /\ panicked' \in BOOLEAN
            BY <3>1
        <3>3. CASE WriteTable(e, V, ok)
            BY <2>2, <3>2, <3>3, VictimsAreKnown, WriteKeepsTables DEF EvictAndAdd
        <3>4. CASE EvictTables(V)
            BY <3>2, <3>4, EvictKeepsTables
        <3>5. QED
            BY <3>1, <3>3, <3>4
    <2>3. QED
        BY <1>2, <2>1, <2>2 DEF AddUnwindInformation
<1>3. ASSUME NEW S \in SUBSET (DOMAIN known_executables), DeleteTables(S)
      PROVE  TablesInv'
    BY <1>3, EvictKeepsTables DEF DeleteTables, TablesInv, UnwindTypeOK
<1>4. ASSUME NEW S \in SUBSET (DOMAIN known_executables), BumpExecutables(S)
      PROVE  TablesInv'
    <2>1. IsFiniteSet(DOMAIN known_executables)
        BY FS_Subset DEF TablesInv, UnwindTypeOK
    <2>a. DOMAIN known_executables \cup (S \cap DOMAIN known_executables) = DOMAIN known_executables
        OBVIOUS
    <2>b. known_executables' = Stamp(known_executables, S \cap DOMAIN known_executables)
        BY <1>4 DEF BumpExecutables
    <2>2. /\ DOMAIN known_executables' = DOMAIN known_executables
          /\ known_executables' \in [DOMAIN known_executables -> Nat]
        BY <2>1, <2>a, <2>b, StampType, Zenon
    <2>3. QED
        BY <1>4, <2>2, Zenon
        DEF BumpExecutables, TablesInv, UnwindTypeOK, KnownIsLoaded, PagesHaveTables, AllPages
<1>5. CASE ExecutableCooldown
    BY <1>5, Zenon DEF ExecutableCooldown, TablesInv, UnwindTypeOK, KnownIsLoaded, PagesHaveTables, AllPages
<1>6. QED
    BY <1>1, <1>2, <1>3, <1>4, <1>5 DEF UnwindNext

\* Types of the loaded tables, for every set of executables.
THEOREM UnwindTypeCorrect == UnwindSpec => []UnwindTypeOK
BY TablesInit, TablesNext, PTL DEF UnwindSpec, TablesInv

\* Partial writes included (a full page map or a failing mmap), an executable
\* user space holds as loaded has its table and all of its pages in the BPF
\* maps: is_known may skip loading.
THEOREM KnownIsAlwaysLoaded == UnwindSpec => []KnownIsLoaded
BY TablesInit, TablesNext, PTL DEF UnwindSpec, TablesInv

\* No eviction, deletion or partial write leaves a page whose table is gone.
THEOREM PagesAlwaysHaveTables == UnwindSpec => []PagesHaveTables
BY TablesInit, TablesNext, PTL DEF UnwindSpec, TablesInv

-----------------------------------------------------------------------------
\* When the outer map is full at least one executable is evicted.
LEMMA FullEvicts ==
    ASSUME UnwindTypeOK, is_outer_map_full, NEW n \in Nat, NEW V \in Victims(n)
    PROVE  V # {}
<1>. USE TablesAssumption
<1>1. IsFiniteSet(DOMAIN known_executables) /\ Cardinality(DOMAIN known_executables) \in Nat
    BY FS_Subset, FS_CardinalityType DEF UnwindTypeOK
<1>2. \A k \in Nat : unwind_info_size_mb(k) \in Nat
    BY DEF unwind_info_size_mb
<1>3. unwind_info_memory_usage \in Nat
    <2>. DEFINE Cells == (DOMAIN known_executables) \X (1..unwind_info_size_mb(MAX_UNWIND_INFO_SIZE))
                Used == {p \in Cells : p[2] <= unwind_info_size_mb(Rows[p[1]])}
    <2>1. IsFiniteSet(1..unwind_info_size_mb(MAX_UNWIND_INFO_SIZE))
        BY <1>2, FS_Interval
    <2>2. IsFiniteSet(Cells)
        BY <1>1, <2>1, FS_Product, Zenon
    <2>3. Used \in SUBSET Cells
        OBVIOUS
    <2>4. Cardinality(Used) \in Nat
        BY <2>2, <2>3, FS_Subset, FS_CardinalityType
    <2>5. QED
        BY <2>4 DEF unwind_info_memory_usage
<1>4. ToFreeMb(n) \in Nat
    BY <1>2, <1>3 DEF ToFreeMb
<1>5. EvictionCount(n) \in Nat \ {0}
    <2>1. ASSUME unwind_info_size_mb(n) # 0, ToFreeMb(n) # 0
          PROVE  (ToFreeMb(n) + unwind_info_size_mb(n) - 1) \div unwind_info_size_mb(n) \in Nat
        BY <1>2, <1>4, <2>1
    <2>2. QED
        BY <1>1, <1>2, <1>4, <2>1 DEF EvictionCount
<1>6. Cardinality(V) # 0
    BY <1>1, <1>5 DEF Victims, LeastRecentlyUsed, is_outer_map_full
<1>7. QED
    BY <1>6, FS_EmptySet

\* So there is room for one more table next to those that stay known.
LEMMA EvictionMakesRoom ==
    ASSUME UnwindTypeOK, Cardinality(DOMAIN known_executables) <= MAX_OUTER_UNWIND_MAP_ENTRIES,
           NEW e \in ExecutableId, NEW V \in Victims(Rows[e]), e \notin DOMAIN known_executables
    PROVE  Cardinality((DOMAIN known_executables \ V) \cup {e}) <= MAX_OUTER_UNWIND_MAP_ENTRIES
<1>. USE TablesAssumption
<1>. DEFINE K == DOMAIN known_executables
<1>1. IsFiniteSet(K) /\ Cardinality(K) \in Nat
    BY FS_Subset, FS_CardinalityType DEF UnwindTypeOK
<1>2. V \in SUBSET K
    BY VictimsAreKnown
<1>3. /\ IsFiniteSet(K \ V) /\ Cardinality(K \ V) \in Nat
      /\ Cardinality(K \ V) <= Cardinality(K)
      /\ Cardinality(K) = Cardinality(K \ V) => K = K \ V
    <2>1. K \ V \in SUBSET K
        OBVIOUS
    <2>2. QED
        BY <1>1, <2>1, FS_Subset, FS_CardinalityType
<1>4. Cardinality((K \ V) \cup {e}) = Cardinality(K \ V) + 1
    BY <1>3, FS_AddElement, Zenon
<1>5. Rows[e] \in Nat
    OBVIOUS
<1>6. CASE is_outer_map_full
    <2>1. V # {}
        BY <1>5, <1>6, FullEvicts
    <2>2. K # K \ V
        BY <1>2, <2>1
    <2>3. QED
        BY <1>1, <1>3, <1>4, <2>2
<1>7. CASE ~is_outer_map_full
    <2>1. Cardinality(K) < MAX_OUTER_UNWIND_MAP_ENTRIES
        BY <1>1, <1>7 DEF is_outer_map_full
    <2>2. QED
        BY <1>1, <1>3, <1>4, <2>1
<1>8. QED
    BY <1>6, <1>7

\* The inductive invariant of the outer map's entries.
EntriesInv ==
    /\ TablesInv
    /\ Cardinality(DOMAIN known_executables) <= MAX_OUTER_UNWIND_MAP_ENTRIES
    /\ PanicMeansForgotten

LEMMA EntriesInit == UnwindInit => EntriesInv
<1>. SUFFICES ASSUME UnwindInit PROVE EntriesInv
    OBVIOUS
<1>1. DOMAIN known_executables = {}
    BY DEF UnwindInit
<1>2. QED
    BY <1>1, TablesInit, FS_EmptySet, TablesAssumption
    DEF UnwindInit, EntriesInv, PanicMeansForgotten

LEMMA EntriesNext == EntriesInv /\ [UnwindNext]_unwindVars => EntriesInv'
<1>. SUFFICES ASSUME EntriesInv, [UnwindNext]_unwindVars PROVE EntriesInv'
    OBVIOUS
<1>. USE TablesAssumption
<1>. DEFINE K == DOMAIN known_executables
<1>1. TablesInv'
    BY TablesNext DEF EntriesInv
<1>2. IsFiniteSet(K) /\ Cardinality(K) \in Nat /\ K \subseteq outer_map /\ UnwindTypeOK
    BY FS_Subset, FS_CardinalityType DEF EntriesInv, TablesInv, UnwindTypeOK, KnownIsLoaded
<1>3. ASSUME UNCHANGED <<K, outer_map, panicked>> PROVE EntriesInv'
    BY <1>1, <1>3 DEF EntriesInv, PanicMeansForgotten, TablesAreKnown
<1>4. ASSUME NEW V, EvictTables(V)
      PROVE  K' = K \ V /\ Cardinality(K') <= MAX_OUTER_UNWIND_MAP_ENTRIES
    <2>1. K' = K \ V
        BY <1>2, <1>4, DropType, Zenon DEF EvictTables
    <2>2. K \ V \in SUBSET K
        OBVIOUS
    <2>3. Cardinality(K \ V) <= Cardinality(K) /\ Cardinality(K \ V) \in Nat
        BY <1>2, <2>2, FS_Subset, FS_CardinalityType
    <2>4. QED
        BY <1>2, <2>1, <2>3 DEF EntriesInv
<1>5. ASSUME NEW e \in ExecutableId, NEW ok \in BOOLEAN, EvictAndAdd(e, ok)
      PROVE  EntriesInv'
    <2>1. PICK V \in Victims(Rows[e]) :
            LET accepted == Rows[e] \in 1..MAX_UNWIND_INFO_SIZE
                fits == Cardinality((outer_map \ V) \cup {e}) <= MAX_OUTER_UNWIND_MAP_ENTRIES
            IN  /\ evicted_lately' = (evicted_lately \/ V # {})
                /\ panicked' = (accepted /\ ~fits)
                /\ IF accepted /\ fits
                   THEN WriteTable(e, V, ok)
                   ELSE ~ok /\ EvictTables(V)
        BY <1>5, Zenon DEF EvictAndAdd
    <2>2. e \notin K /\ V \in SUBSET K
        BY <1>5, VictimsAreKnown DEF EvictAndAdd
    <2>3. CASE Cardinality((outer_map \ V) \cup {e}) <= MAX_OUTER_UNWIND_MAP_ENTRIES /\ WriteTable(e, V, ok)
        <3>1. DOMAIN Drop(known_executables, V) = K \ V /\ IsFiniteSet(K \ V)
            BY <1>2, DropType, FS_Difference, Zenon
        <3>2. K' = K \ V \/ K' = (K \ V) \cup {e}
            <4>1. CASE ok
                <5>1. known_executables' = Stamp(Drop(known_executables, V), {e})
                    BY <2>3, <4>1 DEF WriteTable
                <5>2. DOMAIN Stamp(Drop(known_executables, V), {e}) = (K \ V) \cup {e}
                    BY <1>2, WriteStamps, Zenon
                <5>3. QED
                    BY <5>1, <5>2
            <4>2. CASE ~ok
                BY <2>3, <3>1, <4>2 DEF WriteTable
            <4>3. QED
                BY <4>1, <4>2
        <3>3. K' \in SUBSET ((outer_map \ V) \cup {e}) /\ IsFiniteSet((outer_map \ V) \cup {e})
            BY <1>2, <3>2, FS_Subset, FS_Difference, FS_AddElement DEF UnwindTypeOK
        <3>4. Cardinality(K') <= MAX_OUTER_UNWIND_MAP_ENTRIES
            BY <2>3, <3>3, FS_Subset, FS_CardinalityType
        <3>5. ~panicked'
            BY <2>1, <2>3, Zenon
        <3>6. QED
            BY <1>1, <3>4, <3>5 DEF EntriesInv, PanicMeansForgotten
    <2>4. CASE EvictTables(V)
        <3>1. K' = K \ V /\ Cardinality(K') <= MAX_OUTER_UNWIND_MAP_ENTRIES
            BY <1>4, <2>4, Zenon
        <3>2. ASSUME panicked', TablesAreKnown' PROVE FALSE
            <4>1. outer_map \ V = K \ V
                BY <1>2, <2>4, <3>1, <3>2 DEF TablesAreKnown, EvictTables
            <4>2. Cardinality((outer_map \ V) \cup {e}) <= MAX_OUTER_UNWIND_MAP_ENTRIES
                BY <1>2, <2>2, <4>1, EvictionMakesRoom DEF EntriesInv
            <4>3. QED
                BY <2>1, <3>2, <4>2, Zenon
        <3>3. QED
            BY <1>1, <3>1, <3>2 DEF EntriesInv, PanicMeansForgotten
    <2>5. QED
        BY <2>1, <2>3, <2>4
<1>6. ASSUME NEW S \in SUBSET K, BumpExecutables(S) PROVE EntriesInv'
    <2>1. K \cup (S \cap K) = K
        OBVIOUS
    <2>2. known_executables' = Stamp(known_executables, S \cap K)
        BY <1>6 DEF BumpExecutables
    <2>3. K' = K
        BY <1>2, <2>1, <2>2, StampType
    <2>4. QED
        BY <1>3, <1>6, <2>3 DEF BumpExecutables
<1>7. ASSUME NEW S \in SUBSET K, DeleteTables(S), ~panicked PROVE EntriesInv'
    BY <1>1, <1>4, <1>7, Zenon DEF DeleteTables, EntriesInv, PanicMeansForgotten
<1>8. QED
    BY <1>3, <1>5, <1>6, <1>7
    DEF UnwindNext, unwindVars, AddUnwindInformation, AlreadyLoaded, FetchFails,
        EvictionRefused, ExecutableCooldown

\* However writes fail, the unwrap() of the outer map's update only panics when
\* the outer map holds a table that user space has forgotten: counting known
\* executables and evicting one when they fill the map is otherwise enough.
THEOREM PanicsOnlyWhenForgotten == UnwindSpec => []PanicMeansForgotten
BY EntriesInit, EntriesNext, PTL DEF UnwindSpec, EntriesInv

-----------------------------------------------------------------------------
\* No write fails: mmap works and the page map has room for every table.
NoWriteFails ==
    /\ ~MmapMayFail
    /\ Cardinality(UNION {AllPages(e) : e \in ExecutableId}) <= MAX_EXECUTABLE_TO_PAGE_ENTRIES

LEMMA PagesFinite ==
    /\ \A e \in ExecutableId : IsFiniteSet(AllPages(e))
    /\ IsFiniteSet(UNION {AllPages(e) : e \in ExecutableId})
<1>. USE TablesAssumption
<1>1. ASSUME NEW e \in ExecutableId PROVE IsFiniteSet(AllPages(e))
    <2>1. IsFiniteSet(1..Pages[e])
        BY FS_Interval
    <2>2. [i \in 1..Pages[e] |-> <<e, i>>] \in Surjection(1..Pages[e], AllPages(e))
        BY Zenon DEF Surjection, AllPages
    <2>3. QED
        BY <2>1, <2>2, FS_Surjection
<1>2. [e \in ExecutableId |-> AllPages(e)]
          \in Surjection(ExecutableId, {AllPages(e) : e \in ExecutableId})
    BY DEF Surjection
<1>3. IsFiniteSet({AllPages(e) : e \in ExecutableId})
    BY <1>2, FS_Surjection
<1>4. \A T \in {AllPages(e) : e \in ExecutableId} : IsFiniteSet(T)
    BY <1>1
<1>5. QED
    BY <1>1, <1>3, <1>4, FS_UNION, Zenon

\* Under NoWriteFails a table that is added is added whole.
LEMMA WholeTableWritten ==
    ASSUME TablesInv, NoWriteFails, NEW e \in ExecutableId, NEW V \in SUBSET (DOMAIN known_executables),
           NEW ok \in BOOLEAN, e \notin DOMAIN known_executables, WriteTable(e, V, ok)
    PROVE  ok
<1>. USE TablesAssumption
<1>. DEFINE All == UNION {AllPages(x) : x \in ExecutableId}
            kept == executable_to_page \ PagesOf(V)
            missing == AllPages(e) \ executable_to_page
            free == MAX_EXECUTABLE_TO_PAGE_ENTRIES - Cardinality(kept)
<1>1. IsFiniteSet(All) /\ kept \in SUBSET All /\ missing \in SUBSET All /\ kept \cap missing = {}
    BY PagesFinite DEF TablesInv, UnwindTypeOK
<1>2. /\ IsFiniteSet(kept) /\ IsFiniteSet(missing)
      /\ Cardinality(kept) \in Nat /\ Cardinality(missing) \in Nat /\ Cardinality(All) \in Nat
    BY <1>1, FS_Subset, FS_CardinalityType
<1>3. Cardinality(kept \cup missing) = Cardinality(kept) + Cardinality(missing)
    <2>1. Cardinality(kept \cup missing) =
             Cardinality(kept) + Cardinality(missing) - Cardinality(kept \cap missing)
        BY <1>2, FS_Union
    <2>2. Cardinality(kept \cap missing) = 0
        BY <1>1, FS_EmptySet, Zenon
    <2>3. QED
        BY <1>2, <2>1, <2>2
<1>4. Cardinality(kept \cup missing) <= Cardinality(All)
    <2>1. kept \cup missing \in SUBSET All
        BY <1>1
    <2>2. QED
        BY <1>1, <2>1, FS_Subset
<1>5. Cardinality(missing) <= free
    BY <1>2, <1>3, <1>4 DEF NoWriteFails
<1>6. PagesWritten(e, free) = missing
    <2>1. ASSUME NEW p \in missing
          PROVE  Cardinality({q \in missing : q[2] <= p[2]}) <= free
        <3>. DEFINE Before == {q \in missing : q[2] <= p[2]}
        <3>1. Before \in SUBSET missing
            OBVIOUS
        <3>2. Cardinality(Before) <= Cardinality(missing) /\ Cardinality(Before) \in Nat
            BY <1>2, <3>1, FS_Subset, FS_CardinalityType
        <3>. HIDE DEF Before, missing, kept
        <3>3. Cardinality(Before) <= free
            BY <1>2, <1>5, <3>2
        <3>4. QED
            BY <3>3, Zenon DEF Before
    <2>2. QED
        BY <2>1, Zenon DEF PagesWritten
<1>7. AllPages(e) \subseteq kept \cup PagesWritten(e, free)
    BY <1>6 DEF PagesOf, AllPages
<1>8. QED
    BY <1>7, Zenon DEF WriteTable, NoWriteFails

\* The inductive invariant when no write fails: user space knows every table,
\* so that counting known executables counts the entries in use.
RoomInv == EntriesInv /\ TablesAreKnown

LEMMA RoomInit == UnwindInit => RoomInv
BY EntriesInit DEF UnwindInit, RoomInv, TablesAreKnown

LEMMA RoomNext == NoWriteFails /\ RoomInv /\ [UnwindNext]_unwindVars => RoomInv'
<1>. SUFFICES ASSUME NoWriteFails, RoomInv, [UnwindNext]_unwindVars PROVE TablesAreKnown'
    BY EntriesNext DEF RoomInv
<1>. USE TablesAssumption
<1>. DEFINE K == DOMAIN known_executables
<1>1. IsFiniteSet(K) /\ outer_map \subseteq K
    BY FS_Subset DEF RoomInv, EntriesInv, TablesInv, UnwindTypeOK, TablesAreKnown
<1>2. ASSUME UNCHANGED <<K, outer_map>> PROVE TablesAreKnown'
    BY <1>1, <1>2 DEF TablesAreKnown
<1>3. ASSUME NEW V, EvictTables(V) PROVE TablesAreKnown'
    <2>1. K' = K \ V
        BY <1>1, <1>3, DropType, Zenon DEF EvictTables
    <2>2. QED
        BY <1>1, <1>3, <2>1 DEF TablesAreKnown, EvictTables
<1>4. ASSUME NEW e \in ExecutableId, NEW ok \in BOOLEAN, EvictAndAdd(e, ok)
      PROVE  TablesAreKnown'
    <2>1. PICK V \in Victims(Rows[e]) : WriteTable(e, V, ok) \/ EvictTables(V)
        BY <1>4 DEF EvictAndAdd
    <2>2. e \notin K /\ V \in SUBSET K
        BY <1>4, VictimsAreKnown DEF EvictAndAdd
    <2>3. CASE WriteTable(e, V, ok)
        <3>1. ok
            BY <2>2, <2>3, WholeTableWritten DEF RoomInv, EntriesInv
        <3>2. known_executables' = Stamp(Drop(known_executables, V), {e})
            BY <2>3, <3>1 DEF WriteTable
        <3>3. K' = (K \ V) \cup {e}
            BY <1>1, <3>2, WriteStamps, Zenon
        <3>4. QED
            BY <1>1, <2>3, <3>3, Zenon DEF TablesAreKnown, WriteTable
    <2>4. QED
        BY <1>3, <2>1, <2>3
<1>5. ASSUME NEW S \in SUBSET K, BumpExecutables(S) PROVE TablesAreKnown'
    <2>1. K \cup (S \cap K) = K
        OBVIOUS
    <2>2. known_executables' = Stamp(known_executables, S \cap K)
        BY <1>5 DEF BumpExecutables
    <2>3. K' = K
        BY <1>1, <2>1, <2>2, StampType, Zenon
    <2>4. QED
        BY <1>2, <1>5, <2>3 DEF BumpExecutables
<1>6. QED
    BY <1>2, <1>3, <1>4, <1>5
    DEF UnwindNext, unwindVars, AddUnwindInformation, AlreadyLoaded, FetchFails,
        EvictionRefused, DeleteTables, ExecutableCooldown

\* If no write fails, user space knows every table in the outer map.
THEOREM TablesAlwaysKnown ==
    ASSUME NoWriteFails
    PROVE  UnwindSpec => []TablesAreKnown
<1>1. RoomInv /\ [UnwindNext]_unwindVars => RoomInv'
    BY RoomNext
<1>2. RoomInv => TablesAreKnown
    BY DEF RoomInv
<1>3. QED
    BY <1>1, <1>2, RoomInit, PTL DEF UnwindSpec

\* If no write fails, the entry that maybe_evict_executables frees is always
\* enough: the outer map's update never fails and its unwrap() never panics.
THEOREM NeverPanics ==
    ASSUME NoWriteFails
    PROVE  UnwindSpec => []~panicked
<1>1. RoomInv /\ [UnwindNext]_unwindVars => RoomInv'
    BY RoomNext
<1>2. RoomInv => ~panicked
    BY DEF RoomInv, EntriesInv, PanicMeansForgotten
<1>3. QED
    BY <1>1, <1>2, RoomInit, PTL DEF UnwindSpec

-----------------------------------------------------------------------------

HasFile(m) == m.kind # "Anonymous" => m.exe \in DOMAIN object_files

OsInv ==
    /\ DOMAIN os \subseteq Pid
    /\ \A p \in DOMAIN os : os[p] \subseteq ExecMapping /\ Disjoint(os[p])

ProcessRecord == [status : {"Running", "Exited"}, mappings : SUBSET ExecMapping, deleted : SUBSET ExecMapping]

ProcsInv ==
    /\ DOMAIN procs \subseteq Pid \cup {KERNEL_PID}
    /\ procs \in [DOMAIN procs -> ProcessRecord]
    /\ \A p \in DOMAIN procs : Disjoint(procs[p].mappings)
    /\ \A p \in DOMAIN procs : \A m \in procs[p].mappings : HasFile(m)

TrieInv ==
    /\ exec_mappings \subseteq Pid \X (ExecMapping \cup {ProcessEntry})
    /\ \A x \in exec_mappings :
        /\ x[1] \in DOMAIN procs
        /\ x[2] = ProcessEntry \/ x[2] \in procs[x[1]].mappings

Needed ==
    {e \in [type : {"NEED_UNWIND_INFO"}, pid : Pid, address : Nat] :
        /\ e.pid \in DOMAIN procs
        /\ \E m \in procs[e.pid].mappings : m.kind # "Anonymous" /\ Contains(m, e.address)}
NewProcEvents == [type : {"NEW_PROCESS"}, pid : Pid] \cup Needed
TracerEvents ==
    [type : {"ProcessExit"}, pid : Pid] \cup [type : {"Munmap"}, pid : Pid, start_address : Nat]

ChanInv == new_proc_chan \in Seq(NewProcEvents) /\ tracers_chan \in Seq(TracerEvents)

AddTasks ==
    {t \in [op : {"add"}, pid : Pid, maps : SUBSET ExecMapping] :
        t.pid \notin DOMAIN procs /\ Disjoint(t.maps)}
LoadTasks ==
    {t \in [op : {"load"}, pid : Pid, todo : SUBSET ExecMapping] :
        t.pid \in DOMAIN procs /\ \A m \in t.todo : m.kind # "Anonymous"}
PublishTasks == {t \in [op : {"publish", "cleanup"}, pid : Pid] : t.pid \in DOMAIN procs}

TaskInv == task \in {Select, [op |-> "evict"]} \cup AddTasks \cup LoadTasks \cup PublishTasks

RecordInv == OsInv /\ ProcsInv /\ TrieInv /\ ChanInv /\ TaskInv

\* The task is told by its op.
LEMMA TaskKinds ==
    ASSUME RecordInv
    PROVE  /\ task.op = "add" => task \in AddTasks
           /\ task.op = "load" => task \in LoadTasks
           /\ task.op \in {"publish", "cleanup"} => task \in PublishTasks
<1>1. CASE task = Select \/ task = [op |-> "evict"]
    BY <1>1 DEF Select
<1>2. CASE task \in AddTasks
    <2>1. task.op = "add"
        BY <1>2 DEF AddTasks
    <2> QED
        BY <1>2, <2>1
<1>3. CASE task \in LoadTasks
    <2>1. task.op = "load"
        BY <1>3 DEF LoadTasks
    <2> QED
        BY <1>3, <2>1
<1>4. CASE task \in PublishTasks
    <2>1. task.op \in {"publish", "cleanup"}
        BY <1>4 DEF PublishTasks
    <2> QED
        BY <1>4, <2>1
<1> QED
    BY <1>1, <1>2, <1>3, <1>4 DEF RecordInv, TaskInv

-----------------------------------------------------------------------------
\* What no handler undoes: recorded processes keep their mappings, and object
\* files stay.
Grows ==
    /\ DOMAIN procs \subseteq DOMAIN procs'
    /\ \A p \in DOMAIN procs : procs'[p].mappings = procs[p].mappings
    /\ DOMAIN object_files \subseteq DOMAIN object_files'

\* Events that were meaningful when they were sent still are when they are handled.
LEMMA EventsStay ==
    ASSUME Grows
    PROVE  NewProcEvents \subseteq NewProcEvents'
BY DEF Grows, NewProcEvents, Needed, Contains

LEMMA RecordInit == Init => RecordInv
<1> SUFFICES ASSUME Init PROVE RecordInv
    OBVIOUS
<1>1. KernelMapping \in ExecMapping
    BY ProfilerAssumption DEF KernelMapping, Mapping, ExecMapping
<1>2. OsInv
    BY DEF Init, OsInv
<1>3. ProcsInv
    <2>1. KernelMapping.exe = KernelExecutable
        BY DEF KernelMapping, Mapping
    <2>2. /\ DOMAIN procs = {KERNEL_PID} /\ procs \in [{KERNEL_PID} -> ProcessRecord]
          /\ procs[KERNEL_PID].mappings = {KernelMapping}
          /\ DOMAIN object_files = {KernelExecutable}
        BY <1>1 DEF Init, ProcessRecord
    <2> QED
        BY <2>1, <2>2 DEF ProcsInv, Disjoint, HasFile
<1>4. TrieInv /\ TaskInv
    BY DEF Init, TrieInv, TaskInv
<1>5. ChanInv
    BY EmptySeq DEF Init, ChanInv
<1> QED
    BY <1>2, <1>3, <1>4, <1>5 DEF RecordInv

-----------------------------------------------------------------------------
\* Soft deletion.

\* What mark_as_deleted leaves: the mappings of every process, fewer entries in the
\* trie but all those of mappings that are not deleted, and tables deleted that were
\* known.  No process begins to run.
Deletes ==
    /\ DOMAIN procs' = DOMAIN procs
    /\ \A p \in DOMAIN procs : procs'[p].mappings = procs[p].mappings
    /\ procs' \in [DOMAIN procs -> ProcessRecord]
    /\ DOMAIN object_files' = DOMAIN object_files
    /\ exec_mappings' \subseteq exec_mappings
    /\ \A p \in DOMAIN procs : procs'[p].status \in {procs[p].status, "Exited"}
    /\ \A p \in DOMAIN procs : \A m \in procs'[p].mappings \ procs'[p].deleted :
          m \notin procs[p].deleted /\ (<<p, m>> \in exec_mappings => <<p, m>> \in exec_mappings')
    /\ UNCHANGED unwindVars \/ \E S \in SUBSET DOMAIN known_executables : DeleteTables(S)

LEMMA MarkDeletes ==
    ASSUME ProcsInv, NEW p \in DOMAIN procs, NEW S \in SUBSET procs[p].mappings,
           NEW status \in {procs[p].status, "Exited"},
           NEW entries \in SUBSET {<<p, ProcessEntry>>},
           mark_as_deleted(p, S, status, entries)
    PROVE  Deletes
<1> DEFINE newly == NotYetDeleted(p, S)
           gone == {m \in LastReferences(newly) : m.exe \in DOMAIN known_executables}
<1>1. newly \subseteq procs[p].mappings /\ procs[p] \in ProcessRecord /\ procs[p].mappings \subseteq ExecMapping
    BY DEF NotYetDeleted, ProcsInv, ProcessRecord
<1>2. procs' = [procs EXCEPT ![p].deleted = @ \cup newly, ![p].status = status]
    BY DEF mark_as_deleted
<1>3. gone \subseteq newly /\ exec_mappings' = exec_mappings \ ({<<p, m>> : m \in gone} \cup entries)
    BY DEF mark_as_deleted, LastReferences
<1>4. DeleteTables({m.exe : m \in gone}) /\ {m.exe : m \in gone} \subseteq DOMAIN known_executables
    BY DEF mark_as_deleted
<1> HIDE DEF newly, gone
<1>5. /\ DOMAIN procs' = DOMAIN procs
      /\ \A q \in DOMAIN procs : procs'[q].mappings = procs[q].mappings
      /\ procs' \in [DOMAIN procs -> ProcessRecord]
      /\ \A q \in DOMAIN procs : procs'[q].status \in {procs[q].status, "Exited"}
      /\ \A q \in DOMAIN procs : q # p => procs'[q] = procs[q]
      /\ procs'[p].deleted = procs[p].deleted \cup newly
    BY <1>1, <1>2 DEF ProcsInv, ProcessRecord
<1>6. DOMAIN object_files' = DOMAIN object_files
    BY DEF mark_as_deleted, ReleaseAll
<1>7. ASSUME NEW q \in DOMAIN procs, NEW m \in procs'[q].mappings \ procs'[q].deleted
      PROVE  m \notin procs[q].deleted /\ (<<q, m>> \in exec_mappings => <<q, m>> \in exec_mappings')
    <2>1. CASE q # p
        BY <1>3, <1>5, <2>1, Zenon
    <2>2. CASE q = p
        <3>1. m \in ExecMapping /\ m \notin newly /\ m \notin procs[p].deleted
            BY <1>1, <1>5, <2>2
        <3>2. m # ProcessEntry
            BY ONLY <3>1 DEF ExecMapping, ProcessEntry, Mapping
        <3> QED
            BY <1>3, <2>2, <3>1, <3>2
    <2> QED
        BY <2>1, <2>2
<1> QED
    BY <1>3, <1>4, <1>5, <1>6, <1>7 DEF Deletes

LEMMA ExitDeletes ==
    ASSUME ProcsInv, NEW p, handle_process_exit(p)
    PROVE  Deletes
<1>1. CASE p \in DOMAIN procs
    BY <1>1, MarkDeletes, Zenon DEF handle_process_exit
<1>2. CASE p \notin DOMAIN procs
    BY <1>2 DEF handle_process_exit, Deletes, ProcsInv
<1> QED
    BY <1>1, <1>2

LEMMA MunmapDeletes ==
    ASSUME ProcsInv, NEW p, NEW a, handle_munmap(p, a)
    PROVE  Deletes
<1>1. CASE p \in DOMAIN procs
    <2>1. MunmapMatches(p, a) \subseteq procs[p].mappings
        BY <1>1 DEF MunmapMatches, ProcsInv, ProcessRecord
    <2>2. mark_as_deleted(p, MunmapMatches(p, a), procs[p].status, {})
        BY <1>1 DEF handle_munmap
    <2>3. {} \in SUBSET {<<p, ProcessEntry>>} /\ MunmapMatches(p, a) \in SUBSET procs[p].mappings
        BY <2>1
    <2> HIDE DEF MunmapMatches
    <2> QED
        BY <1>1, <2>2, <2>3, MarkDeletes, Zenon
<1>2. CASE p \notin DOMAIN procs
    BY <1>2 DEF handle_munmap, Deletes, ProcsInv
<1> QED
    BY <1>1, <1>2

LEMMA EvictDeletes ==
    ASSUME ProcsInv, EvictProcess
    PROVE  Deletes
BY ExitDeletes, Zenon DEF EvictProcess, Deletes, ProcsInv

\* Soft deletion keeps everything RecordInv says of processes and trie.
LEMMA DeletesKeep ==
    ASSUME ProcsInv, TrieInv, Deletes
    PROVE  ProcsInv' /\ TrieInv' /\ Grows
BY DEF ProcsInv, TrieInv, Deletes, Grows, HasFile, ProcessRecord

-----------------------------------------------------------------------------
\* Steps of the kernel.

LEMMA ChanKeep ==
    ASSUME ChanInv, Grows, new_proc_chan' = new_proc_chan, tracers_chan' = tracers_chan
    PROVE  ChanInv'
<1>1. TracerEvents' = TracerEvents
    BY DEF TracerEvents
<1> QED
    BY <1>1, EventsStay, SeqMonotonic DEF ChanInv

\* A step that changes neither what is recorded nor the events and the task.
LEMMA UserKeep ==
    ASSUME RecordInv, UNCHANGED <<procs, object_files, exec_mappings, task>>
    PROVE  /\ ProcsInv' /\ TrieInv' /\ TaskInv'
           /\ NewProcEvents' = NewProcEvents /\ TracerEvents' = TracerEvents
<1>1. ProcsInv'
    BY DEF RecordInv, ProcsInv, HasFile
<1>2. TrieInv'
    BY DEF RecordInv, TrieInv
<1>3. TaskInv'
    BY DEF RecordInv, TaskInv, AddTasks, LoadTasks, PublishTasks
<1> QED
    BY <1>1, <1>2, <1>3 DEF NewProcEvents, Needed, TracerEvents

LEMMA SendTracerKeeps ==
    ASSUME ChanInv, NEW e \in TracerEvents, SendTracerEvent(e)
    PROVE  tracers_chan' \in Seq(TracerEvents)
BY AppendProperties DEF SendTracerEvent, ChanInv

\* Disjoint mappings, as inequalities.
LEMMA DisjointApart ==
    ASSUME NEW S \in SUBSET ExecMapping, Disjoint(S), NEW m \in S, NEW n \in S
    PROVE  m = n \/ m.end <= n.start \/ n.end <= m.start
<1>1. m.start \in Nat /\ m.end \in Nat /\ n.start \in Nat /\ n.end \in Nat
    BY DEF ExecMapping
<1>2. m = n \/ ~(m.start < n.end /\ n.start < m.end)
    BY Zenon DEF Disjoint, Overlap
<1> QED
    BY <1>1, <1>2

\* What munmap() leaves of a mapping.
LEMMA PieceShape ==
    ASSUME NEW m \in ExecMapping, NEW r, r.start \in Nat, r.end \in Nat, NEW n \in Pieces(m, r)
    PROVE  /\ n \in ExecMapping /\ n.exe = m.exe /\ n.kind = m.kind
           /\ m.start <= n.start /\ n.end <= m.end /\ ~Overlap(n, r)
           /\ \/ n = m
              \/ n = [m EXCEPT !.end = r.start] /\ n.end = r.start
              \/ n = [m EXCEPT !.start = r.end] /\ n.start = r.end
<1>1. /\ m \in [start : Nat, end : Nat, exe : ExecutableId \cup {NoExecutable},
                kind : {"FileBacked", "Vdso", "Anonymous", "Kernel"}]
      /\ m.kind = "Anonymous" <=> m.exe = NoExecutable
    BY DEF ExecMapping
<1>2. /\ n \in {m, [m EXCEPT !.end = r.start], [m EXCEPT !.start = r.end]}
      /\ m.start <= n.start /\ n.start < n.end /\ n.end <= m.end /\ ~Overlap(n, r)
    BY Zenon DEF Pieces
<1>3. /\ n \in [start : Nat, end : Nat, exe : ExecutableId \cup {NoExecutable},
                kind : {"FileBacked", "Vdso", "Anonymous", "Kernel"}]
      /\ n.exe = m.exe /\ n.kind = m.kind
      /\ n = [m EXCEPT !.end = r.start] => n.end = r.start
      /\ n = [m EXCEPT !.start = r.end] => n.start = r.end
    BY <1>1, <1>2
<1> QED
    BY <1>1, <1>2, <1>3, Zenon DEF ExecMapping

LEMMA UnmappedIsLayout ==
    ASSUME NEW S \in SUBSET ExecMapping, Disjoint(S),
           NEW r, r.start \in Nat, r.end \in Nat, r.start < r.end
    PROVE  Unmapped(S, r) \in SUBSET ExecMapping /\ Disjoint(Unmapped(S, r))
<1>1. ASSUME NEW k \in Unmapped(S, r) PROVE \E m \in S : k \in Pieces(m, r)
    BY Zenon DEF Unmapped
<1>2. ASSUME NEW k \in Unmapped(S, r) PROVE k \in ExecMapping
    BY <1>1, PieceShape
<1>3. ASSUME NEW k \in Unmapped(S, r), NEW l \in Unmapped(S, r), k # l
      PROVE  ~Overlap(k, l)
    <2>1. PICK m \in S : k \in Pieces(m, r)
        BY <1>1
    <2>2. PICK n \in S : l \in Pieces(n, r)
        BY <1>1
    <2>3. /\ m.start \in Nat /\ m.end \in Nat /\ n.start \in Nat /\ n.end \in Nat
          /\ k.start \in Nat /\ k.end \in Nat /\ l.start \in Nat /\ l.end \in Nat
          /\ k.start < k.end /\ l.start < l.end
        BY <1>2 DEF ExecMapping
    <2>4. /\ m.start <= k.start /\ k.end <= m.end /\ n.start <= l.start /\ l.end <= n.end
          /\ ~Overlap(k, r) /\ ~Overlap(l, r)
        BY <2>1, <2>2, PieceShape
    <2>5. CASE m # n
        <3>1. m.end <= n.start \/ n.end <= m.start
            BY <2>5, DisjointApart
        <3> QED
            BY <2>3, <2>4, <3>1 DEF Overlap
    <2>6. CASE m = n
        <3>1. \/ k = m
              \/ k = [m EXCEPT !.end = r.start] /\ k.end = r.start
              \/ k = [m EXCEPT !.start = r.end] /\ k.start = r.end
            BY <2>1, PieceShape
        <3>2. \/ l = m
              \/ l = [m EXCEPT !.end = r.start] /\ l.end = r.start
              \/ l = [m EXCEPT !.start = r.end] /\ l.start = r.end
            BY <2>2, <2>6, PieceShape
        <3>3. ASSUME NEW x \in Unmapped(S, r), x \in Pieces(m, r), m \in Pieces(m, r) PROVE x = m
            <4>1. m.start <= x.start /\ x.end <= m.end /\ ~Overlap(m, r) /\ x.start < x.end
                BY <1>2, <3>3, PieceShape DEF ExecMapping
            <4>2. \/ x = m
                  \/ x = [m EXCEPT !.end = r.start] /\ x.end = r.start
                  \/ x = [m EXCEPT !.start = r.end] /\ x.start = r.end
                BY <3>3, PieceShape
            <4>3. x.start \in Nat /\ x.end \in Nat
                BY <1>2, <3>3 DEF ExecMapping
            <4>4. m \in [start : Nat, end : Nat, exe : ExecutableId \cup {NoExecutable},
                         kind : {"FileBacked", "Vdso", "Anonymous", "Kernel"}]
                BY DEF ExecMapping
            <4>5. CASE x = [m EXCEPT !.end = r.start] /\ x.end = r.start
                <5>1. x.start = m.start
                    BY <4>4, <4>5
                <5>2. r.start = m.end
                    BY <2>3, <4>1, <4>3, <4>5, <5>1 DEF Overlap
                <5> QED
                    BY <4>4, <4>5, <5>2
            <4>6. CASE x = [m EXCEPT !.start = r.end] /\ x.start = r.end
                <5>1. x.end = m.end
                    BY <4>4, <4>6
                <5>2. r.end = m.start
                    BY <2>3, <4>1, <4>3, <4>6, <5>1 DEF Overlap
                <5> QED
                    BY <4>4, <4>6, <5>2
            <4> QED
                BY <4>2, <4>5, <4>6
        <3>4. k # m /\ l # m
            BY <1>3, <2>1, <2>2, <2>6, <3>3
        <3>5. (k.end = r.start /\ l.start = r.end) \/ (l.end = r.start /\ k.start = r.end)
            BY <1>3, <3>1, <3>2, <3>4, Zenon
        <3> QED
            BY <2>3, <3>5 DEF Overlap
    <2> QED
        BY <2>5, <2>6
<1> QED
    BY <1>2, <1>3, Zenon DEF Disjoint

LEMMA KernelNext ==
    ASSUME RecordInv, NEW p \in Pid,
           \/ ProcessStart(p)
           \/ \E m \in Dlopened[p] : Mmap(p, m)
           \/ \E r \in Unmaps[p] : Munmap(p, r)
           \/ tracer_process_exit(p)
    PROVE  RecordInv'
<1>1. ProcsInv' /\ TrieInv' /\ TaskInv' /\ NewProcEvents' = NewProcEvents /\ TracerEvents' = TracerEvents
    BY UserKeep, Zenon DEF ProcessStart, Mmap, Munmap, tracer_process_exit, userVars
<1>2. new_proc_chan' \in Seq(NewProcEvents)
    BY Zenon DEF RecordInv, ChanInv, ProcessStart, Mmap, Munmap, tracer_process_exit
<1>3. CASE ProcessStart(p)
    <2>1. PICK layout \in Layouts[p] : os' = [q \in DOMAIN os \cup {p} |-> IF q = p THEN layout ELSE os[q]]
        BY <1>3, Zenon DEF ProcessStart
    <2>2. layout \subseteq ExecMapping /\ Disjoint(layout)
        BY ProfilerAssumption, Zenon
    <2>3. OsInv'
        BY <2>1, <2>2 DEF RecordInv, OsInv
    <2> QED
        BY <1>1, <1>2, <1>3, <2>3, Zenon DEF ProcessStart, RecordInv, ChanInv
<1>4. ASSUME NEW m \in Dlopened[p], Mmap(p, m)
      PROVE  RecordInv'
    <2>1. m \in ExecMapping
        BY ProfilerAssumption, Zenon
    <2>2. os[p] \subseteq ExecMapping /\ Disjoint(os[p]) /\ p \in DOMAIN os
        BY <1>4 DEF Mmap, RecordInv, OsInv
    <2>3. Disjoint(os[p] \cup {m})
        <3>1. \A n \in os[p] : ~Overlap(m, n)
            BY <1>4, Zenon DEF Mmap
        <3>2. \A n \in os[p] : ~Overlap(n, m)
            BY <3>1, Zenon DEF Overlap
        <3> QED
            BY <2>2, <3>1, <3>2, Zenon DEF Disjoint
    <2>4. OsInv'
        BY <1>4, <2>1, <2>2, <2>3 DEF Mmap, RecordInv, OsInv
    <2> QED
        BY <1>1, <1>2, <1>4, <2>4 DEF Mmap, RecordInv, ChanInv
<1>5. ASSUME NEW r \in Unmaps[p], Munmap(p, r)
      PROVE  RecordInv'
    <2>1. r.start \in Nat /\ r.end \in Nat /\ r.start < r.end
        BY ProfilerAssumption, Zenon
    <2>2. [type |-> "Munmap", pid |-> p, start_address |-> r.start] \in TracerEvents
        BY <2>1, Zenon DEF TracerEvents
    <2>3. tracers_chan' \in Seq(TracerEvents)
        BY <1>5, <2>2, SendTracerKeeps DEF Munmap, RecordInv, ChanInv
    <2>4. OsInv'
        <3>1. p \in DOMAIN os /\ os[p] \subseteq ExecMapping /\ Disjoint(os[p])
            BY <1>5 DEF Munmap, RecordInv, OsInv
        <3>2. Unmapped(os[p], r) \in SUBSET ExecMapping /\ Disjoint(Unmapped(os[p], r))
            BY <2>1, <3>1, UnmappedIsLayout
        <3>3. os' = [os EXCEPT ![p] = Unmapped(os[p], r)]
            BY <1>5, Zenon DEF Munmap
        <3> QED
            BY <3>1, <3>2, <3>3 DEF RecordInv, OsInv
    <2> QED
        BY <1>1, <1>2, <2>3, <2>4, Zenon DEF RecordInv, ChanInv
<1>6. CASE tracer_process_exit(p)
    <2>1. [type |-> "ProcessExit", pid |-> p] \in TracerEvents
        BY DEF TracerEvents
    <2>2. tracers_chan' \in Seq(TracerEvents)
        BY <1>6, <2>1, SendTracerKeeps, Zenon DEF tracer_process_exit, RecordInv, ChanInv
    <2>3. OsInv'
        BY <1>6, Zenon DEF tracer_process_exit, RecordInv, OsInv
    <2> QED
        BY <1>1, <1>2, <2>2, <2>3 DEF RecordInv, ChanInv
<1> QED
    BY <1>3, <1>4, <1>5, <1>6

\* The unwinder reports a process, or a mapping that it found in the trie.
LEMMA SampleNext ==
    ASSUME RecordInv, NEW p \in Pid, on_event(p)
    PROVE  RecordInv'
<1>1. ProcsInv' /\ TrieInv' /\ TaskInv' /\ NewProcEvents' = NewProcEvents /\ TracerEvents' = TracerEvents
    BY UserKeep DEF on_event, userVars
<1>2. OsInv'
    BY Zenon DEF on_event, RecordInv, OsInv
<1>3. tracers_chan' \in Seq(TracerEvents)
    BY DEF on_event, RecordInv, ChanInv
<1>4. PICK m \in os[p] : \/ SampleUnknownProcess(p)
                         \/ SampleWithoutUnwindInfo(p, m.start)
                         \/ SampleUnwound(p, m.start)
    BY DEF on_event
<1>5. m.start \in Nat
    BY DEF on_event, RecordInv, OsInv, ExecMapping
<1>6. ASSUME NEW e \in NewProcEvents, send_event(e)
      PROVE  new_proc_chan' \in Seq(NewProcEvents)
    BY <1>6, AppendProperties DEF send_event, RecordInv, ChanInv
<1>7. new_proc_chan' \in Seq(NewProcEvents)
    <2>1. CASE SampleUnknownProcess(p)
        <3>1. [type |-> "NEW_PROCESS", pid |-> p] \in NewProcEvents
            BY DEF NewProcEvents
        <3> QED
            BY <1>6, <2>1, <3>1 DEF SampleUnknownProcess
    <2>2. CASE SampleWithoutUnwindInfo(p, m.start)
        <3> DEFINE e == [type |-> "NEED_UNWIND_INFO", pid |-> p, address |-> m.start]
        <3>1. PICK n \in for_address(BpfMappings(p), m.start) : n.kind # "Anonymous" /\ send_event(e)
            BY <2>2, Zenon DEF SampleWithoutUnwindInfo
        <3>2. <<p, n>> \in exec_mappings /\ n # ProcessEntry /\ Contains(n, m.start)
            BY DEF for_address, BpfMappings, RecordInv, TrieInv
        <3>3. p \in DOMAIN procs /\ n \in procs[p].mappings
            BY <3>2 DEF RecordInv, TrieInv
        <3>4. e \in NewProcEvents
            BY <1>5, <3>1, <3>2, <3>3, Zenon DEF NewProcEvents, Needed
        <3> QED
            BY <1>6, <3>1, <3>4, Zenon
    <2>3. CASE SampleUnwound(p, m.start)
        BY <2>3, Zenon DEF SampleUnwound, RecordInv, ChanInv
    <2> QED
        BY <1>4, <2>1, <2>2, <2>3
<1> QED
    BY <1>1, <1>2, <1>3, <1>7 DEF RecordInv, ChanInv

-----------------------------------------------------------------------------
\* Steps of the main loop.

LEMMA ReceivedEvent ==
    ASSUME ChanInv, NEW type, Received(type)
    PROVE  /\ new_proc_chan' \in Seq(NewProcEvents)
           /\ Head(new_proc_chan) \in NewProcEvents
           /\ Head(new_proc_chan).type = type
           /\ tracers_chan' = tracers_chan /\ os' = os /\ task = Select
BY HeadTailProperties, Zenon DEF Received, ChanInv

\* The task that loads the tables of p.
LEMMA LoadIsTask ==
    ASSUME ProcsInv', NEW p \in Pid, p \in DOMAIN procs', task' = LoadTask(p)
    PROVE  TaskInv'
<1>1. {m \in procs'[p].mappings : m.kind # "Anonymous"} \subseteq ExecMapping
    BY DEF ProcsInv, ProcessRecord
<1> QED
    BY <1>1, Zenon DEF LoadTask, TaskInv, LoadTasks, PublishTasks

LEMMA IgnoredNext ==
    ASSUME RecordInv, event_new_proc_ignored
    PROVE  RecordInv'
<1>1. ProcsInv' /\ TrieInv' /\ TaskInv' /\ NewProcEvents' = NewProcEvents /\ TracerEvents' = TracerEvents
    BY UserKeep DEF event_new_proc_ignored, userVars
<1>2. new_proc_chan' \in Seq(NewProcEvents) /\ tracers_chan' = tracers_chan /\ os' = os
    BY ReceivedEvent DEF event_new_proc_ignored, RecordInv
<1> QED
    BY <1>1, <1>2 DEF RecordInv, ChanInv, OsInv

LEMMA KnownNext ==
    ASSUME RecordInv, event_new_proc_known
    PROVE  RecordInv'
<1>1. Grows /\ ProcsInv' /\ TrieInv'
    BY DEF event_new_proc_known, userVars, RecordInv, ProcsInv, TrieInv, HasFile, Grows
<1>2. /\ new_proc_chan' \in Seq(NewProcEvents) /\ tracers_chan' = tracers_chan /\ os' = os
      /\ Head(new_proc_chan).pid \in Pid
    BY ReceivedEvent, Zenon DEF event_new_proc_known, RecordInv, NewProcEvents, Needed
<1>3. ChanInv'
    BY <1>1, <1>2, EventsStay, SeqMonotonic DEF RecordInv, ChanInv, TracerEvents
<1>4. TaskInv'
    BY <1>1, <1>2, LoadIsTask, Zenon DEF event_new_proc_known, userVars
<1> QED
    BY <1>1, <1>2, <1>3, <1>4 DEF RecordInv, OsInv

LEMMA UnknownNext ==
    ASSUME RecordInv, event_new_proc_unknown
    PROVE  RecordInv'
<1> DEFINE p == Head(new_proc_chan).pid
<1>1. UNCHANGED <<procs, object_files, exec_mappings>> \/ Deletes
    BY EvictDeletes, Zenon DEF event_new_proc_unknown, userVars, RecordInv
<1>2. Grows /\ ProcsInv' /\ TrieInv' /\ DOMAIN procs' = DOMAIN procs
    <2>1. CASE Deletes
        BY <2>1, DeletesKeep, Zenon DEF RecordInv, Deletes
    <2>2. CASE UNCHANGED <<procs, object_files, exec_mappings>>
        BY <2>2 DEF RecordInv, ProcsInv, TrieInv, HasFile, Grows
    <2> QED
        BY <1>1, <2>1, <2>2
<1>3. new_proc_chan' \in Seq(NewProcEvents) /\ tracers_chan' = tracers_chan /\ os' = os /\ p \in Pid
    BY ReceivedEvent, Zenon DEF event_new_proc_unknown, RecordInv, NewProcEvents, Needed
<1>4. ChanInv'
    BY <1>2, <1>3, EventsStay, SeqMonotonic DEF RecordInv, ChanInv, TracerEvents
<1>5. TaskInv'
    <2>1. /\ p \notin DOMAIN procs /\ p \in DOMAIN os
          /\ task' = [op |-> "add", pid |-> p, maps |-> os[p]]
        BY Zenon DEF event_new_proc_unknown
    <2>2. os[p] \subseteq ExecMapping /\ Disjoint(os[p])
        BY <2>1, Zenon DEF RecordInv, OsInv
    <2> HIDE DEF p
    <2> QED
        BY <1>2, <1>3, <2>1, <2>2, Zenon DEF TaskInv, AddTasks
<1> QED
    BY <1>2, <1>3, <1>4, <1>5, Zenon DEF RecordInv, OsInv

LEMMA AddNext ==
    ASSUME RecordInv, add_proc
    PROVE  RecordInv'
<1> DEFINE p == task.pid
<1>1. task \in AddTasks
    BY TaskKinds, Zenon DEF add_proc
<1>2. p \in Pid /\ p \notin DOMAIN procs /\ task.maps \subseteq ExecMapping /\ Disjoint(task.maps)
    BY <1>1 DEF AddTasks
<1>3. PICK skipped \in SUBSET {m \in task.maps : m.kind # "Anonymous"} :
        /\ object_files' = AddReferences(task.maps \ skipped)
        /\ procs' = [q \in DOMAIN procs \cup {p} |->
                       IF q = p THEN [status |-> "Running", mappings |-> task.maps \ skipped, deleted |-> {}]
                       ELSE procs[q]]
    BY Zenon DEF add_proc
<1> DEFINE S == task.maps \ skipped
<1>4. S \subseteq ExecMapping /\ Disjoint(S)
    BY <1>2 DEF Disjoint
<1>5. DOMAIN object_files' = DOMAIN object_files \cup {m.exe : m \in {n \in S : n.kind # "Anonymous"}}
    BY <1>3, Zenon DEF AddReferences
<1> HIDE DEF S
<1>6. Grows
    BY <1>2, <1>3, <1>5, Zenon DEF Grows
<1>7. ProcsInv'
    <2>1. DOMAIN procs' = DOMAIN procs \cup {p} /\ procs' \in [DOMAIN procs' -> ProcessRecord]
        BY <1>3, <1>4 DEF RecordInv, ProcsInv, ProcessRecord, S
    <2>2. \A q \in DOMAIN procs' : Disjoint(procs'[q].mappings)
        BY <1>3, <1>4 DEF RecordInv, ProcsInv, S
    <2>3. \A q \in DOMAIN procs' : \A m \in procs'[q].mappings : HasFile(m)'
        BY <1>3, <1>5 DEF RecordInv, ProcsInv, HasFile, S
    <2> QED
        BY <1>2, <2>1, <2>2, <2>3 DEF RecordInv, ProcsInv
<1>8. TrieInv'
    BY <1>2, <1>3, Zenon DEF RecordInv, TrieInv, add_proc
<1>9. ChanInv' /\ OsInv'
    BY <1>6, ChanKeep, Zenon DEF add_proc, kernelVars, RecordInv, OsInv
<1>10. TaskInv'
    BY <1>2, <1>3, <1>7, LoadIsTask, Zenon DEF add_proc, TaskInv
<1> QED
    BY <1>7, <1>8, <1>9, <1>10 DEF RecordInv

LEMMA LoadNext ==
    ASSUME RecordInv, load_unwind_info
    PROVE  RecordInv'
<1>1. task \in LoadTasks
    BY TaskKinds DEF load_unwind_info
<1>2. Grows /\ ProcsInv' /\ TrieInv' /\ OsInv' /\ procs' = procs
    BY DEF load_unwind_info, userVars, kernelVars, RecordInv, ProcsInv, TrieInv, OsInv, HasFile, Grows
<1>3. ChanInv'
    BY <1>2, ChanKeep DEF load_unwind_info, kernelVars, RecordInv
<1>4. PICK m \in task.todo, ok \in BOOLEAN :
        task' = IF ~ok THEN Select
                ELSE IF task.todo = {m} THEN [op |-> "publish", pid |-> task.pid]
                ELSE [task EXCEPT !.todo = @ \ {m}]
    BY Zenon DEF load_unwind_info
<1>5. TaskInv'
    <2>1. [op |-> "publish", pid |-> task.pid] \in PublishTasks'
        BY <1>1, <1>2 DEF LoadTasks, PublishTasks
    <2>2. [task EXCEPT !.todo = @ \ {m}] \in LoadTasks'
        BY <1>1, <1>2 DEF LoadTasks
    <2> QED
        BY <1>4, <2>1, <2>2, Zenon DEF TaskInv
<1> QED
    BY <1>2, <1>3, <1>5 DEF RecordInv

LEMMA PublishNext ==
    ASSUME RecordInv, add_bpf_mappings
    PROVE  RecordInv'
<1> DEFINE p == task.pid
<1>1. task \in PublishTasks
    BY TaskKinds, Zenon DEF add_bpf_mappings
<1>2. p \in Pid /\ p \in DOMAIN procs
    BY <1>1 DEF PublishTasks
<1>3. Grows /\ ProcsInv' /\ OsInv' /\ procs' = procs
    BY Zenon DEF add_bpf_mappings, userVars, kernelVars, RecordInv, ProcsInv, OsInv, HasFile, Grows
<1>4. ChanInv'
    BY <1>3, ChanKeep, Zenon DEF add_bpf_mappings, kernelVars, RecordInv
<1>5. \A free : EntriesWritten(p, free) \subseteq {p} \X procs[p].mappings
    <2> SUFFICES ASSUME NEW free, NEW x \in EntriesWritten(p, free)
                 PROVE  x \in {p} \X procs[p].mappings
        OBVIOUS
    <2> DEFINE missing == {m \in procs[p].mappings : <<p, m>> \notin exec_mappings}
               few == {n \in missing : Cardinality({k \in missing : k.start <= n.start}) <= free}
    <2>1. x \in {<<p, m>> : m \in few}
        BY Zenon DEF EntriesWritten
    <2>2. few \subseteq procs[p].mappings
        OBVIOUS
    <2> HIDE DEF few
    <2> QED
        BY <2>1, <2>2
<1>6. exec_mappings' \subseteq exec_mappings \cup ({p} \X procs[p].mappings) \cup {<<p, ProcessEntry>>}
    BY <1>5, Zenon DEF add_bpf_mappings
<1>7. TrieInv'
    BY <1>2, <1>3, <1>6 DEF RecordInv, TrieInv, ProcsInv, ProcessRecord
<1>8. TaskInv'
    BY <1>2, <1>3, Zenon DEF add_bpf_mappings, TaskInv, PublishTasks
<1> QED
    BY <1>3, <1>4, <1>7, <1>8 DEF RecordInv

\* The handlers that only delete, and leave the channels and the kernel alone.
LEMMA CleanupNext ==
    ASSUME RecordInv, remove_partial_write \/ evict_to_make_room
    PROVE  RecordInv'
<1>1. Deletes
    <2>1. CASE remove_partial_write
        BY <2>1, ExitDeletes DEF remove_partial_write, RecordInv
    <2>2. CASE evict_to_make_room
        BY <2>2, EvictDeletes, Zenon DEF evict_to_make_room, userVars, RecordInv, Deletes, ProcsInv
    <2> QED
        BY <2>1, <2>2
<1>2. Grows /\ ProcsInv' /\ TrieInv'
    BY <1>1, DeletesKeep DEF RecordInv
<1>3. ChanInv' /\ OsInv'
    BY <1>2, ChanKeep, Zenon DEF remove_partial_write, evict_to_make_room, kernelVars, RecordInv, OsInv
<1>4. TaskInv'
    BY DEF remove_partial_write, evict_to_make_room, TaskInv
<1> QED
    BY <1>2, <1>3, <1>4 DEF RecordInv

LEMMA TracerEventNext ==
    ASSUME RecordInv, receive_tracer_event
    PROVE  RecordInv'
<1>1. Deletes
    BY ExitDeletes, MunmapDeletes DEF receive_tracer_event, RecordInv
<1>2. Grows /\ ProcsInv' /\ TrieInv'
    BY <1>1, DeletesKeep DEF RecordInv
<1>3. OsInv' /\ TaskInv'
    BY Zenon DEF receive_tracer_event, RecordInv, OsInv, TaskInv
<1>4. new_proc_chan' \in Seq(NewProcEvents')
    BY <1>2, EventsStay, SeqMonotonic DEF receive_tracer_event, RecordInv, ChanInv
<1>5. tracers_chan' \in Seq(TracerEvents')
    BY HeadTailProperties DEF receive_tracer_event, RecordInv, ChanInv, TracerEvents
<1> QED
    BY <1>2, <1>3, <1>4, <1>5 DEF RecordInv, ChanInv

\* The other steps change nothing that RecordInv is about, or take an event away.
LEMMA OtherRecordNext ==
    ASSUME RecordInv,
           event_need_unwind_info \/ collect_profile \/ ProcessCooldown \/ TablesCooldown \/ UNCHANGED vars
    PROVE  RecordInv'
<1>1. ProcsInv' /\ TrieInv' /\ TaskInv' /\ NewProcEvents' = NewProcEvents /\ TracerEvents' = TracerEvents
    BY UserKeep, Zenon DEF event_need_unwind_info, collect_profile, ProcessCooldown, TablesCooldown, vars, userVars
<1>2. OsInv' /\ ChanInv'
    <2>1. CASE event_need_unwind_info
        BY <1>1, <2>1, ReceivedEvent, Zenon DEF event_need_unwind_info, RecordInv, ChanInv, OsInv
    <2>2. CASE ~event_need_unwind_info
        BY <1>1, <2>2, Zenon DEF collect_profile, ProcessCooldown, TablesCooldown, vars, kernelVars, RecordInv, ChanInv, OsInv
    <2> QED
        BY <2>1, <2>2
<1> QED
    BY <1>1, <1>2 DEF RecordInv

LEMMA RecordNext == RecordInv /\ [Next]_vars => RecordInv'
BY KernelNext, SampleNext, IgnoredNext, KnownNext, UnknownNext, AddNext, LoadNext, PublishNext,
   CleanupNext, TracerEventNext, OtherRecordNext, Zenon
   DEF Next, MainLoop

LEMMA RecordAlways == Spec => []RecordInv
BY RecordInit, RecordNext, PTL DEF Spec

\* Every mapping the unwinder can find is recorded, with its object file, in
\* whatever order events arrive (TrieRecorded; profiler.rs:1470).
THEOREM TrieAlwaysRecorded == Spec => []TrieRecorded
<1>1. RecordInv => TrieRecorded
    <2> SUFFICES ASSUME RecordInv, NEW p \in Pid, NEW m \in BpfMappings(p)
                 PROVE  /\ p \in DOMAIN procs /\ m \in procs[p].mappings
                        /\ m.kind # "Anonymous" => m.exe \in DOMAIN object_files
        BY Zenon DEF TrieRecorded
    <2>1. <<p, m>> \in exec_mappings /\ m # ProcessEntry
        BY DEF BpfMappings, RecordInv, TrieInv
    <2> QED
        BY <2>1 DEF RecordInv, TrieInv, ProcsInv, HasFile
<1> QED
    BY <1>1, RecordAlways, PTL

-----------------------------------------------------------------------------
\* The tables: NativeUnwindState's specification is implemented.

\* Two ranges that both contain x are not one before the other.
LEMMA RangesMeet ==
    ASSUME NEW a \in Nat, NEW b \in Nat, NEW c \in Nat, NEW d \in Nat, NEW x \in Nat,
           a <= x, x < b, c <= x, x < d
    PROVE  ~(b <= c) /\ ~(d <= a)
OBVIOUS

\* The unwrap() of the object file of a NEED_UNWIND_INFO event holds: the mapping
\* looked up is the one that the unwinder had found, for mappings do not overlap.
LEMMA NeededHasFile ==
    ASSUME RecordInv, NEW e \in Needed, NEW m \in for_address(procs[e.pid].mappings, e.address)
    PROVE  m.exe \in DOMAIN object_files /\ m.exe \in ExecutableId
<1>1. e.pid \in DOMAIN procs /\ e.address \in Nat
    BY DEF Needed
<1>2. PICK n \in procs[e.pid].mappings : n.kind # "Anonymous" /\ Contains(n, e.address)
    BY DEF Needed
<1>3. m \in procs[e.pid].mappings /\ Contains(m, e.address)
    BY DEF for_address
<1>4. procs[e.pid].mappings \subseteq ExecMapping /\ Disjoint(procs[e.pid].mappings)
    BY <1>1 DEF RecordInv, ProcsInv, ProcessRecord
<1>5. m.start \in Nat /\ m.end \in Nat /\ n.start \in Nat /\ n.end \in Nat
    BY <1>2, <1>3, <1>4, Zenon DEF ExecMapping
<1>6. m = n
    <2>1. m = n \/ m.end <= n.start \/ n.end <= m.start
        BY <1>2, <1>3, <1>4, DisjointApart
    <2>2. m.start <= e.address /\ e.address < m.end /\ n.start <= e.address /\ e.address < n.end
        BY <1>2, <1>3, Zenon DEF Contains
    <2>3. ~(m.end <= n.start) /\ ~(n.end <= m.start)
        BY <1>1, <1>5, <2>2, RangesMeet, Zenon
    <2> QED
        BY <2>1, <2>3
<1> QED
    BY <1>1, <1>2, <1>4, <1>6 DEF RecordInv, ProcsInv, HasFile, ExecMapping

LEMMA TablesStep == RecordInv /\ [Next]_vars => [UnwindNext]_unwindVars
<1> SUFFICES ASSUME RecordInv, [Next]_vars, ~UNCHANGED unwindVars
             PROVE  UnwindNext
    OBVIOUS
<1>1. ~panicked
    BY Zenon DEF Next, vars
<1>2. ASSUME Deletes PROVE UnwindNext
    BY <1>1, <1>2, Zenon DEF Deletes, UnwindNext
<1>3. CASE load_unwind_info
    <2>1. task \in LoadTasks
        BY <1>3, TaskKinds DEF load_unwind_info
    <2>2. PICK m \in task.todo, ok \in BOOLEAN : AddUnwindInformation(m.exe, ok)
        BY <1>3 DEF load_unwind_info
    <2>3. m.exe \in ExecutableId
        BY <2>1 DEF LoadTasks, ExecMapping
    <2> QED
        BY <1>1, <2>2, <2>3, Zenon DEF UnwindNext
<1>4. CASE event_need_unwind_info
    <2> DEFINE e == Head(new_proc_chan)
    <2>1. e \in Needed
        <3>1. e \in NewProcEvents /\ e.type = "NEED_UNWIND_INFO"
            BY <1>4, ReceivedEvent, Zenon DEF event_need_unwind_info, RecordInv
        <3> QED
            BY <3>1 DEF NewProcEvents
    <2>2. e.pid \in DOMAIN procs
        BY <2>1, Zenon DEF Needed
    <2>3. PICK m \in for_address(procs[e.pid].mappings, e.address) :
            m.exe \in DOMAIN object_files => \E ok \in BOOLEAN : AddUnwindInformation(m.exe, ok)
        BY <1>4, <2>2, Zenon DEF event_need_unwind_info
    <2>4. m.exe \in DOMAIN object_files /\ m.exe \in ExecutableId
        BY <2>1, NeededHasFile
    <2> QED
        BY <1>1, <2>3, <2>4, Zenon DEF UnwindNext
<1>5. CASE collect_profile
    <2> DEFINE S == SampledExecutables \cap DOMAIN known_executables
    <2>1. BumpExecutables(S)
        <3>1. S \cap DOMAIN known_executables = SampledExecutables \cap DOMAIN known_executables
            OBVIOUS
        <3> QED
            BY <1>5, <3>1, Zenon DEF collect_profile, BumpExecutables
    <2> QED
        BY <1>1, <2>1 DEF UnwindNext
<1>6. CASE TablesCooldown
    BY <1>1, <1>6 DEF TablesCooldown, UnwindNext
<1>7. CASE event_new_proc_unknown
    BY <1>2, <1>7, EvictDeletes, Zenon DEF event_new_proc_unknown, RecordInv
<1>8. CASE remove_partial_write \/ evict_to_make_room
    BY <1>2, <1>8, EvictDeletes, ExitDeletes DEF remove_partial_write, evict_to_make_room, RecordInv
<1>9. CASE receive_tracer_event
    BY <1>2, <1>9, ExitDeletes, MunmapDeletes DEF receive_tracer_event, RecordInv
<1> QED
    BY <1>3, <1>4, <1>5, <1>6, <1>7, <1>8, <1>9, Zenon
    DEF Next, MainLoop, ProcessStart, Mmap, Munmap, tracer_process_exit, on_event,
        event_new_proc_ignored, event_new_proc_known, add_proc, add_bpf_mappings, ProcessCooldown, vars

\* The profiler, whatever processes and events do, uses the tables as
\* NativeUnwindState says: it only loads executables it knows the file of, only
\* deletes known ones, and no lookup of an object file panics (profiler.rs:1470).
THEOREM ProfilerImplementsTables == Spec => UnwindSpec
<1>1. Init => UnwindInit
    BY DEF Init
<1> QED
    BY <1>1, TablesStep, RecordAlways, PTL DEF Spec, UnwindSpec

\* So what is proved of the tables alone holds in the whole profiler: what user space
\* holds as loaded is loaded (is_known, profiler.rs:98).
THEOREM ProfilerKnownIsLoaded == Spec => []KnownIsLoaded
BY ProfilerImplementsTables, KnownIsAlwaysLoaded, PTL

\* Every indexed page has its table (find_page, profiler.bpf.c:125-128).
THEOREM ProfilerPagesHaveTables == Spec => []PagesHaveTables
BY ProfilerImplementsTables, PagesAlwaysHaveTables, PTL

\* The program only panics over the outer map after partial writes have left tables
\* that user space does not know (profiler.rs:1348-1353, 1599).
THEOREM ProfilerPanicsOnlyWhenForgotten == Spec => []PanicMeansForgotten
BY ProfilerImplementsTables, PanicsOnlyWhenForgotten, PTL

-----------------------------------------------------------------------------
\* Published processes.

Cleaning(p) == [op |-> "cleanup", pid |-> p]

WholeInv ==
    \A p \in Pid : process_is_known(p) /\ task # Cleaning(p) =>
        \A m \in LiveMappings(p) : <<p, m>> \in exec_mappings

\* Steps that add nothing to the trie and delete only with mark_as_deleted.
LEMMA DeletesKeepWhole ==
    ASSUME RecordInv, WholeInv, Deletes \/ UNCHANGED <<procs, exec_mappings>>,
           \A p \in Pid : task = Cleaning(p) => task' = task \/ <<p, ProcessEntry>> \notin exec_mappings'
    PROVE  WholeInv'
<1> SUFFICES ASSUME NEW p \in Pid, process_is_known(p)', task' # Cleaning(p), NEW m \in LiveMappings(p)'
             PROVE  <<p, m>> \in exec_mappings'
    BY DEF WholeInv
<1>1. <<p, ProcessEntry>> \in exec_mappings /\ process_is_known(p) /\ task # Cleaning(p)
    BY Zenon DEF process_is_known, Deletes, ProcessEntry, Mapping, Cleaning
<1>2. p \in DOMAIN procs
    BY <1>1, Zenon DEF RecordInv, TrieInv
<1> QED
    BY <1>1, <1>2, Zenon DEF WholeInv, Deletes, LiveMappings

LEMMA WholeNext == RecordInv /\ WholeInv /\ [Next]_vars => WholeInv'
<1> SUFFICES ASSUME RecordInv, WholeInv, [Next]_vars
             PROVE  WholeInv'
    OBVIOUS
<1>1. CASE add_bpf_mappings
    <2> DEFINE p == task.pid
               added == exec_mappings \cup EntriesWritten(p, MAX_MAPPINGS - Cardinality(exec_mappings))
    <2>1. /\ procs' = procs /\ exec_mappings \subseteq exec_mappings' /\ added \subseteq exec_mappings'
          /\ exec_mappings' \subseteq added \cup {<<p, ProcessEntry>>}
          /\ \/ task' = Cleaning(p)
             \/ {<<p, m>> : m \in procs[p].mappings} \subseteq added
        BY <1>1, Zenon DEF add_bpf_mappings, userVars, Cleaning
    <2>2. ASSUME NEW q \in Pid, process_is_known(q)', task' # Cleaning(q), NEW m \in LiveMappings(q)'
          PROVE  <<q, m>> \in exec_mappings'
        <3>1. CASE q = p
            BY <2>1, <2>2, <3>1, Zenon DEF LiveMappings
        <3>2. CASE q # p
            <4>1. task # Cleaning(q)
                <5>1. task.op = "publish" /\ Cleaning(q).op = "cleanup"
                    BY <1>1, Zenon DEF add_bpf_mappings, Cleaning
                <5> QED
                    BY <5>1
            <4>2. <<q, ProcessEntry>> \in exec_mappings
                BY <2>1, <2>2, <3>2, Zenon DEF process_is_known, EntriesWritten, ProcessEntry, Mapping
            <4> QED
                BY <2>1, <2>2, <4>1, <4>2, Zenon DEF WholeInv, LiveMappings, process_is_known
        <3> QED
            BY <3>1, <3>2
    <2> QED
        BY <2>2 DEF WholeInv
<1>2. CASE add_proc
    <2>1. task \in AddTasks
        BY <1>2, TaskKinds, Zenon DEF add_proc
    <2>2. task.pid \notin DOMAIN procs /\ task.op = "add"
        BY <2>1 DEF AddTasks
    <2>3. exec_mappings' = exec_mappings /\ \A q \in DOMAIN procs : procs'[q] = procs[q]
        BY <1>2, <2>2, Zenon DEF add_proc
    <2>4. ASSUME NEW q \in Pid, process_is_known(q)', NEW m \in LiveMappings(q)'
          PROVE  <<q, m>> \in exec_mappings'
        <3>1. <<q, ProcessEntry>> \in exec_mappings /\ task # Cleaning(q)
            <4>1. <<q, ProcessEntry>> \in exec_mappings
                BY <2>3, <2>4, Zenon DEF process_is_known, ProcessEntry, Mapping
            <4>2. task # Cleaning(q)
                BY <2>2 DEF Cleaning
            <4> QED
                BY <4>1, <4>2
        <3>2. q \in DOMAIN procs
            BY <3>1 DEF RecordInv, TrieInv
        <3> QED
            BY <2>3, <2>4, <3>1, <3>2 DEF WholeInv, LiveMappings, process_is_known
    <2> QED
        BY <2>4 DEF WholeInv
<1>3. CASE remove_partial_write
    <2>1. Deletes
        BY <1>3, ExitDeletes DEF remove_partial_write, RecordInv
    <2>2. task \in PublishTasks
        BY <1>3, TaskKinds DEF remove_partial_write
    <2>3. <<task.pid, ProcessEntry>> \notin exec_mappings'
        BY <1>3, <2>2 DEF remove_partial_write, handle_process_exit, mark_as_deleted, PublishTasks
    <2>4. \A p \in Pid : task = Cleaning(p) => task.pid = p
        BY DEF Cleaning
    <2> QED
        BY <2>1, <2>3, <2>4, DeletesKeepWhole
<1>4. CASE evict_to_make_room
    <2>1. Deletes \/ UNCHANGED <<procs, exec_mappings>>
        BY <1>4, EvictDeletes DEF evict_to_make_room, userVars, RecordInv
    <2> QED
        BY <1>4, <2>1, DeletesKeepWhole DEF evict_to_make_room, Cleaning
<1>5. CASE event_new_proc_unknown
    <2>1. Deletes \/ UNCHANGED <<procs, exec_mappings>>
        BY <1>5, EvictDeletes, Zenon DEF event_new_proc_unknown, userVars, RecordInv
    <2> QED
        BY <1>5, <2>1, DeletesKeepWhole, Zenon DEF event_new_proc_unknown, Received, Cleaning, Select
<1>6. CASE receive_tracer_event
    <2>1. Deletes
        BY <1>6, ExitDeletes, MunmapDeletes DEF receive_tracer_event, RecordInv
    <2> QED
        BY <1>6, <2>1, DeletesKeepWhole, Zenon DEF receive_tracer_event
<1>7. CASE event_new_proc_known \/ load_unwind_info
    BY <1>7, DeletesKeepWhole
    DEF event_new_proc_known, load_unwind_info, Received, userVars, Cleaning, Select
<1>8. CASE UNCHANGED <<procs, exec_mappings, task>>
    BY <1>8, DeletesKeepWhole
<1> QED
    BY <1>1, <1>2, <1>3, <1>4, <1>5, <1>6, <1>7, <1>8, Zenon
    DEF Next, MainLoop, ProcessStart, Mmap, Munmap, tracer_process_exit, on_event, event_new_proc_ignored,
        event_need_unwind_info, collect_profile, ProcessCooldown, TablesCooldown, vars, userVars

\* A process the unwinder knows has all its remaining mappings in the trie, except
\* while a partial write is taken back (PublishedWhole; profiler.rs:1433-1450).
THEOREM PublishedAlwaysWhole == Spec => []PublishedWhole
<1>1. Init => WholeInv
    BY DEF Init, WholeInv, process_is_known
<1>2. RecordInv /\ WholeInv => PublishedWhole
    <2> SUFFICES ASSUME RecordInv, WholeInv, NEW p \in Pid, process_is_known(p), task # Cleaning(p)
                 PROVE  p \in DOMAIN procs /\ LiveMappings(p) \subseteq BpfMappings(p)
        BY DEF PublishedWhole, Cleaning
    <2>1. p \in DOMAIN procs
        BY DEF process_is_known, RecordInv, TrieInv
    <2>2. \A m \in LiveMappings(p) : m # ProcessEntry
        <3>1. ProcessEntry \notin ExecMapping
            BY Zenon DEF ExecMapping, ProcessEntry, Mapping
        <3>2. procs[p] \in ProcessRecord
            BY <2>1, Zenon DEF RecordInv, ProcsInv
        <3>3. procs[p].mappings \in SUBSET ExecMapping
            BY <3>2 DEF ProcessRecord
        <3> QED
            BY <3>1, <3>3, Zenon DEF LiveMappings
    <2>3. ASSUME NEW m \in LiveMappings(p) PROVE m \in BpfMappings(p)
        <3>1. <<p, m>> \in exec_mappings
            BY DEF WholeInv
        <3> QED
            BY <2>2, <3>1 DEF BpfMappings
    <2> QED
        BY <2>1, <2>3
<1> QED
    BY <1>1, <1>2, WholeNext, RecordAlways, PTL DEF Spec

-----------------------------------------------------------------------------
\* Running processes.

ExitEvent(p) == [type |-> "ProcessExit", pid |-> p]
ExitPending(p) == \E i \in DOMAIN tracers_chan : tracers_chan[i] = ExitEvent(p)
MayRun(p) == p \in DOMAIN os \cup unreported \/ ExitPending(p)

\* A process being added is not published, so that its exit is not reported.
AliveInv ==
    /\ \A p \in RunningProcs \ {KERNEL_PID} : MayRun(p)
    /\ task.op = "add" => task.pid \in DOMAIN os \cup unreported

\* What has been appended is the last element.
LEMMA AppendedIsLast ==
    ASSUME NEW S, NEW s \in Seq(S), NEW x \in S
    PROVE  \E n \in DOMAIN Append(s, x) : Append(s, x)[n] = x
<1>1. Len(s) + 1 \in DOMAIN Append(s, x)
    BY AppendProperties, LenProperties
<1> QED
    BY <1>1, AppendProperties

LEMMA SendKeepsPending ==
    ASSUME ChanInv, NEW e \in TracerEvents, SendTracerEvent(e) \/ UNCHANGED tracers_chan,
           NEW p, ExitPending(p)
    PROVE  ExitPending(p)'
BY AppendProperties, LenProperties DEF SendTracerEvent, ChanInv, ExitPending

\* An exit is reported, or noted as unreported; that of a process being added is not.
LEMMA ExitIsNoted ==
    ASSUME RecordInv, NEW p \in Pid, tracer_process_exit(p)
    PROVE  /\ DOMAIN os' = DOMAIN os \ {p} /\ unreported \subseteq unreported'
           /\ ExitEvent(p) \in TracerEvents
           /\ SendTracerEvent(ExitEvent(p)) \/ UNCHANGED tracers_chan
           /\ \A q : ExitPending(q) => ExitPending(q)'
           /\ p \in unreported' \/ ExitPending(p)'
           /\ task.op = "add" /\ task.pid = p => p \in unreported'
<1>1. ExitEvent(p) \in TracerEvents
    BY Zenon DEF ExitEvent, TracerEvents
<1>2. /\ DOMAIN os' = DOMAIN os \ {p} /\ unreported \subseteq unreported'
      /\ SendTracerEvent(ExitEvent(p)) \/ UNCHANGED tracers_chan
      /\ tracers_chan' = tracers_chan => p \in unreported'
    BY Zenon DEF tracer_process_exit, ExitEvent
<1>3. \A q : ExitPending(q) => ExitPending(q)'
    BY <1>1, <1>2, SendKeepsPending, Zenon DEF RecordInv
<1>4. p \in unreported' \/ ExitPending(p)'
    <2>1. CASE tracers_chan' = tracers_chan
        BY <1>2, <2>1
    <2>2. CASE tracers_chan' = Append(tracers_chan, ExitEvent(p))
        <3>1. tracers_chan \in Seq(TracerEvents)
            BY DEF RecordInv, ChanInv
        <3>2. \E n \in DOMAIN tracers_chan' : tracers_chan'[n] = ExitEvent(p)
            BY <1>1, <2>2, <3>1, AppendedIsLast
        <3> QED
            BY <3>2, Zenon DEF ExitPending, ExitEvent
    <2> QED
        BY <1>2, <2>1, <2>2 DEF SendTracerEvent
<1>5. task.op = "add" /\ task.pid = p => p \in unreported'
    <2>1. SUFFICES ASSUME task.op = "add", task.pid = p PROVE p \notin DOMAIN procs
        BY <1>2, Zenon DEF tracer_process_exit, process_is_known, RecordInv, TrieInv, ProcessEntry, Mapping
    <2> QED
        BY <2>1, TaskKinds DEF AddTasks
<1> QED
    BY <1>1, <1>2, <1>3, <1>4, <1>5, Zenon

LEMMA KernelKeepsAlive ==
    ASSUME RecordInv, AliveInv, NEW p \in Pid,
           \/ ProcessStart(p)
           \/ \E m \in Dlopened[p] : Mmap(p, m)
           \/ \E r \in Unmaps[p] : Munmap(p, r)
           \/ tracer_process_exit(p)
    PROVE  AliveInv'
<1>1. RunningProcs' = RunningProcs /\ task' = task
    BY Zenon DEF ProcessStart, Mmap, Munmap, tracer_process_exit, userVars, RunningProcs
<1>2. CASE ProcessStart(p) \/ \E m \in Dlopened[p] : Mmap(p, m)
    <2>1. DOMAIN os \subseteq DOMAIN os' /\ UNCHANGED <<unreported, tracers_chan>>
        BY <1>2, Zenon DEF ProcessStart, Mmap
    <2> QED
        BY <1>1, <2>1, Zenon DEF AliveInv, MayRun, ExitPending
<1>3. ASSUME NEW r \in Unmaps[p], Munmap(p, r)
      PROVE  AliveInv'
    <2> DEFINE e == [type |-> "Munmap", pid |-> p, start_address |-> r.start]
    <2>1. e \in TracerEvents
        BY ProfilerAssumption, Zenon DEF TracerEvents
    <2>2. DOMAIN os' = DOMAIN os /\ unreported' = unreported
        BY <1>3, Zenon DEF Munmap
    <2>3. SendTracerEvent(e) \/ UNCHANGED tracers_chan
        BY <1>3, Zenon DEF Munmap
    <2>4. \A q : ExitPending(q) => ExitPending(q)'
        BY <2>1, <2>3, SendKeepsPending, Zenon DEF RecordInv
    <2> QED
        BY <1>1, <2>2, <2>4, Zenon DEF AliveInv, MayRun
<1>4. CASE tracer_process_exit(p)
    BY <1>1, <1>4, ExitIsNoted, Zenon DEF AliveInv, MayRun
<1> QED
    BY <1>2, <1>3, <1>4, Zenon

\* Steps that start nothing and leave the operating system and the tracers alone.
LEMMA DeletesKeepAlive ==
    ASSUME RecordInv, AliveInv, Deletes \/ UNCHANGED procs,
           UNCHANGED <<os, unreported, tracers_chan>>,
           task'.op = "add" => task'.pid \in DOMAIN os \cup unreported
    PROVE  AliveInv'
<1>1. RunningProcs' \subseteq RunningProcs
    BY DEF RunningProcs, Deletes
<1> QED
    BY <1>1, Zenon DEF AliveInv, MayRun, ExitPending

\* The exit that is handled is of a process no longer held as running.
LEMMA ExitReceived ==
    ASSUME RecordInv, receive_tracer_event, NEW p \in RunningProcs'
    PROVE  Head(tracers_chan) # ExitEvent(p)
<1> DEFINE e == Head(tracers_chan)
<1>1. SUFFICES ASSUME e = ExitEvent(p) PROVE procs'[p].status = "Exited"
    BY DEF RunningProcs
<1>2. e.type = "ProcessExit" /\ e.pid = p
    BY <1>1 DEF ExitEvent
<1>3. handle_process_exit(p)
    BY <1>2 DEF receive_tracer_event
<1>4. p \in DOMAIN procs
    BY <1>3, ExitDeletes, Zenon DEF RunningProcs, Deletes, RecordInv
<1>5. procs[p] \in ProcessRecord
    BY <1>4 DEF RecordInv, ProcsInv
<1> QED
    BY <1>3, <1>4, <1>5, Zenon DEF handle_process_exit, mark_as_deleted, ProcessRecord, RecordInv, ProcsInv

LEMMA AliveNext == RecordInv /\ AliveInv /\ [Next]_vars => AliveInv'
<1> SUFFICES ASSUME RecordInv, AliveInv, [Next]_vars
             PROVE  AliveInv'
    OBVIOUS
<1>1. CASE \/ \E p \in Pid : ProcessStart(p)
           \/ \E p \in Pid : \E m \in Dlopened[p] : Mmap(p, m)
           \/ \E p \in Pid : \E r \in Unmaps[p] : Munmap(p, r)
           \/ \E p \in Pid : tracer_process_exit(p)
    BY <1>1, KernelKeepsAlive, Zenon
<1>2. CASE MainLoop /\ add_proc
    <2>1. UNCHANGED <<os, unreported, tracers_chan>>
        BY <1>2, Zenon DEF MainLoop, historyVars, add_proc, kernelVars
    <2>2. RunningProcs' \subseteq RunningProcs \cup {task.pid}
        BY <1>2, Zenon DEF add_proc, RunningProcs
    <2>3. task.pid \in DOMAIN os \cup unreported
        BY <1>2, Zenon DEF add_proc, AliveInv
    <2>4. task'.op # "add"
        BY <1>2, Zenon DEF add_proc, LoadTask, Select
    <2> QED
        BY <2>1, <2>2, <2>3, <2>4, Zenon DEF AliveInv, MayRun, ExitPending
<1>3. CASE MainLoop /\ receive_tracer_event
    <2> DEFINE e == Head(tracers_chan)
    <2>1. UNCHANGED <<os, unreported, task>> /\ tracers_chan # <<>> /\ tracers_chan' = Tail(tracers_chan)
        BY <1>3, Zenon DEF MainLoop, historyVars, receive_tracer_event
    <2>2. Deletes
        BY <1>3, ExitDeletes, MunmapDeletes DEF receive_tracer_event, RecordInv
    <2>3. RunningProcs' \subseteq RunningProcs
        BY <2>2, Zenon DEF RunningProcs, Deletes
    <2>4. ASSUME NEW p \in RunningProcs', ExitPending(p)
          PROVE  ExitPending(p)'
        <3>1. e # ExitEvent(p)
            BY <1>3, ExitReceived
        <3>2. PICK i \in DOMAIN tracers_chan : tracers_chan[i] = ExitEvent(p)
            BY <2>4 DEF ExitPending
        <3>3. i # 1
            BY <2>1, <3>1, <3>2
        <3>4. i - 1 \in DOMAIN tracers_chan' /\ tracers_chan'[i - 1] = tracers_chan[i]
            BY <2>1, <3>2, <3>3, HeadTailProperties, LenProperties DEF RecordInv, ChanInv
        <3> QED
            BY <3>2, <3>4 DEF ExitPending
    <2> QED
        BY <1>3, <2>1, <2>3, <2>4, Zenon DEF AliveInv, MayRun, receive_tracer_event
<1>4. CASE MainLoop /\ event_new_proc_unknown
    <2>1. Deletes \/ UNCHANGED procs
        BY <1>4, EvictDeletes, Zenon DEF event_new_proc_unknown, userVars, RecordInv
    <2> QED
        BY <1>4, <2>1, DeletesKeepAlive, Zenon DEF MainLoop, historyVars, event_new_proc_unknown, Received
<1>5. CASE MainLoop /\ (remove_partial_write \/ evict_to_make_room)
    <2>1. Deletes \/ UNCHANGED procs
        BY <1>5, EvictDeletes, ExitDeletes DEF remove_partial_write, evict_to_make_room, userVars, RecordInv
    <2>2. task'.op # "add"
        BY <1>5 DEF remove_partial_write, evict_to_make_room, Select
    <2>3. UNCHANGED <<os, unreported, tracers_chan>>
        BY <1>5, Zenon DEF MainLoop, historyVars, remove_partial_write, evict_to_make_room, kernelVars
    <2> QED
        BY <2>1, <2>2, <2>3, DeletesKeepAlive
<1>6. CASE MainLoop /\ load_unwind_info
    <2>1. task'.op # "add"
        BY <1>6, TaskKinds DEF load_unwind_info, Select, LoadTasks
    <2> QED
        BY <1>6, <2>1, DeletesKeepAlive DEF MainLoop, historyVars, load_unwind_info, kernelVars, userVars
<1>7. CASE MainLoop /\ (event_new_proc_known \/ add_bpf_mappings)
    <2>1. UNCHANGED <<procs, os, unreported, tracers_chan>>
        BY <1>7, Zenon DEF MainLoop, historyVars, event_new_proc_known, add_bpf_mappings, Received, kernelVars, userVars
    <2>2. task'.op # "add"
        <3>1. \A p : LoadTask(p).op # "add"
            BY Zenon DEF LoadTask
        <3>2. CASE event_new_proc_known
            BY <3>1, <3>2 DEF event_new_proc_known
        <3>3. CASE add_bpf_mappings
            BY <3>3, Zenon DEF add_bpf_mappings, Select
        <3> QED
            BY <1>7, <3>2, <3>3
    <2> QED
        BY <2>1, <2>2, DeletesKeepAlive
<1>8. CASE UNCHANGED <<procs, os, unreported, tracers_chan, task>>
    BY <1>8, DeletesKeepAlive, Zenon DEF AliveInv
<1>9. CASE MainLoop /\ (event_new_proc_ignored \/ event_need_unwind_info)
    <2>1. UNCHANGED <<procs, os, unreported, tracers_chan, task>>
        BY <1>9, Zenon DEF MainLoop, historyVars, event_new_proc_ignored, event_need_unwind_info, Received, userVars
    <2> QED
        BY <1>8, <2>1
<1>10. CASE collect_profile \/ ProcessCooldown \/ TablesCooldown \/ (\E p \in Pid : on_event(p)) \/ UNCHANGED vars
    <2>1. UNCHANGED <<procs, os, unreported, tracers_chan, task>>
        BY <1>10, Zenon DEF collect_profile, ProcessCooldown, TablesCooldown, on_event, vars, kernelVars, userVars, historyVars
    <2> QED
        BY <1>8, <2>1
<1>11. CASE MainLoop
    BY <1>2, <1>3, <1>4, <1>5, <1>6, <1>7, <1>9, <1>11, Zenon DEF MainLoop
<1>12. CASE Next
    BY <1>1, <1>10, <1>11, <1>12, Zenon DEF Next
<1> QED
    BY <1>10, <1>12

\* A process is only held as running while it runs or its exit is on its way, unless its
\* exit was not reported (RunningIsAlive; tracers.bpf.c:55-77, profiler.rs:1788).
THEOREM RunningAlwaysAlive == Spec => []RunningIsAlive
<1>1. Init => AliveInv
    <2> SUFFICES ASSUME Init PROVE AliveInv
        BY Zenon
    <2>1. DOMAIN procs = {KERNEL_PID}
        BY Zenon DEF Init
    <2>2. task = Select
        BY Zenon DEF Init
    <2> QED
        BY <2>1, <2>2, Zenon DEF AliveInv, RunningProcs, Select
<1>2. AliveInv => RunningIsAlive
    BY Zenon DEF AliveInv, RunningIsAlive, MayRun, ExitPending, ExitEvent
<1> QED
    BY <1>1, <1>2, AliveNext, RecordAlways, PTL DEF Spec

=============================================================================
