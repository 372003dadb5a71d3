----------------------- MODULE ProfilerDeletionProofs -----------------------
(***************************************************************************)
(* Proofs about the soft deletion of Profiler: what is counted and what is *)
(* deleted.                                                                *)
(*                                                                         *)
(* CountInv has the references of every file equal to the number of its    *)
(* mappings that are not deleted, so that the one whose deletion takes     *)
(* them to zero is the last.  DeletedInv relates the munmap() events on    *)
(* their way to the mappings they will delete: the process has removed     *)
(* memory of these, unless it has exited behind our back.                  *)
(***************************************************************************)
EXTENDS ProfilerProofs

\* References of object files.

\* What the counts are of is finite, and they are exact.
CountInv ==
    /\ \A p \in DOMAIN os : IsFiniteSet(os[p])
    /\ task.op = "add" => IsFiniteSet(task.maps)
    /\ DOMAIN object_files \subseteq ExecutableId
    /\ \A e \in ExecutableId : IsFiniteSet(LiveReferences(e))
    /\ ReferencesExact

\* A live reference is a pair of a process and a mapping of it.
LEMMA LiveReference ==
    ASSUME NEW e
    PROVE  /\ \A x \in LiveReferences(e) : x = <<x[1], x[2]>>
           /\ \A p, m : <<p, m>> \in LiveReferences(e) <=>
                 p \in DOMAIN procs /\ m \in procs[p].mappings /\ m \notin procs[p].deleted /\ m.exe = e
<1>1. ASSUME NEW x \in LiveReferences(e) PROVE x = <<x[1], x[2]>>
    <2>1. PICK p \in DOMAIN procs : x \in {p} \X LiveMappings(p)
        BY DEF LiveReferences
    <2> QED
        BY <2>1
<1>2. ASSUME NEW p, NEW m
      PROVE  <<p, m>> \in LiveReferences(e) <=>
                p \in DOMAIN procs /\ m \in procs[p].mappings /\ m \notin procs[p].deleted /\ m.exe = e
    BY DEF LiveReferences, LiveMappings
<1> QED
    BY <1>1, <1>2

LEMMA PairsCount ==
    ASSUME NEW p, NEW B, IsFiniteSet(B) \/ IsFiniteSet({p} \X B)
    PROVE  /\ IsFiniteSet(B) /\ IsFiniteSet({p} \X B)
           /\ Cardinality({p} \X B) = Cardinality(B)
<1>1. IsFiniteSet({p}) /\ Cardinality({p}) = 1
    BY FS_Singleton, Zenon
<1>2. CASE IsFiniteSet(B)
    <2>1. IsFiniteSet({p} \X B) /\ Cardinality({p} \X B) = 1 * Cardinality(B)
        BY <1>1, <1>2, FS_Product
    <2>2. Cardinality(B) \in Nat
        BY <1>2, FS_CardinalityType
    <2> QED
        BY <1>2, <2>1, <2>2
<1>3. CASE IsFiniteSet({p} \X B)
    <2> DEFINE f == [x \in {p} \X B |-> x[2]]
    <2>1. f \in Bijection({p} \X B, B)
        <3>1. f \in [{p} \X B -> B]
            OBVIOUS
        <3>2. \A x, y \in {p} \X B : f[x] = f[y] => x = y
            OBVIOUS
        <3>3. \A m \in B : <<p, m>> \in {p} \X B /\ f[<<p, m>>] = m
            OBVIOUS
        <3> HIDE DEF f
        <3>4. f \in Injection({p} \X B, B)
            BY <3>1, <3>2 DEF Injection, IsInjective
        <3>5. f \in Surjection({p} \X B, B)
            BY <3>1, <3>3, Zenon DEF Surjection
        <3> QED
            BY <3>4, <3>5 DEF Bijection
    <2>2. ExistsBijection({p} \X B, B)
        BY <2>1 DEF ExistsBijection
    <2> QED
        BY <1>3, <2>2, FS_Bijection
<1> QED
    BY <1>2, <1>3

\* What mark_as_deleted does to the references: they stay exact, and only the tables
\* of files go that no process maps any more.
Counts ==
    /\ \A e \in ExecutableId : IsFiniteSet(LiveReferences(e)')
    /\ ReferencesExact'
    /\ \A e \in (DOMAIN known_executables \ DOMAIN known_executables') \ VdsoExecutables' :
          LiveReferences(e)' = {}

LEMMA MarkCounts ==
    ASSUME ProcsInv, CountInv, NEW p \in DOMAIN procs, NEW S \in SUBSET procs[p].mappings,
           NEW status \in {procs[p].status, "Exited"},
           NEW entries \in SUBSET {<<p, ProcessEntry>>},
           mark_as_deleted(p, S, status, entries)
    PROVE  Counts
<1> DEFINE newly == NotYetDeleted(p, S)
           gone == {m \in LastReferences(newly) : m.exe \in DOMAIN known_executables}
           Of(e) == {n \in newly : n.exe = e}
<1>1. newly \subseteq procs[p].mappings /\ newly \cap procs[p].deleted = {} /\ procs[p] \in ProcessRecord
    BY DEF NotYetDeleted, ProcsInv
<1>2. procs' = [procs EXCEPT ![p].deleted = @ \cup newly, ![p].status = status]
    BY DEF mark_as_deleted
<1>3. object_files' = ReleaseAll(newly)
    BY DEF mark_as_deleted
<1>4. known_executables' = Drop(known_executables, {m.exe : m \in gone})
    BY DEF mark_as_deleted, DeleteTables, EvictTables
<1> HIDE DEF newly
<1>5. /\ DOMAIN procs' = DOMAIN procs
      /\ \A q \in DOMAIN procs : procs'[q].mappings = procs[q].mappings
      /\ \A q \in DOMAIN procs : q # p => procs'[q].deleted = procs[q].deleted
      /\ procs'[p].deleted = procs[p].deleted \cup newly
    BY <1>1, <1>2 DEF ProcsInv, ProcessRecord
<1>6. VdsoExecutables' = VdsoExecutables
    BY <1>5 DEF VdsoExecutables
<1>7. ASSUME NEW e
      PROVE  {p} \X Of(e) \subseteq LiveReferences(e) /\ LiveReferences(e)' = LiveReferences(e) \ ({p} \X Of(e))
    <2>1. \A q, m : <<q, m>> \in LiveReferences(e)' <=>
            q \in DOMAIN procs' /\ m \in procs'[q].mappings /\ m \notin procs'[q].deleted /\ m.exe = e
        BY DEF LiveReferences, LiveMappings
    <2>2. \A x \in LiveReferences(e)' : x = <<x[1], x[2]>>
        <3> SUFFICES ASSUME NEW x \in LiveReferences(e)' PROVE x = <<x[1], x[2]>>
            OBVIOUS
        <3>1. PICK q \in DOMAIN procs' : x \in {q} \X LiveMappings(q)'
            BY DEF LiveReferences
        <3> QED
            BY <3>1
    <2>3. {p} \X Of(e) \subseteq LiveReferences(e)
        <3>1. \A m \in Of(e) : <<p, m>> \in LiveReferences(e)
            BY <1>1, LiveReference
        <3> HIDE DEF Of
        <3> QED
            BY <3>1
    <2>4. ASSUME NEW q, NEW m
          PROVE  <<q, m>> \in LiveReferences(e)' <=> <<q, m>> \in LiveReferences(e) /\ ~(q = p /\ m \in Of(e))
        BY <1>5, <2>1, LiveReference
    <2>5. \A x \in LiveReferences(e)' : x \in LiveReferences(e) \ ({p} \X Of(e))
        BY <2>2, <2>4
    <2>6. \A x \in LiveReferences(e) \ ({p} \X Of(e)) : x \in LiveReferences(e)'
        BY <2>4, LiveReference
    <2> QED
        BY <2>3, <2>5, <2>6
<1>8. ASSUME NEW e \in ExecutableId
      PROVE  /\ IsFiniteSet(LiveReferences(e)') /\ IsFiniteSet(Of(e))
             /\ Cardinality(LiveReferences(e)) \in Nat /\ Cardinality(Of(e)) \in Nat
             /\ Cardinality(Of(e)) <= Cardinality(LiveReferences(e))
             /\ Cardinality(LiveReferences(e)') = Cardinality(LiveReferences(e)) - Cardinality(Of(e))
    <2> DEFINE L == LiveReferences(e)
               M == {p} \X Of(e)
               K == LiveReferences(e)'
    <2>1. IsFiniteSet(L) /\ M \subseteq L /\ K = L \ M
        BY <1>7 DEF CountInv
    <2>2. IsFiniteSet(M) /\ Cardinality(M) <= Cardinality(L)
        BY <2>1, FS_Subset
    <2>3. IsFiniteSet(Of(e)) /\ Cardinality(M) = Cardinality(Of(e))
        BY <2>2, PairsCount, Zenon
    <2> HIDE DEF L, M, K
    <2>4. L \cap M = M
        BY <2>1
    <2>5. IsFiniteSet(K) /\ Cardinality(K) = Cardinality(L) - Cardinality(M)
        <3>1. IsFiniteSet(L)
            BY <2>1
        <3>2. IsFiniteSet(L \ M) /\ Cardinality(L \ M) = Cardinality(L) - Cardinality(L \cap M)
            BY <3>1, FS_Difference, Zenon
        <3> QED
            BY <2>1, <2>4, <3>2
    <2>6. Cardinality(L) \in Nat /\ Cardinality(M) \in Nat
        BY <2>1, <2>2, FS_CardinalityType
    <2> QED
        BY <2>2, <2>3, <2>5, <2>6 DEF L, K
<1>9. ReferencesExact'
    <2> SUFFICES ASSUME NEW e \in DOMAIN object_files \ VdsoExecutables
                 PROVE  object_files'[e] = Cardinality(LiveReferences(e)')
        BY <1>3, <1>6 DEF ReferencesExact, ReleaseAll
    <2>1. e \in ExecutableId /\ object_files[e] = Cardinality(LiveReferences(e))
        BY DEF CountInv, ReferencesExact
    <2>2. References(newly, e) = Cardinality(Of(e))
        BY DEF References
    <2>3. object_files'[e] = IF References(newly, e) > object_files[e] THEN 0
                             ELSE object_files[e] - References(newly, e)
        BY <1>3 DEF ReleaseAll
    <2> QED
        BY <1>8, <2>1, <2>2, <2>3
<1>10. ASSUME NEW e \in (DOMAIN known_executables \ DOMAIN known_executables') \ VdsoExecutables'
       PROVE  LiveReferences(e)' = {}
    <2>1. e \in {m.exe : m \in gone}
        BY <1>4 DEF Drop
    <2>2. PICK m \in LastReferences(newly) : m.exe = e
        BY <2>1
    <2> DEFINE B == {n \in newly : n.exe = m.exe /\ n.start <= m.start}
    <2>3. e \in DOMAIN object_files /\ object_files[e] = Cardinality(B)
        BY <2>2, Zenon DEF LastReferences
    <2>4. e \in ExecutableId /\ object_files[e] = Cardinality(LiveReferences(e))
        BY <1>6, <2>3 DEF CountInv, ReferencesExact
    <2>5. B \subseteq Of(e)
        BY <2>2
    <2>6. IsFiniteSet(Of(e)) /\ IsFiniteSet(LiveReferences(e))
        BY <1>8, <2>4 DEF CountInv
    <2>7. IsFiniteSet(B)
        BY <2>5, <2>6, FS_Subset
    <2> HIDE DEF B
    <2>8. Cardinality({p} \X B) = Cardinality(LiveReferences(e))
        BY <2>3, <2>4, <2>7, PairsCount, Zenon
    <2>9. {p} \X B \subseteq LiveReferences(e)
        BY <1>7, <2>5
    <2>10. LiveReferences(e) = {p} \X B
        BY <2>6, <2>8, <2>9, FS_Subset
    <2> QED
        BY <1>7, <2>5, <2>10
<1> QED
    BY <1>8, <1>9, <1>10, Zenon DEF Counts

LEMMA SameCounts ==
    ASSUME CountInv, UNCHANGED <<procs, object_files, known_executables>>
    PROVE  Counts
BY DEF CountInv, Counts, ReferencesExact, LiveReferences, LiveMappings, VdsoExecutables

LEMMA ExitCounts ==
    ASSUME ProcsInv, CountInv, NEW p, handle_process_exit(p)
    PROVE  Counts
<1>1. CASE p \in DOMAIN procs
    <2>1. mark_as_deleted(p, procs[p].mappings, "Exited", {<<p, ProcessEntry>>})
        BY <1>1, Zenon DEF handle_process_exit
    <2> QED
        BY <1>1, <2>1, MarkCounts, Zenon
<1>2. CASE p \notin DOMAIN procs
    BY <1>2, SameCounts DEF handle_process_exit, unwindVars
<1> QED
    BY <1>1, <1>2

LEMMA MunmapCounts ==
    ASSUME ProcsInv, CountInv, NEW p, NEW a, handle_munmap(p, a)
    PROVE  Counts
<1>1. CASE p \in DOMAIN procs
    <2>1. {} \in SUBSET {<<p, ProcessEntry>>} /\ MunmapMatches(p, a) \in SUBSET procs[p].mappings
        BY <1>1 DEF MunmapMatches
    <2>2. mark_as_deleted(p, MunmapMatches(p, a), procs[p].status, {})
        BY <1>1, Zenon DEF handle_munmap
    <2> QED
        BY <1>1, <2>1, <2>2, MarkCounts, Zenon
<1>2. CASE p \notin DOMAIN procs
    BY <1>2, SameCounts DEF handle_munmap, unwindVars
<1> QED
    BY <1>1, <1>2

LEMMA EvictCounts ==
    ASSUME ProcsInv, CountInv, EvictProcess
    PROVE  Counts
BY ExitCounts, SameCounts, Zenon DEF EvictProcess, unwindVars

\* Recording a process counts its mappings once each (profiler.rs:1911-1926).
LEMMA AddCounts ==
    ASSUME RecordInv, CountInv, add_proc
    PROVE  /\ DOMAIN object_files' \subseteq ExecutableId
           /\ \A e \in ExecutableId : IsFiniteSet(LiveReferences(e)')
           /\ ReferencesExact'
<1> DEFINE p == task.pid
<1>1. task \in AddTasks /\ task.op = "add"
    BY TaskKinds DEF add_proc
<1>2. p \notin DOMAIN procs /\ task.maps \subseteq ExecMapping /\ IsFiniteSet(task.maps)
    BY <1>1 DEF AddTasks, CountInv
<1>3. PICK skipped \in SUBSET {m \in task.maps : m.kind # "Anonymous"} :
        /\ object_files' = AddReferences(task.maps \ skipped)
        /\ procs' = [q \in DOMAIN procs \cup {p} |->
                       IF q = p THEN [status |-> "Running", mappings |-> task.maps \ skipped, deleted |-> {}]
                       ELSE procs[q]]
    BY Zenon DEF add_proc
<1> DEFINE S == task.maps \ skipped
           Of(e) == {m \in S : m.exe = e}
<1>4. S \subseteq ExecMapping /\ S \subseteq task.maps
    BY <1>2
<1>5. DOMAIN object_files' = DOMAIN object_files \cup {m.exe : m \in {n \in S : n.kind # "Anonymous"}}
    BY <1>3 DEF AddReferences
<1>6. /\ DOMAIN procs' = DOMAIN procs \cup {p}
      /\ \A q \in DOMAIN procs : procs'[q] = procs[q]
      /\ procs'[p].mappings = S /\ procs'[p].deleted = {}
    BY <1>2, <1>3
<1>a. object_files' = AddReferences(S)
    BY <1>3
<1> HIDE DEF S
<1>7. DOMAIN object_files' \subseteq ExecutableId
    <2>1. \A m \in S : m.kind # "Anonymous" => m.exe \in ExecutableId
        BY <1>4 DEF ExecMapping
    <2> QED
        BY <1>5, <2>1 DEF CountInv
<1>8. ASSUME NEW e \in ExecutableId
      PROVE  /\ IsFiniteSet(Of(e)) /\ Cardinality(Of(e)) \in Nat
             /\ IsFiniteSet(LiveReferences(e)')
             /\ Cardinality(LiveReferences(e)) \in Nat
             /\ Cardinality(LiveReferences(e)') = Cardinality(LiveReferences(e)) + Cardinality(Of(e))
    <2> DEFINE L == LiveReferences(e)
               M == {p} \X Of(e)
               K == LiveReferences(e)'
    <2>1. IsFiniteSet(Of(e))
        BY <1>2, <1>4, FS_Subset
    <2>2. IsFiniteSet(M) /\ Cardinality(M) = Cardinality(Of(e)) /\ IsFiniteSet(L)
        BY <2>1, PairsCount, Zenon DEF CountInv
    <2>3. L \cap M = {}
        <3>1. \A m \in Of(e) : <<p, m>> \notin L
            BY <1>2, LiveReference
        <3> HIDE DEF Of, L
        <3> QED
            BY <3>1
    <2>4. K = L \cup M
        <3>1. ASSUME NEW q, NEW m
              PROVE  <<q, m>> \in K <=> <<q, m>> \in L \/ (q = p /\ m \in Of(e))
            <4>1. <<q, m>> \in K <=>
                    q \in DOMAIN procs' /\ m \in procs'[q].mappings /\ m \notin procs'[q].deleted /\ m.exe = e
                BY DEF LiveReferences, LiveMappings
            <4> QED
                BY <1>2, <1>6, <4>1, LiveReference
        <3>2. \A x \in K : x = <<x[1], x[2]>>
            <4> SUFFICES ASSUME NEW x \in K PROVE x = <<x[1], x[2]>>
                OBVIOUS
            <4>1. PICK q \in DOMAIN procs' : x \in {q} \X LiveMappings(q)'
                BY DEF LiveReferences
            <4> QED
                BY <4>1
        <3>3. \A x \in L : x = <<x[1], x[2]>>
            BY LiveReference
        <3> HIDE DEF K, L, Of
        <3> QED
            BY <3>1, <3>2, <3>3
    <2> HIDE DEF L, M, K
    <2>5. IsFiniteSet(K) /\ Cardinality(K) = Cardinality(L) + Cardinality(M) - Cardinality({})
        BY <2>2, <2>3, <2>4, FS_Union
    <2>6. Cardinality(L) \in Nat /\ Cardinality(M) \in Nat /\ Cardinality({}) = 0
        BY <2>2, FS_CardinalityType, FS_EmptySet
    <2> QED
        BY <2>1, <2>2, <2>5, <2>6 DEF L, K
<1>9. ReferencesExact'
    <2> SUFFICES ASSUME NEW e \in DOMAIN object_files' \ VdsoExecutables'
                 PROVE  object_files'[e] = Cardinality(LiveReferences(e)')
        BY DEF ReferencesExact
    <2>1. e \in ExecutableId
        BY <1>7
    <2>2. ~(\E m \in S : m.exe = e /\ m.kind = "Vdso") /\ e \notin VdsoExecutables
        BY <1>2, <1>6 DEF VdsoExecutables
    <2>3. object_files'[e] = References(S, e) + (IF e \in DOMAIN object_files THEN object_files[e] ELSE 0)
        BY <1>a, <2>2 DEF AddReferences
    <2>4. References(S, e) = Cardinality(Of(e))
        BY DEF References
    <2>5. CASE e \in DOMAIN object_files
        <3>1. object_files[e] = Cardinality(LiveReferences(e))
            BY <2>2, <2>5 DEF CountInv, ReferencesExact
        <3> QED
            BY <1>8, <2>1, <2>3, <2>4, <2>5, <3>1
    <2>6. CASE e \notin DOMAIN object_files
        <3>1. LiveReferences(e) = {}
            <4> SUFFICES ASSUME NEW x \in LiveReferences(e) PROVE FALSE
                OBVIOUS
            <4>1. x[1] \in DOMAIN procs /\ x[2] \in procs[x[1]].mappings /\ x[2].exe = e
                BY LiveReference
            <4>2. x[2] \in ExecMapping /\ HasFile(x[2])
                BY <4>1 DEF RecordInv, ProcsInv, ProcessRecord
            <4>3. x[2].kind # "Anonymous"
                BY <2>1, <4>1, <4>2, ProfilerAssumption DEF ExecMapping
            <4> QED
                BY <2>6, <4>1, <4>2, <4>3 DEF HasFile
        <3>2. Cardinality(LiveReferences(e)) = 0
            BY <3>1, FS_EmptySet
        <3> QED
            BY <1>8, <2>1, <2>3, <2>4, <2>6, <3>2
    <2> QED
        BY <2>5, <2>6
<1> QED
    BY <1>7, <1>8, <1>9, Zenon

LEMMA CountInit == Init => CountInv
<1> SUFFICES ASSUME Init PROVE CountInv
    OBVIOUS
<1>1. /\ DOMAIN procs = {KERNEL_PID} /\ procs[KERNEL_PID].mappings = {KernelMapping}
      /\ procs[KERNEL_PID].deleted = {}
      /\ DOMAIN object_files = {KernelExecutable} /\ object_files[KernelExecutable] = 1
      /\ KernelMapping.exe = KernelExecutable
    BY DEF Init, KernelMapping, Mapping
<1>2. ASSUME NEW e
      PROVE  /\ e = KernelExecutable => LiveReferences(e) = {<<KERNEL_PID, KernelMapping>>}
             /\ e # KernelExecutable => LiveReferences(e) = {}
    <2>1. \A p, m : <<p, m>> \in LiveReferences(e) <=> p = KERNEL_PID /\ m = KernelMapping /\ e = KernelExecutable
        <3> SUFFICES ASSUME NEW p, NEW m
                     PROVE  <<p, m>> \in LiveReferences(e) <=> p = KERNEL_PID /\ m = KernelMapping /\ e = KernelExecutable
            BY Zenon
        <3>1. <<p, m>> \in LiveReferences(e) <=>
                p \in DOMAIN procs /\ m \in procs[p].mappings /\ m \notin procs[p].deleted /\ m.exe = e
            BY LiveReference, Zenon
        <3> QED
            BY <1>1, <3>1
    <2>2. \A x \in LiveReferences(e) : x = <<x[1], x[2]>>
        BY LiveReference
    <2> QED
        BY <2>1, <2>2
<1>3. \A e \in ExecutableId : IsFiniteSet(LiveReferences(e))
    <2> TAKE e \in ExecutableId
    <2>1. LiveReferences(e) = {} \/ LiveReferences(e) = {<<KERNEL_PID, KernelMapping>>}
        BY <1>2, Zenon
    <2> QED
        BY <2>1, FS_EmptySet, FS_Singleton, Zenon
<1>4. ReferencesExact
    BY <1>1, <1>2, FS_Singleton, Zenon DEF ReferencesExact
<1> QED
    BY <1>1, <1>3, <1>4, ProfilerAssumption, Zenon DEF Init, CountInv, Select

\* Loading a table only evicts others when that is noted (profiler.rs:1599-1643).
LEMMA AddKeepsKnown ==
    ASSUME UnwindTypeOK, NEW e, NEW ok, AddUnwindInformation(e, ok), evicted_lately' = evicted_lately
    PROVE  DOMAIN known_executables \subseteq DOMAIN known_executables'
<1>1. CASE UNCHANGED unwindVars
    BY <1>1 DEF unwindVars
<1>2. CASE EvictAndAdd(e, ok)
    <2>1. PICK V \in Victims(Rows[e]) :
            /\ evicted_lately' = (evicted_lately \/ V # {})
            /\ WriteTable(e, V, ok) \/ EvictTables(V)
        BY <1>2, Zenon DEF EvictAndAdd
    <2>2. V = {}
        <3>1. CASE ~evicted_lately
            <4>1. ~evicted_lately'
                BY <3>1
            <4>2. ~(evicted_lately \/ V # {})
                BY <2>1, <4>1, Zenon
            <4> QED
                BY <4>2
        <3>2. CASE evicted_lately
            <4>1. ~ShouldEvict(Rows[e])
                BY <1>2, <3>2, Zenon DEF EvictAndAdd
            <4>2. EvictionCount(Rows[e]) = 0
                BY <4>1 DEF ShouldEvict, EvictionCount
            <4>3. IsFiniteSet(DOMAIN known_executables) /\ V \in SUBSET DOMAIN known_executables
                BY TablesAssumption, VictimsAreKnown, FS_Subset DEF UnwindTypeOK
            <4>4. Cardinality(DOMAIN known_executables) \in Nat /\ IsFiniteSet(V)
                BY <4>3, FS_CardinalityType, FS_Subset
            <4>5. Cardinality(V) = IF 0 < Cardinality(DOMAIN known_executables) THEN 0
                                   ELSE Cardinality(DOMAIN known_executables)
                BY <4>2 DEF Victims, LeastRecentlyUsed
            <4>6. Cardinality(V) = 0
                BY <4>4, <4>5
            <4> QED
                BY <4>4, <4>6, FS_EmptySet
        <3> QED
            BY <3>1, <3>2
    <2> QED
        BY <2>1, <2>2, Zenon DEF WriteTable, EvictTables, Drop, Stamp
<1> QED
    BY <1>1, <1>2 DEF AddUnwindInformation, AlreadyLoaded, FetchFails, EvictionRefused

LEMMA LoadingIsNoAdding ==
    ASSUME event_new_proc_known \/ add_bpf_mappings
    PROVE  task'.op # "add"
<1>1. CASE event_new_proc_known
    <2>1. \A p : LoadTask(p).op # "add"
        BY Zenon DEF LoadTask
    <2> QED
        BY <1>1, <2>1 DEF event_new_proc_known
<1>2. CASE add_bpf_mappings
    BY <1>2, Zenon DEF add_bpf_mappings, Select
<1> QED
    BY <1>1, <1>2

Outlives ==
    \A e \in (DOMAIN known_executables \ DOMAIN known_executables') \ VdsoExecutables' :
        evicted_lately' = evicted_lately => LiveReferences(e)' = {}

\* Steps that record and delete nothing keep the counts.
LEMMA CountKeep ==
    ASSUME CountInv, UNCHANGED <<procs, object_files>>,
           \A p \in DOMAIN os' : IsFiniteSet(os'[p]), task'.op = "add" => IsFiniteSet(task'.maps)
    PROVE  CountInv'
<1>1. VdsoExecutables' = VdsoExecutables /\ \A e : LiveReferences(e)' = LiveReferences(e)
    BY Zenon DEF LiveReferences, LiveMappings, VdsoExecutables
<1> QED
    BY <1>1 DEF CountInv, ReferencesExact

LEMMA UnmappedIsFinite ==
    ASSUME NEW S, IsFiniteSet(S), NEW r
    PROVE  IsFiniteSet(Unmapped(S, r))
<1> DEFINE T == {Pieces(m, r) : m \in S}
           f == [m \in S |-> Pieces(m, r)]
<1>1. f \in Surjection(S, T)
    BY Zenon DEF Surjection
<1>2. IsFiniteSet(T)
    BY <1>1, FS_Surjection
<1>3. ASSUME NEW m PROVE IsFiniteSet(Pieces(m, r))
    <2> DEFINE before == [m EXCEPT !.end = r.start]
               behind == [m EXCEPT !.start = r.end]
               U == ({m} \cup {before}) \cup {behind}
    <2>1. IsFiniteSet(U)
        <3>1. IsFiniteSet({m})
            BY FS_Singleton, Zenon
        <3>2. IsFiniteSet({m} \cup {before})
            BY <3>1, FS_AddElement, Zenon
        <3> QED
            BY <3>2, FS_AddElement, Zenon
    <2>2. Pieces(m, r) \in SUBSET U
        BY Zenon DEF Pieces
    <2> QED
        BY <2>1, <2>2, FS_Subset, Zenon
<1> QED
    BY <1>2, <1>3, FS_UNION, Zenon DEF Unmapped

LEMMA KernelKeepsCount ==
    ASSUME RecordInv, CountInv, NEW p \in Pid,
           \/ ProcessStart(p)
           \/ \E m \in Dlopened[p] : Mmap(p, m)
           \/ \E r \in Unmaps[p] : Munmap(p, r)
           \/ tracer_process_exit(p)
    PROVE  CountInv'
<1>1. UNCHANGED <<procs, object_files, task>>
    BY Zenon DEF ProcessStart, Mmap, Munmap, tracer_process_exit, userVars
<1>2. \A q \in DOMAIN os : IsFiniteSet(os[q])
    BY Zenon DEF CountInv
<1>3. \A q \in DOMAIN os' : IsFiniteSet(os'[q])
    <2>1. CASE ProcessStart(p)
        <3>1. PICK layout \in Layouts[p] : os' = [q \in DOMAIN os \cup {p} |-> IF q = p THEN layout ELSE os[q]]
            BY <2>1, Zenon DEF ProcessStart
        <3>2. IsFiniteSet(layout)
            BY ProfilerAssumption, Zenon
        <3> QED
            BY <1>2, <3>1, <3>2
    <2>2. ASSUME NEW m \in Dlopened[p], Mmap(p, m)
          PROVE  \A q \in DOMAIN os' : IsFiniteSet(os'[q])
        <3>1. p \in DOMAIN os /\ os' = [os EXCEPT ![p] = @ \cup {m}]
            BY <2>2 DEF Mmap
        <3>2. IsFiniteSet(os[p] \cup {m})
            BY <1>2, <3>1, FS_AddElement
        <3> QED
            BY <1>2, <3>1, <3>2
    <2>3. ASSUME NEW r \in Unmaps[p], Munmap(p, r)
          PROVE  \A q \in DOMAIN os' : IsFiniteSet(os'[q])
        <3>1. p \in DOMAIN os /\ os' = [os EXCEPT ![p] = Unmapped(os[p], r)]
            BY <2>3, Zenon DEF Munmap
        <3>2. IsFiniteSet(Unmapped(os[p], r))
            BY <1>2, <3>1, UnmappedIsFinite, Zenon
        <3> QED
            BY <1>2, <3>1, <3>2
    <2>4. CASE tracer_process_exit(p)
        BY <1>2, <2>4, Zenon DEF tracer_process_exit
    <2> QED
        BY <2>1, <2>2, <2>3, <2>4, Zenon
<1> QED
    BY <1>1, <1>3, CountKeep, Zenon DEF CountInv

LEMMA MainLoopCounts ==
    ASSUME RecordInv, CountInv, UnwindTypeOK, MainLoop
    PROVE  CountInv' /\ Outlives
<1>1. os' = os
    BY Zenon DEF MainLoop, event_new_proc_ignored, event_new_proc_known, event_new_proc_unknown, add_proc,
           load_unwind_info, add_bpf_mappings, remove_partial_write, evict_to_make_room,
           event_need_unwind_info, receive_tracer_event, Received, kernelVars
<1>2. ASSUME Counts, DOMAIN object_files' = DOMAIN object_files, task'.op = "add" => IsFiniteSet(task'.maps)
      PROVE  CountInv' /\ Outlives
    BY <1>1, <1>2, Zenon DEF Counts, CountInv, Outlives
<1>3. CASE remove_partial_write \/ evict_to_make_room
    <2>1. Counts
        BY <1>3, ExitCounts, EvictCounts, SameCounts
        DEF remove_partial_write, evict_to_make_room, RecordInv, userVars, unwindVars
    <2>2. Deletes \/ UNCHANGED object_files
        BY <1>3, ExitDeletes, EvictDeletes DEF remove_partial_write, evict_to_make_room, RecordInv, userVars
    <2>3. task'.op # "add"
        BY <1>3 DEF remove_partial_write, evict_to_make_room, Select
    <2> QED
        BY <1>2, <2>1, <2>2, <2>3, Zenon DEF Deletes
<1>4. CASE receive_tracer_event
    <2>1. Counts /\ Deletes /\ task' = Select
        BY <1>4, ExitCounts, MunmapCounts, ExitDeletes, MunmapDeletes DEF receive_tracer_event, RecordInv
    <2> QED
        BY <1>2, <2>1 DEF Deletes, Select
<1>5. CASE event_new_proc_unknown
    <2>1. Counts
        BY <1>5, EvictCounts, SameCounts DEF event_new_proc_unknown, RecordInv, userVars, unwindVars
    <2>2. Deletes \/ UNCHANGED object_files
        BY <1>5, EvictDeletes, Zenon DEF event_new_proc_unknown, RecordInv, userVars
    <2>3. task'.op = "add" => IsFiniteSet(task'.maps)
        BY <1>5, Zenon DEF event_new_proc_unknown, CountInv
    <2> QED
        BY <1>2, <2>1, <2>2, <2>3, Zenon DEF Deletes
<1>6. CASE add_proc
    <2>1. known_executables' = known_executables
        BY <1>6, Zenon DEF add_proc, unwindVars
    <2>2. task'.op # "add"
        BY <1>6, Zenon DEF add_proc, LoadTask, Select
    <2> QED
        BY <1>1, <1>6, <2>1, <2>2, AddCounts, Zenon DEF CountInv, Outlives
<1>7. CASE load_unwind_info
    <2>1. \E m \in task.todo, ok \in BOOLEAN : AddUnwindInformation(m.exe, ok)
        BY <1>7, Zenon DEF load_unwind_info
    <2>2. Outlives
        BY <2>1, AddKeepsKnown DEF Outlives
    <2>3. task'.op # "add"
        BY <1>7, TaskKinds DEF load_unwind_info, Select, LoadTasks
    <2> QED
        BY <1>1, <1>7, <2>2, <2>3, CountKeep DEF load_unwind_info, userVars, CountInv
<1>8. CASE event_need_unwind_info
    <2>1. known_executables' = known_executables \/ \E e, ok : AddUnwindInformation(e, ok)
        BY <1>8, Zenon DEF event_need_unwind_info, unwindVars
    <2>2. Outlives
        BY <2>1, AddKeepsKnown DEF Outlives
    <2> QED
        BY <1>1, <1>8, <2>2, CountKeep, Zenon DEF event_need_unwind_info, userVars, CountInv
<1>9. CASE event_new_proc_ignored \/ event_new_proc_known \/ add_bpf_mappings
    <2>1. UNCHANGED <<procs, object_files, known_executables>>
        BY <1>9, Zenon
        DEF event_new_proc_ignored, event_new_proc_known, add_bpf_mappings, userVars, unwindVars
    <2>2. task'.op = "add" => task' = task
        BY <1>9, LoadingIsNoAdding DEF event_new_proc_ignored
    <2> QED
        BY <1>1, <2>1, <2>2, CountKeep, Zenon DEF CountInv, Outlives
<1> QED
    BY <1>3, <1>4, <1>5, <1>6, <1>7, <1>8, <1>9, Zenon DEF MainLoop

LEMMA CountNext == RecordInv /\ CountInv /\ UnwindTypeOK /\ [Next]_vars => CountInv' /\ Outlives
<1> SUFFICES ASSUME RecordInv, CountInv, UnwindTypeOK, [Next]_vars
             PROVE  CountInv' /\ Outlives
    OBVIOUS
<1>1. ASSUME NEW p \in Pid,
             \/ ProcessStart(p)
             \/ \E m \in Dlopened[p] : Mmap(p, m)
             \/ \E r \in Unmaps[p] : Munmap(p, r)
             \/ tracer_process_exit(p)
      PROVE  CountInv' /\ Outlives
    <2>1. known_executables' = known_executables
        BY <1>1, Zenon DEF ProcessStart, Mmap, Munmap, tracer_process_exit, unwindVars
    <2> QED
        BY <1>1, <2>1, KernelKeepsCount DEF Outlives
<1>2. CASE collect_profile \/ ProcessCooldown \/ TablesCooldown \/ (\E p \in Pid : on_event(p)) \/ UNCHANGED vars
    <2>1. UNCHANGED <<procs, object_files, os, task>>
        BY <1>2, Zenon DEF collect_profile, ProcessCooldown, TablesCooldown, on_event, vars, kernelVars, userVars
    <2>2. DOMAIN known_executables \subseteq DOMAIN known_executables'
        BY <1>2, Zenon DEF collect_profile, ProcessCooldown, TablesCooldown, on_event, vars, unwindVars, BumpExecutables,
                    ExecutableCooldown, Stamp
    <2> QED
        BY <2>1, <2>2, CountKeep, Zenon DEF CountInv, Outlives
<1> QED
    BY <1>1, <1>2, MainLoopCounts, Zenon DEF Next

\* For any processes, mappings and limits: the references of a file are exactly its
\* mappings that are not deleted, whatever exits, munmaps and evictions delete
\* (ReferencesExact; profiler.rs:1911-1926, process.rs:84-88).
THEOREM ReferencesAlwaysExact == Spec => []ReferencesExact
<1>1. CountInv => ReferencesExact
    BY DEF CountInv
<1> QED
    BY <1>1, CountInit, CountNext, RecordAlways, ProfilerImplementsTables, UnwindTypeCorrect, PTL DEF Spec

\* So no table of a file is deleted, but by an eviction, while a process maps it
\* (TablesOutliveMappings; process.rs:91-94).
THEOREM TablesAlwaysOutliveMappings == Spec => TablesOutliveMappings
<1>1. RecordInv /\ CountInv /\ UnwindTypeOK /\ [Next]_vars =>
        [\A e \in (DOMAIN known_executables \ DOMAIN known_executables') \ VdsoExecutables' :
            evicted_lately' = evicted_lately => LiveReferences(e)' = {}]_vars
    BY CountNext DEF Outlives
<1> QED
    BY <1>1, CountInit, CountNext, RecordAlways, ProfilerImplementsTables, UnwindTypeCorrect, PTL
    DEF Spec, TablesOutliveMappings
-----------------------------------------------------------------------------
\* What is deleted of a running process.

\* Every mapping of S was one of p's since p was started, so that it still is or p
\* has removed memory of it.
AsMapped(p, S) == p \in DOMAIN os /\ \A m \in S : m \in os[p] \/ RemovedPart(p, m)

\* Of what a munmap() event of p at the address a, the i-th in the channel, will delete
\* p has removed memory, unless p is not held as running by then.
Meant(i, p, a) ==
    \/ p \in unreported
    \/ p \notin RunningProcs
    \/ \E j \in 1..(i - 1) : tracers_chan[j] = ExitEvent(p)
    \/ \A m \in procs[p].mappings : Contains(m, a) => RemovedPart(p, m)

MunmapEvent(p, a) == [type |-> "Munmap", pid |-> p, start_address |-> a]

WasUnmapped(p, a) == \E x \in unmapped : x[1] = p /\ x[2] = a

EventMeant(i, p, a) ==
    tracers_chan[i] = MunmapEvent(p, a) => p \in DOMAIN procs /\ WasUnmapped(p, a) /\ Meant(i, p, a)

EventInv == \A i \in DOMAIN tracers_chan : \A p \in Pid, a \in Nat : EventMeant(i, p, a)

MappedInv ==
    /\ \A p \in RunningProcs \ {KERNEL_PID} :
          p \in unreported \/ ExitPending(p) \/ AsMapped(p, procs[p].mappings)
    /\ task.op = "add" => task.pid \in unreported \/ AsMapped(task.pid, task.maps)

DeletedInv == EventInv /\ MappedInv /\ DeletedWasUnmapped

\* A running process is left as it was, and none starts to run.
LeavesRunning == \A q \in RunningProcs' : q \in RunningProcs /\ procs'[q] = procs[q]

LEMMA ExitLeavesRunning ==
    ASSUME ProcsInv, NEW p, handle_process_exit(p)
    PROVE  LeavesRunning
<1>1. CASE p \in DOMAIN procs
    <2>1. procs' = [procs EXCEPT ![p].deleted = @ \cup NotYetDeleted(p, procs[p].mappings), ![p].status = "Exited"]
        BY <1>1 DEF handle_process_exit, mark_as_deleted
    <2>2. procs[p] \in ProcessRecord
        BY <1>1 DEF ProcsInv
    <2>3. procs'[p].status = "Exited" /\ \A q \in DOMAIN procs : q # p => procs'[q] = procs[q]
        BY <1>1, <2>1, <2>2, Zenon DEF ProcessRecord
    <2> QED
        BY <2>1, <2>3 DEF LeavesRunning, RunningProcs
<1>2. CASE p \notin DOMAIN procs
    BY <1>2 DEF handle_process_exit, LeavesRunning, RunningProcs
<1> QED
    BY <1>1, <1>2

LEMMA EvictLeavesRunning ==
    ASSUME ProcsInv, EvictProcess
    PROVE  LeavesRunning
BY ExitLeavesRunning, Zenon DEF EvictProcess, LeavesRunning, RunningProcs

LEMMA RemovedStays ==
    ASSUME unmapped \subseteq unmapped'
    PROVE  \A p, m : RemovedPart(p, m) => RemovedPart(p, m)'
BY Zenon DEF RemovedPart

LEMMA WasRemovedStays ==
    ASSUME unmapped \subseteq unmapped', unreported \subseteq unreported'
    PROVE  \A p, m : WasRemoved(p, m) => WasRemoved(p, m)'
BY RemovedStays, Zenon DEF WasRemoved

\* Steps that leave the operating system, the events and the running processes alone.
LEMMA LeavesDeleted ==
    ASSUME DeletedInv, LeavesRunning, DOMAIN procs \subseteq DOMAIN procs',
           \A p \in DOMAIN procs : procs'[p].mappings = procs[p].mappings,
           UNCHANGED <<os, unmapped, unreported, tracers_chan>>,
           task'.op = "add" => task'.pid \in unreported \/ AsMapped(task'.pid, task'.maps)
    PROVE  DeletedInv'
<1>1. EventInv'
    <2> USE DEF EventInv
    <2>. TAKE i \in DOMAIN tracers_chan'
    <2>. TAKE p \in Pid, a \in Nat
    <2> SUFFICES ASSUME tracers_chan[i] = MunmapEvent(p, a)
                 PROVE  p \in DOMAIN procs' /\ WasUnmapped(p, a)' /\ Meant(i, p, a)'
        BY Zenon DEF EventMeant, MunmapEvent
    <2>1. p \in DOMAIN procs /\ WasUnmapped(p, a) /\ Meant(i, p, a)
        BY Zenon DEF DeletedInv, EventInv, EventMeant
    <2>2. procs'[p].mappings = procs[p].mappings /\ (p \in RunningProcs' => p \in RunningProcs)
        BY <2>1, Zenon DEF LeavesRunning
    <2> QED
        BY <2>1, <2>2, Zenon DEF Meant, ExitEvent, Contains, WasUnmapped, RemovedPart
<1>2. MappedInv'
    <2>1. \A p, S : AsMapped(p, S) => AsMapped(p, S)'
        BY RemovedStays, Zenon DEF AsMapped
    <2> QED
        BY <2>1, Zenon DEF DeletedInv, MappedInv, ExitPending, ExitEvent, LeavesRunning
<1>3. DeletedWasUnmapped'
    BY WasRemovedStays, Zenon DEF DeletedInv, DeletedWasUnmapped, LeavesRunning
<1> QED
    BY <1>1, <1>2, <1>3 DEF DeletedInv

-----------------------------------------------------------------------------
\* The kernel: an event that is sent is meant, and the ones before it stay so.
LEMMA StaysMeant ==
    ASSUME ChanInv, NEW e \in TracerEvents, SendTracerEvent(e) \/ UNCHANGED tracers_chan,
           procs' = procs, unmapped \subseteq unmapped', unreported \subseteq unreported',
           NEW i \in DOMAIN tracers_chan, NEW p, NEW a, EventMeant(i, p, a)
    PROVE  EventMeant(i, p, a)'
<1>1. /\ i \in DOMAIN tracers_chan' /\ tracers_chan'[i] = tracers_chan[i]
      /\ \A j \in 1..(i - 1) : tracers_chan'[j] = tracers_chan[j]
    <2>1. CASE tracers_chan' = Append(tracers_chan, e)
        <3>1. /\ tracers_chan \in Seq(TracerEvents) /\ DOMAIN tracers_chan = 1..Len(tracers_chan)
              /\ Len(tracers_chan) \in Nat
            BY LenProperties DEF ChanInv
        <3>2. /\ DOMAIN tracers_chan' = 1..(Len(tracers_chan) + 1)
              /\ \A j \in 1..Len(tracers_chan) : tracers_chan'[j] = tracers_chan[j]
            <4>1. /\ tracers_chan' \in Seq(TracerEvents) /\ Len(tracers_chan') = Len(tracers_chan) + 1
                  /\ \A j \in 1..Len(tracers_chan) : tracers_chan'[j] = tracers_chan[j]
                <5> DEFINE T == TracerEvents
                           s == tracers_chan
                <5>1. s \in Seq(T) /\ e \in T
                    BY <3>1
                <5> HIDE DEF s, T
                <5>2. /\ Append(s, e) \in Seq(T) /\ Len(Append(s, e)) = Len(s) + 1
                      /\ \A j \in 1..Len(s) : Append(s, e)[j] = s[j]
                    BY <5>1, AppendProperties
                <5> QED
                    BY <2>1, <5>2 DEF s, T
            <4>2. DOMAIN tracers_chan' = 1..Len(tracers_chan')
                BY <4>1, LenProperties
            <4> QED
                BY <4>1, <4>2
        <3> QED
            BY <3>1, <3>2
    <2>2. CASE tracers_chan' = tracers_chan
        BY <2>2
    <2> QED
        BY <2>1, <2>2 DEF SendTracerEvent
<1>2. RunningProcs' = RunningProcs
    BY DEF RunningProcs
<1> QED
    BY <1>1, <1>2, RemovedStays, Zenon DEF EventMeant, Meant, MunmapEvent, ExitEvent, WasUnmapped

\* Where the elements of a channel are after one was sent, and after one was received.
LEMMA Appended ==
    ASSUME NEW S, NEW s \in Seq(S), NEW x \in S
    PROVE  /\ \A j \in DOMAIN s : Append(s, x)[j] = s[j]
           /\ \A j \in DOMAIN Append(s, x) : j \notin DOMAIN s => j = Len(s) + 1 /\ Append(s, x)[j] = x
BY AppendProperties, LenProperties

LEMMA TailOf ==
    ASSUME NEW S, NEW s \in Seq(S), s # <<>>
    PROVE  /\ Head(s) \in S /\ Head(s) = s[1] /\ 1 \in DOMAIN s
           /\ \A j \in DOMAIN s : j \in Nat /\ 1 <= j
           /\ \A j \in DOMAIN s : j # 1 => j - 1 \in DOMAIN Tail(s)
           /\ \A j \in DOMAIN Tail(s) : j \in Nat /\ j + 1 \in DOMAIN s /\ Tail(s)[j] = s[j + 1]
BY HeadTailProperties, LenProperties

LEMMA SentIsMeant ==
    ASSUME ChanInv, EventInv, NEW e \in TracerEvents, SendTracerEvent(e) \/ UNCHANGED tracers_chan,
           procs' = procs, unmapped \subseteq unmapped', unreported \subseteq unreported',
           NEW n, n = Len(tracers_chan) + 1,
           tracers_chan' # tracers_chan =>
               \A p \in Pid, a \in Nat : e = MunmapEvent(p, a) =>
                  p \in DOMAIN procs /\ WasUnmapped(p, a)' /\ Meant(n, p, a)'
    PROVE  EventInv'
<1> SUFFICES ASSUME NEW i \in DOMAIN tracers_chan', NEW p \in Pid, NEW a \in Nat
             PROVE  EventMeant(i, p, a)'
    BY Zenon DEF EventInv
<1>1. tracers_chan \in Seq(TracerEvents)
    BY DEF ChanInv
<1>2. CASE i \in DOMAIN tracers_chan
    <2>1. EventMeant(i, p, a)
        BY <1>2, Zenon DEF EventInv
    <2> QED
        BY <1>2, <2>1, StaysMeant
<1>3. CASE i \notin DOMAIN tracers_chan
    <2>1. tracers_chan' = Append(tracers_chan, e)
        BY <1>3 DEF SendTracerEvent
    <2>2. i = Len(tracers_chan) + 1 /\ tracers_chan'[i] = e
        BY <1>1, <1>3, <2>1, Appended, Zenon
    <2>3. tracers_chan' # tracers_chan
        BY <1>3
    <2>4. ASSUME e = MunmapEvent(p, a)
          PROVE  p \in DOMAIN procs /\ WasUnmapped(p, a)' /\ Meant(i, p, a)'
        <3>1. i = n
            BY <2>2
        <3> QED
            BY <2>3, <2>4, <3>1, Zenon
    <2> QED
        BY <2>2, <2>4, Zenon DEF EventMeant, MunmapEvent
<1> QED
    BY <1>2, <1>3

LEMMA KernelKeepsMapped ==
    ASSUME MappedInv, UNCHANGED <<procs, task>>, unreported \subseteq unreported',
           \A q : ExitPending(q) => ExitPending(q)', NEW p,
           \A q, S : q # p /\ AsMapped(q, S) => AsMapped(q, S)',
           \/ \A S : AsMapped(p, S) => AsMapped(p, S)'
           \/ /\ p \in unreported' \/ ExitPending(p)'
              /\ task.op = "add" /\ task.pid = p => p \in unreported'
    PROVE  MappedInv'
<1>1. RunningProcs' = RunningProcs
    BY Zenon DEF RunningProcs
<1>2. ASSUME NEW q \in RunningProcs \ {KERNEL_PID}
      PROVE  q \in unreported' \/ ExitPending(q)' \/ AsMapped(q, procs[q].mappings)'
    <2>1. q \in unreported \/ ExitPending(q) \/ AsMapped(q, procs[q].mappings)
        BY Zenon DEF MappedInv
    <2>2. ASSUME NEW S, S = procs[q].mappings, AsMapped(q, S)
          PROVE  q \in unreported' \/ ExitPending(q)' \/ AsMapped(q, S)'
        BY <2>2, Zenon
    <2>3. ASSUME AsMapped(q, procs[q].mappings)
          PROVE  q \in unreported' \/ ExitPending(q)' \/ AsMapped(q, procs[q].mappings)'
        BY <2>2, <2>3, Zenon DEF AsMapped
    <2> QED
        BY <2>1, <2>3, Zenon
<1>3. ASSUME task.op = "add"
      PROVE  task.pid \in unreported' \/ AsMapped(task.pid, task.maps)'
    <2>1. task.pid \in unreported \/ AsMapped(task.pid, task.maps)
        BY <1>3, Zenon DEF MappedInv
    <2>2. ASSUME NEW q, NEW S, q = task.pid, S = task.maps, AsMapped(q, S)
          PROVE  q \in unreported' \/ AsMapped(q, S)'
        BY <1>3, <2>2, Zenon
    <2>3. ASSUME AsMapped(task.pid, task.maps)
          PROVE  task.pid \in unreported' \/ AsMapped(task.pid, task.maps)'
        BY <2>2, <2>3, Zenon DEF AsMapped
    <2> QED
        BY <2>1, <2>3, Zenon
<1> QED
    BY <1>1, <1>2, <1>3, Zenon DEF MappedInv

LEMMA KernelKeepsDeleted ==
    ASSUME procs' = procs, unmapped \subseteq unmapped', unreported \subseteq unreported', DeletedWasUnmapped
    PROVE  DeletedWasUnmapped'
BY WasRemovedStays, Zenon DEF DeletedWasUnmapped, RunningProcs

LEMMA MmapKeeps ==
    ASSUME DeletedInv, NEW p \in Pid, ProcessStart(p) \/ \E m \in Dlopened[p] : Mmap(p, m)
    PROVE  DeletedInv'
<1>1. UNCHANGED <<procs, task, tracers_chan, unmapped, unreported>>
    BY Zenon DEF ProcessStart, Mmap, userVars
<1>2. DOMAIN os \subseteq DOMAIN os' /\ \A q \in DOMAIN os : os[q] \subseteq os'[q]
    BY Zenon DEF ProcessStart, Mmap
<1>3. \A q, S : AsMapped(q, S) => AsMapped(q, S)'
    BY <1>1, <1>2, Zenon DEF AsMapped, RemovedPart
<1>4. MappedInv'
    BY <1>1, <1>3, KernelKeepsMapped, Zenon DEF DeletedInv, ExitPending, ExitEvent
<1>5. EventInv'
    <2>1. RunningProcs' = RunningProcs
        BY <1>1 DEF RunningProcs
    <2>2. \A i, q, a : Meant(i, q, a) => Meant(i, q, a)'
        BY <1>1, <2>1, Zenon DEF Meant, ExitEvent, RemovedPart
    <2>3. \A i, q, a : EventMeant(i, q, a) => EventMeant(i, q, a)'
        BY <1>1, <2>2, Zenon DEF EventMeant, MunmapEvent, WasUnmapped
    <2>4. DOMAIN tracers_chan' = DOMAIN tracers_chan
        BY <1>1
    <2> QED
        BY <2>3, <2>4, Zenon DEF DeletedInv, EventInv
<1> QED
    BY <1>1, <1>4, <1>5, KernelKeepsDeleted DEF DeletedInv

LEMMA ProcessExitKeeps ==
    ASSUME RecordInv, DeletedInv, NEW p \in Pid, tracer_process_exit(p)
    PROVE  DeletedInv'
<1>1. UNCHANGED <<procs, task, unmapped>>
    BY DEF tracer_process_exit, userVars
<1>2. \A q, S : q # p /\ AsMapped(q, S) => AsMapped(q, S)'
    BY <1>1, Zenon DEF AsMapped, RemovedPart, tracer_process_exit
<1>3. MappedInv'
    BY <1>1, <1>2, ExitIsNoted, KernelKeepsMapped, Zenon DEF DeletedInv
<1>4. \A q, a : ExitEvent(p) # MunmapEvent(q, a)
    BY Zenon DEF ExitEvent, MunmapEvent
<1>5. EventInv'
    BY <1>1, <1>4, ExitIsNoted, SentIsMeant, Zenon DEF DeletedInv, RecordInv
<1> QED
    BY <1>1, <1>3, <1>5, ExitIsNoted, KernelKeepsDeleted, Zenon DEF DeletedInv

LEMMA MunmapKeeps ==
    ASSUME RecordInv, DeletedInv, NEW p \in Pid, NEW r \in Unmaps[p], Munmap(p, r)
    PROVE  DeletedInv'
<1> DEFINE e == MunmapEvent(p, r.start)
           H == {m \in os[p] : Overlap(m, r)}
<1>1. UNCHANGED <<procs, task, unreported>>
    BY DEF Munmap, userVars
<1>2. /\ p \in DOMAIN os /\ os' = [os EXCEPT ![p] = Unmapped(os[p], r)]
      /\ unmapped' = unmapped \cup {<<p, r.start, H>>}
      /\ SendTracerEvent(e) \/ UNCHANGED tracers_chan
      /\ tracers_chan' # tracers_chan => SendTracerEvent(e) /\ for_address(BpfMappings(p), r.start) # {}
    BY Zenon DEF Munmap, MunmapEvent
<1>3. /\ r.start \in Nat /\ r.end \in Nat /\ r.start < r.end /\ e \in TracerEvents
      /\ os[p] \subseteq ExecMapping
    <2>1. r.start \in Nat /\ r.end \in Nat /\ r.start < r.end
        BY ProfilerAssumption, Zenon
    <2> QED
        BY <1>2, <2>1, Zenon DEF TracerEvents, MunmapEvent, RecordInv, OsInv
<1>grows. <<p, r.start, H>> \in unmapped' /\ unmapped \subseteq unmapped'
    BY <1>2, Zenon
<1>hit. ASSUME NEW m \in os[p], Overlap(m, r)
      PROVE  RemovedPart(p, m)'
    <2>1. m \in H /\ m.start <= m.start /\ m.end <= m.end
        BY <1>3, <1>hit DEF ExecMapping
    <2>2. <<p, r.start, H>>[1] = p /\ <<p, r.start, H>>[3] = H
        BY Zenon
    <2> HIDE DEF H
    <2> QED
        BY <1>grows, <2>1, <2>2, Zenon DEF RemovedPart
<1>missed. ASSUME NEW m \in os[p], ~Overlap(m, r)
      PROVE  m \in os'[p]
    <2>1. m.start <= m.start /\ m.start < m.end /\ m.end <= m.end
        BY <1>3 DEF ExecMapping
    <2>2. m \in Pieces(m, r)
        BY <1>missed, <2>1, Zenon DEF Pieces
    <2> QED
        BY <1>2, <2>2, Zenon DEF Unmapped
<1>4. ASSUME NEW q, NEW S, AsMapped(q, S)
      PROVE  AsMapped(q, S)'
    <2>1. q \in DOMAIN os'
        BY <1>2, <1>4, Zenon DEF AsMapped
    <2>2. ASSUME NEW m \in S
          PROVE  m \in os'[q] \/ RemovedPart(q, m)'
        <3>1. CASE RemovedPart(q, m)
            BY <1>grows, <3>1, RemovedStays, Zenon
        <3>2. CASE m \in os[q] /\ q = p
            BY <1>hit, <1>missed, <3>2, Zenon
        <3>3. CASE m \in os[q] /\ q # p
            BY <1>2, <2>1, <3>3, Zenon
        <3> QED
            BY <1>4, <3>1, <3>2, <3>3, Zenon DEF AsMapped
    <2> QED
        BY <2>1, <2>2, Zenon DEF AsMapped
<1>5. \A q : ExitPending(q) => ExitPending(q)'
    BY <1>2, <1>3, SendKeepsPending DEF RecordInv
<1>6. MappedInv'
    BY <1>1, <1>4, <1>5, KernelKeepsMapped, Zenon DEF DeletedInv
<1>7. ASSUME tracers_chan' # tracers_chan
      PROVE  p \in DOMAIN procs
    <2>1. PICK n \in BpfMappings(p) : TRUE
        BY <1>2, <1>7 DEF for_address
    <2> QED
        BY <2>1 DEF BpfMappings, RecordInv, TrieInv
<1>8. ASSUME NEW n, n = Len(tracers_chan) + 1, tracers_chan' # tracers_chan
      PROVE  Meant(n, p, r.start)'
    <2>1. CASE p \notin RunningProcs \/ p \in unreported
        BY <1>1, <2>1, Zenon DEF Meant, RunningProcs
    <2>2. CASE ExitPending(p)
        <3>1. PICK j \in DOMAIN tracers_chan : tracers_chan[j] = ExitEvent(p)
            BY <2>2, Zenon DEF ExitPending
        <3>2. tracers_chan' = Append(tracers_chan, e) /\ tracers_chan \in Seq(TracerEvents)
            BY <1>2, <1>8 DEF SendTracerEvent, RecordInv, ChanInv
        <3>3. j \in 1..Len(tracers_chan) /\ Len(tracers_chan) \in Nat
            BY <3>1, <3>2, LenProperties, Zenon
        <3>4. tracers_chan'[j] = tracers_chan[j]
            BY <1>3, <3>2, Appended, Zenon
        <3>5. j \in 1..(n - 1)
            BY <1>8, <3>3
        <3> QED
            BY <3>1, <3>4, <3>5, Zenon DEF Meant, ExitEvent
    <2>3. CASE p \in RunningProcs /\ p \notin unreported /\ ~ExitPending(p)
        <3>1. AsMapped(p, procs[p].mappings)
            BY <2>3, ProfilerAssumption, Zenon DEF DeletedInv, MappedInv
        <3>2. ASSUME NEW k \in procs[p].mappings, Contains(k, r.start)
              PROVE  RemovedPart(p, k)'
            <4>1. CASE RemovedPart(p, k)
                BY <1>grows, <4>1, RemovedStays, Zenon
            <4>2. CASE k \in os[p]
                <5>1. k.start \in Nat /\ k.end \in Nat /\ k.start <= r.start /\ r.start < k.end
                    BY <1>3, <3>2, <4>2, Zenon DEF ExecMapping, Contains
                <5>2. Overlap(k, r)
                    BY <1>3, <5>1 DEF Overlap
                <5> QED
                    BY <1>hit, <4>2, <5>2, Zenon
            <4> QED
                BY <3>1, <4>1, <4>2, Zenon DEF AsMapped
        <3> QED
            BY <1>1, <3>2, Zenon DEF Meant, Contains
    <2> QED
        BY <2>1, <2>2, <2>3, Zenon
<1>9. EventInv'
    <2>1. \A q, a : e = MunmapEvent(q, a) => q = p /\ a = r.start
        BY Zenon DEF MunmapEvent
    <2>2. WasUnmapped(p, r.start)'
        <3>1. <<p, r.start, H>>[1] = p /\ <<p, r.start, H>>[2] = r.start
            OBVIOUS
        <3> QED
            BY <1>grows, <3>1, Zenon DEF WasUnmapped
    <2>3. ASSUME NEW n, n = Len(tracers_chan) + 1, tracers_chan' # tracers_chan,
                 NEW q \in Pid, NEW a \in Nat, e = MunmapEvent(q, a)
          PROVE  q \in DOMAIN procs /\ WasUnmapped(q, a)' /\ Meant(n, q, a)'
        <3>1. q = p /\ a = r.start
            BY <2>1, <2>3, Zenon
        <3>2. Meant(n, p, r.start)'
            BY <1>8, <2>3, Zenon
        <3>3. p \in DOMAIN procs
            BY <1>7, <2>3, Zenon
        <3> QED
            BY <2>2, <3>1, <3>2, <3>3, Zenon
    <2>4. unreported \subseteq unreported' /\ procs' = procs
        BY <1>1
    <2> HIDE DEF e, H
    <2> QED
        BY <1>2, <1>3, <1>grows, <2>3, <2>4, SentIsMeant DEF DeletedInv, RecordInv
<1> QED
    BY <1>1, <1>6, <1>9, <1>grows, KernelKeepsDeleted DEF DeletedInv

-----------------------------------------------------------------------------
\* The main loop.

LEMMA AddKeepsDeleted ==
    ASSUME RecordInv, DeletedInv, add_proc, UNCHANGED historyVars
    PROVE  DeletedInv'
<1>1. task.pid \notin DOMAIN procs /\ task.pid \in Pid /\ task.op = "add"
    BY TaskKinds, Zenon DEF add_proc, AddTasks
<1>2. UNCHANGED <<os, unmapped, unreported, tracers_chan>>
    BY Zenon DEF add_proc, kernelVars, historyVars
<1>3. PICK S \in SUBSET task.maps :
        procs' = [q \in DOMAIN procs \cup {task.pid} |->
                    IF q = task.pid THEN [status |-> "Running", mappings |-> S, deleted |-> {}] ELSE procs[q]]
    <2>1. PICK skipped \in SUBSET {m \in task.maps : m.kind # "Anonymous"} :
            procs' = [q \in DOMAIN procs \cup {task.pid} |->
                        IF q = task.pid
                        THEN [status |-> "Running", mappings |-> task.maps \ skipped, deleted |-> {}]
                        ELSE procs[q]]
        BY Zenon DEF add_proc
    <2>2. task.maps \ skipped \in SUBSET task.maps
        BY Zenon
    <2> QED
        BY <2>1, <2>2, Zenon
<1>4. /\ DOMAIN procs' = DOMAIN procs \cup {task.pid}
      /\ procs'[task.pid].mappings = S /\ procs'[task.pid].deleted = {}
      /\ \A q \in DOMAIN procs : procs'[q] = procs[q]
    BY <1>1, <1>3, Zenon
<1>5. RunningProcs' = RunningProcs \cup {task.pid}
    BY <1>1, <1>3, Zenon DEF RunningProcs
<1>6. task'.op # "add"
    BY Zenon DEF add_proc, LoadTask, Select
<1>7. EventInv'
    <2> USE DEF EventInv
    <2>. TAKE i \in DOMAIN tracers_chan'
    <2>. TAKE p \in Pid, a \in Nat
    <2> SUFFICES ASSUME tracers_chan[i] = MunmapEvent(p, a)
                 PROVE  p \in DOMAIN procs' /\ WasUnmapped(p, a)' /\ Meant(i, p, a)'
        BY <1>2, Zenon DEF EventMeant, MunmapEvent
    <2>1. p \in DOMAIN procs /\ WasUnmapped(p, a) /\ Meant(i, p, a)
        BY <1>2, Zenon DEF DeletedInv, EventInv, EventMeant
    <2>2. procs'[p] = procs[p] /\ (p \in RunningProcs' => p \in RunningProcs)
        BY <1>1, <1>4, <1>5, <2>1, Zenon
    <2> QED
        BY <1>2, <1>4, <2>1, <2>2, Zenon DEF Meant, ExitEvent, Contains, WasUnmapped, RemovedPart
<1>8. MappedInv'
    <2>1. \A q \in RunningProcs : procs'[q] = procs[q]
        BY <1>4, Zenon DEF RunningProcs
    <2>2. \A p, M : AsMapped(p, M) => AsMapped(p, M)'
        BY <1>2, RemovedStays, Zenon DEF AsMapped
    <2>3. AsMapped(task.pid, task.maps) => AsMapped(task.pid, S)
        BY Zenon DEF AsMapped
    <2> QED
        BY <1>1, <1>2, <1>4, <1>5, <1>6, <2>1, <2>2, <2>3, Zenon
        DEF DeletedInv, MappedInv, ExitPending, ExitEvent
<1>9. DeletedWasUnmapped'
    <2>1. \A q \in RunningProcs : procs'[q] = procs[q]
        BY <1>4 DEF RunningProcs
    <2> QED
        BY <1>2, <1>4, <1>5, <2>1, WasRemovedStays, Zenon DEF DeletedInv, DeletedWasUnmapped
<1> QED
    BY <1>7, <1>8, <1>9, Zenon DEF DeletedInv

LEMMA ReceiveKeepsDeleted ==
    ASSUME RecordInv, DeletedInv, receive_tracer_event, UNCHANGED historyVars
    PROVE  DeletedInv'
<1> DEFINE e == Head(tracers_chan)
<1>1. UNCHANGED <<os, unmapped, unreported, task>> /\ tracers_chan # <<>> /\ tracers_chan' = Tail(tracers_chan)
    BY DEF historyVars, receive_tracer_event
<1>2. Deletes
    BY ExitDeletes, MunmapDeletes DEF receive_tracer_event, RecordInv
<1>3. RunningProcs' \subseteq RunningProcs
    BY <1>2, Zenon DEF RunningProcs, Deletes
<1>4. /\ tracers_chan \in Seq(TracerEvents) /\ e \in TracerEvents
      /\ e = tracers_chan[1] /\ 1 \in DOMAIN tracers_chan
      /\ \A i \in DOMAIN tracers_chan : i \in Nat /\ 1 <= i
      /\ \A i \in DOMAIN tracers_chan : i # 1 => i - 1 \in DOMAIN tracers_chan'
      /\ \A i \in DOMAIN tracers_chan' :
            i \in Nat /\ i + 1 \in DOMAIN tracers_chan /\ tracers_chan'[i] = tracers_chan[i + 1]
    <2>1. tracers_chan \in Seq(TracerEvents)
        BY DEF RecordInv, ChanInv
    <2> QED
        BY <1>1, <2>1, TailOf, Zenon
<1>5. EventInv'
    <2> USE DEF EventInv
    <2>. TAKE i \in DOMAIN tracers_chan'
    <2>. TAKE p \in Pid, a \in Nat
    <2> SUFFICES ASSUME tracers_chan'[i] = MunmapEvent(p, a)
                 PROVE  p \in DOMAIN procs' /\ WasUnmapped(p, a)' /\ Meant(i, p, a)'
        BY Zenon DEF EventMeant, MunmapEvent
    <2>1. p \in DOMAIN procs /\ WasUnmapped(p, a) /\ Meant(i + 1, p, a)
        BY <1>4, Zenon DEF DeletedInv, EventInv, EventMeant
    <2>2. procs'[p].mappings = procs[p].mappings /\ p \in DOMAIN procs'
        BY <1>2, <2>1, Zenon DEF Deletes
    <2>3. ASSUME p \in RunningProcs', NEW j \in 1..i, tracers_chan[j] = ExitEvent(p)
          PROVE  j - 1 \in 1..(i - 1) /\ tracers_chan'[j - 1] = ExitEvent(p)
        <3>1. j # 1
            BY <1>4, <2>3, ExitReceived, Zenon
        <3>2. j \in Nat /\ i \in Nat /\ 1 <= j /\ j <= i
            <4>1. i \in Nat
                BY <1>4, Zenon
            <4> QED
                BY <4>1
        <3>3. j - 1 \in DOMAIN tracers_chan'
            <4>1. j \in DOMAIN tracers_chan
                <5>1. i + 1 \in 1..Len(tracers_chan) /\ Len(tracers_chan) \in Nat
                    BY <1>4, LenProperties
                <5>2. j \in 1..Len(tracers_chan)
                    BY <3>2, <5>1
                <5> QED
                    BY <1>4, <5>2, LenProperties, Zenon
            <4> QED
                BY <1>4, <3>1, <4>1, Zenon
        <3>4. tracers_chan'[j - 1] = tracers_chan[j]
            <4>1. (j - 1) + 1 = j
                BY <3>2
            <4>2. tracers_chan'[j - 1] = tracers_chan[(j - 1) + 1]
                BY <1>4, <3>3, Zenon
            <4> QED
                BY <4>1, <4>2
        <3>5. j - 1 \in 1..(i - 1)
            BY <3>1, <3>2
        <3> QED
            BY <2>3, <3>4, <3>5, Zenon
    <2>4. (i + 1) - 1 = i
        BY <1>4
    <2>5. \/ p \in unreported \/ p \notin RunningProcs
          \/ \E j \in 1..i : tracers_chan[j] = ExitEvent(p)
          \/ \A m \in procs[p].mappings : Contains(m, a) => RemovedPart(p, m)
        <3> DEFINE n == i + 1
        <3>1. n - 1 = i
            BY <2>4
        <3>2. Meant(n, p, a)
            BY <2>1
        <3> HIDE DEF n
        <3> QED
            BY <3>1, <3>2, Zenon DEF Meant
    <2>6. \/ p \in unreported \/ p \notin RunningProcs'
          \/ \E j \in 1..(i - 1) : tracers_chan'[j] = ExitEvent(p)
          \/ \A m \in procs[p].mappings : Contains(m, a) => RemovedPart(p, m)
        <3>1. CASE p \in RunningProcs' /\ \E j \in 1..i : tracers_chan[j] = ExitEvent(p)
            BY <2>3, <3>1, Zenon
        <3> QED
            BY <1>3, <2>5, <3>1, Zenon
    <2>7. Meant(i, p, a)'
        BY <1>1, <2>2, <2>6, Zenon DEF Meant, Contains, ExitEvent, RemovedPart
    <2> QED
        BY <1>1, <2>1, <2>2, <2>7, Zenon DEF WasUnmapped
<1>6. MappedInv'
    <2>1. ASSUME NEW p \in RunningProcs', ExitPending(p)
          PROVE  ExitPending(p)'
        <3>1. PICK i \in DOMAIN tracers_chan : tracers_chan[i] = ExitEvent(p)
            BY <2>1 DEF ExitPending
        <3>2. i # 1
            BY <1>4, <3>1, ExitReceived
        <3>3. i - 1 \in DOMAIN tracers_chan' /\ tracers_chan'[i - 1] = tracers_chan[i]
            BY <1>4, <3>2
        <3> QED
            BY <3>1, <3>3, Zenon DEF ExitPending, ExitEvent
    <2>2. \A p \in RunningProcs' : procs'[p].mappings = procs[p].mappings
        BY <1>2, <1>3, Zenon DEF Deletes, RunningProcs
    <2> QED
        BY <1>1, <1>3, <2>1, <2>2, Zenon DEF DeletedInv, MappedInv, AsMapped, RemovedPart
<1>7. DeletedWasUnmapped'
    <2>1. CASE e.type = "ProcessExit" /\ handle_process_exit(e.pid)
        <3>1. LeavesRunning
            BY <2>1, ExitLeavesRunning DEF RecordInv
        <3> QED
            BY <1>1, <3>1, WasRemovedStays, Zenon DEF DeletedInv, DeletedWasUnmapped, LeavesRunning
    <2>2. CASE e.type = "Munmap" /\ handle_munmap(e.pid, e.start_address)
        <3> DEFINE p == e.pid
                   a == e.start_address
        <3>1. p \in Pid /\ a \in Nat /\ e = MunmapEvent(p, a)
            <4>1. e \in TracerEvents
                BY <1>4
            <4> QED
                BY <2>2, <4>1, Zenon DEF TracerEvents, MunmapEvent
        <3>2. p \in DOMAIN procs /\ WasUnmapped(p, a) /\ Meant(1, p, a)
            BY <1>4, <3>1, Zenon DEF DeletedInv, EventInv, EventMeant
        <3>0. a \in Nat
            BY <3>1
        <3> HIDE DEF p, a
        <3>3. mark_as_deleted(p, MunmapMatches(p, a), procs[p].status, {})
            BY <2>2, <3>2, Zenon DEF handle_munmap, p, a
        <3>4. procs[p] \in ProcessRecord
            BY <3>2 DEF RecordInv, ProcsInv
        <3>5. /\ \A q \in DOMAIN procs : q # p => procs'[q] = procs[q]
              /\ procs'[p].deleted \subseteq procs[p].deleted \cup MunmapMatches(p, a)
            BY <3>2, <3>3, <3>4 DEF mark_as_deleted, NotYetDeleted, ProcessRecord
        <3>6. ASSUME p \in RunningProcs', NEW m \in MunmapMatches(p, a)
              PROVE  WasRemoved(p, m)
            <4>1. m \in procs[p].mappings /\ m.start \in Nat /\ m.end \in Nat /\ m.start <= a /\ a <= m.end /\ a \in Nat
                BY <3>0, <3>4 DEF MunmapMatches, ProcessRecord, ExecMapping
            <4>2. CASE a = m.end
                BY <3>2, <4>1, <4>2, Zenon DEF WasUnmapped, WasRemoved
            <4>3. CASE a # m.end
                <5>1. Contains(m, a)
                    BY <4>1, <4>3 DEF Contains
                <5>2. p \in unreported \/ RemovedPart(p, m)
                    <6>1. 1..(1 - 1) = {}
                        OBVIOUS
                    <6>2. p \in RunningProcs
                        BY <1>3, <3>6
                    <6> QED
                        BY <3>2, <4>1, <5>1, <6>1, <6>2, Zenon DEF Meant
                <5> QED
                    BY <3>2, <4>1, <5>2, Zenon DEF WasUnmapped, WasRemoved
            <4> QED
                BY <4>2, <4>3
        <3>7. ASSUME NEW q \in RunningProcs', NEW m \in procs'[q].deleted
              PROVE  WasRemoved(q, m)
            <4>1. CASE m \in procs[q].deleted
                BY <1>3, <4>1 DEF DeletedInv, DeletedWasUnmapped
            <4>2. CASE m \notin procs[q].deleted
                <5>1. q = p /\ m \in MunmapMatches(p, a)
                    BY <1>3, <3>5, <4>2, Zenon DEF RunningProcs
                <5> QED
                    BY <3>6, <5>1, Zenon
            <4> QED
                BY <4>1, <4>2
        <3> QED
            BY <1>1, <3>7, WasRemovedStays, Zenon DEF DeletedWasUnmapped
    <2> QED
        BY <2>1, <2>2 DEF receive_tracer_event
<1> QED
    BY <1>5, <1>6, <1>7 DEF DeletedInv

LEMMA DeletedNext == RecordInv /\ DeletedInv /\ [Next]_vars => DeletedInv'
<1> SUFFICES ASSUME RecordInv, DeletedInv, [Next]_vars
             PROVE  DeletedInv'
    OBVIOUS
<1>1. ASSUME NEW p \in Pid,
             \/ ProcessStart(p)
             \/ \E m \in Dlopened[p] : Mmap(p, m)
             \/ \E r \in Unmaps[p] : Munmap(p, r)
             \/ tracer_process_exit(p)
      PROVE  DeletedInv'
    BY <1>1, MmapKeeps, MunmapKeeps, ProcessExitKeeps, Zenon
<1>2. CASE MainLoop /\ (remove_partial_write \/ evict_to_make_room \/ event_new_proc_unknown)
    <2>1. LeavesRunning
        BY <1>2, ExitLeavesRunning, EvictLeavesRunning, Zenon
        DEF remove_partial_write, evict_to_make_room, event_new_proc_unknown, userVars, RecordInv,
            LeavesRunning, RunningProcs
    <2>2. Deletes \/ UNCHANGED procs
        BY <1>2, EvictDeletes, ExitDeletes, Zenon
        DEF remove_partial_write, evict_to_make_room, event_new_proc_unknown, userVars, RecordInv
    <2>3. UNCHANGED <<os, unmapped, unreported, tracers_chan>>
        BY <1>2, Zenon DEF MainLoop, historyVars, remove_partial_write, evict_to_make_room, event_new_proc_unknown,
                    Received, kernelVars
    <2>4. task'.op = "add" => AsMapped(task'.pid, task'.maps)
        <3>1. CASE remove_partial_write \/ evict_to_make_room
            BY <3>1 DEF remove_partial_write, evict_to_make_room, Select
        <3>2. CASE event_new_proc_unknown
            BY <3>2, Zenon DEF event_new_proc_unknown, AsMapped
        <3> QED
            BY <1>2, <3>1, <3>2
    <2> QED
        BY <2>1, <2>2, <2>3, <2>4, LeavesDeleted, Zenon DEF Deletes
<1>3. ASSUME UNCHANGED <<procs, os, unmapped, unreported, tracers_chan>>, task' = task \/ task'.op # "add"
      PROVE  DeletedInv'
    BY <1>3, LeavesDeleted, Zenon DEF LeavesRunning, RunningProcs, DeletedInv, MappedInv
<1>4. CASE MainLoop /\ load_unwind_info
    <2>1. task'.op # "add"
        BY <1>4, TaskKinds DEF load_unwind_info, Select, LoadTasks
    <2>2. UNCHANGED <<procs, os, unmapped, unreported, tracers_chan>>
        BY <1>4, Zenon DEF MainLoop, historyVars, load_unwind_info, kernelVars, userVars
    <2> QED
        BY <1>3, <2>1, <2>2
<1>5. CASE MainLoop /\ (event_new_proc_known \/ add_bpf_mappings)
    <2>1. UNCHANGED <<procs, os, unmapped, unreported, tracers_chan>>
        BY <1>5, Zenon DEF MainLoop, historyVars, event_new_proc_known, add_bpf_mappings, Received, kernelVars, userVars
    <2>2. task'.op # "add"
        BY <1>5, LoadingIsNoAdding
    <2> QED
        BY <1>3, <2>1, <2>2
<1>6. CASE MainLoop /\ (event_new_proc_ignored \/ event_need_unwind_info)
    <2>1. UNCHANGED <<procs, os, unmapped, unreported, tracers_chan, task>>
        BY <1>6, Zenon DEF MainLoop, historyVars, event_new_proc_ignored, event_need_unwind_info, Received, userVars
    <2> QED
        BY <1>3, <2>1
<1>7. CASE collect_profile \/ ProcessCooldown \/ TablesCooldown \/ (\E p \in Pid : on_event(p)) \/ UNCHANGED vars
    <2>1. UNCHANGED <<procs, os, unmapped, unreported, tracers_chan, task>>
        BY <1>7, Zenon DEF collect_profile, ProcessCooldown, TablesCooldown, on_event, vars, kernelVars, userVars, historyVars
    <2> QED
        BY <1>3, <2>1
<1>8. CASE MainLoop /\ (add_proc \/ receive_tracer_event)
    BY <1>8, AddKeepsDeleted, ReceiveKeepsDeleted DEF MainLoop
<1>9. CASE MainLoop
    BY <1>2, <1>4, <1>5, <1>6, <1>8, <1>9, Zenon DEF MainLoop
<1> QED
    BY <1>1, <1>7, <1>9, Zenon DEF Next

\* Of a process that runs on only mappings are deleted of which it removed memory, or that
\* end where a range it removed begins, however late its events are handled and whatever
\* was mapped again meanwhile (DeletedWasUnmapped; profiler.rs:886-903).
THEOREM AlwaysDeletedWasUnmapped == Spec => []DeletedWasUnmapped
<1>1. Init => DeletedInv
    <2> SUFFICES ASSUME Init PROVE DeletedInv
        OBVIOUS
    <2>1. /\ tracers_chan = <<>> /\ task.op # "add"
          /\ RunningProcs \subseteq {KERNEL_PID} /\ procs[KERNEL_PID].deleted = {}
        BY Zenon DEF Init, RunningProcs, Select
    <2>2. EventInv
        BY <2>1 DEF EventInv
    <2>3. MappedInv
        BY <2>1, Zenon DEF MappedInv
    <2>4. DeletedWasUnmapped
        BY <2>1, Zenon DEF DeletedWasUnmapped
    <2> QED
        BY <2>2, <2>3, <2>4 DEF DeletedInv
<1>2. DeletedInv => DeletedWasUnmapped
    BY DEF DeletedInv
<1> QED
    BY <1>1, <1>2, DeletedNext, RecordAlways, PTL DEF Spec
=============================================================================
