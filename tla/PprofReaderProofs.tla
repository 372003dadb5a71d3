-------------------------- MODULE PprofReaderProofs -------------------------
(***************************************************************************)
(* What a reader of a profile that was not symbolised sees: for every      *)
(* sample, the object files and addresses that were sampled, whatever the  *)
(* processes, object files, samples and tasks.                             *)
(***************************************************************************)
EXTENDS PprofProofs

-----------------------------------------------------------------------------
(* Sequences, put together.                                                *)

LEMMA SeqEqual ==
    ASSUME NEW S, NEW s \in Seq(S), NEW t \in Seq(S), Len(s) = Len(t), \A i \in 1..Len(s) : s[i] = t[i]
    PROVE  s = t
OBVIOUS

LEMMA AppendIsConcat ==
    ASSUME NEW S, NEW s \in Seq(S), NEW x \in S
    PROVE  Append(s, x) = s \o <<x>>
OBVIOUS

LEMMA ConcatAssociative ==
    ASSUME NEW S, NEW s \in Seq(S), NEW t \in Seq(S), NEW u \in Seq(S)
    PROVE  (s \o t) \o u = s \o (t \o u)
OBVIOUS

LEMMA ConcatEmpty ==
    ASSUME NEW S, NEW s \in Seq(S)
    PROVE  s \o <<>> = s /\ <<>> \o s = s
OBVIOUS

-----------------------------------------------------------------------------
(* The loops, over a sequence with one more element.                       *)

OneMore(S, s, x, t) ==
    /\ t \in Seq(S) /\ Len(s) \in Nat /\ Len(t) = Len(s) + 1 /\ t[Len(t)] = x
    /\ Len(t) - 1 = Len(s) /\ Len(t) \in 1..Len(t)
    /\ \A i \in 1..Len(s) : t[i] = s[i] /\ i \in 1..Len(t)

\* A sequence with one more element has those before it.
LEMMA AppendFacts ==
    ASSUME NEW S, NEW s \in Seq(S), NEW x \in S, NEW t, t = Append(s, x)
    PROVE  OneMore(S, s, x, t)
BY LenProperties DEF OneMore

LEMMA IsAppended ==
    ASSUME NEW S, NEW s \in Seq(S), NEW x \in S, NEW t \in Seq(S), Len(t) = Len(s) + 1,
           t[Len(s) + 1] = x, \A i \in 1..Len(s) : t[i] = s[i]
    PROVE  t = Append(s, x)
<1>1. /\ Append(s, x) \in Seq(S) /\ Len(s) \in Nat /\ Len(Append(s, x)) = Len(t)
      /\ \A i \in 1..Len(t) : i \in 1..Len(s) \/ i = Len(s) + 1
    BY LenProperties
<1>2. \A i \in 1..Len(t) : t[i] = Append(s, x)[i]
    <2>1. /\ \A i \in 1..Len(s) : Append(s, x)[i] = s[i]
          /\ Append(s, x)[Len(s) + 1] = x
        OBVIOUS
    <2> QED
        BY <1>1, <2>1, Zenon
<1> QED
    BY <1>1, <1>2, SeqEqual

AddsOne(pid, acc, fs, f, gs) == AddFrames(pid, acc, gs) = AddFrame(pid, AddFrames(pid, acc, fs), f)

\* AddFrames over one more frame.
LEMMA FramesAppend ==
    ASSUME NEW pid, NEW acc, GoodAcc(acc), NEW fs \in Seq(FrameType), NEW f \in FrameType,
           NEW gs, gs = Append(fs, f)
    PROVE  AddsOne(pid, acc, fs, f, gs)
<1> DEFINE N == Len(fs)
<1>0. OneMore(FrameType, fs, f, gs)
    BY AppendFacts, Zenon
<1>1. /\ gs \in Seq(FrameType) /\ N \in Nat /\ Len(gs) = N + 1 /\ gs[Len(gs)] = f
      /\ Len(gs) - 1 = N /\ Len(gs) \in 1..Len(gs)
      /\ \A i \in 1..N : gs[i] = fs[i] /\ i \in 1..Len(gs)
    BY <1>0, Zenon DEF OneMore
<1>2. PICK q : FramesBy(q, pid, acc, fs)
    BY FramesLoop, Zenon
<1>3. PICK r : FramesBy(r, pid, acc, gs)
    BY <1>1, FramesLoop, Zenon
<1> DEFINE G == {n \in 0..N : r[n] = q[n]}
<1>4. 0 \in G
    <2>1. 0 \in 0..N
        BY <1>1
    <2> QED
        BY <1>2, <1>3, <2>1, Zenon DEF FramesBy
<1>5. ASSUME NEW n \in 1..N, n - 1 \in G PROVE n \in G
    <2>1. n \in 0..N
        BY <1>1
    <2>2. q[n] = AddFrame(pid, q[n - 1], fs[n]) /\ r[n] = AddFrame(pid, r[n - 1], gs[n])
        BY <1>1, <1>2, <1>3, Zenon DEF FramesBy
    <2> QED
        BY <1>1, <1>5, <2>1, <2>2, Zenon
<1>6. \A n \in 0..N : n \in G
    <2> HIDE DEF G, N
    <2> QED
        BY <1>1, <1>4, <1>5, Induction, Zenon
<1>7. N \in 0..N
    BY <1>1
<1>8. r[N] = q[N]
    BY <1>6, <1>7, Zenon
<1> QED
    BY <1>1, <1>2, <1>3, <1>8, Zenon DEF FramesBy, AddsOne

\* Flatten over one more sequence.
LEMMA FlattenAppend ==
    ASSUME NEW S, NEW s \in Seq(Seq(S)), NEW x \in Seq(S), NEW t, t = Append(s, x)
    PROVE  Flatten(t) = Flatten(s) \o x
<1> DEFINE N == Len(s)
<1>0. OneMore(Seq(S), s, x, t)
    BY AppendFacts, Zenon
<1>1. /\ t \in Seq(Seq(S)) /\ N \in Nat /\ Len(t) = N + 1 /\ t[Len(t)] = x
      /\ Len(t) - 1 = N /\ Len(t) \in 1..Len(t)
      /\ \A i \in 1..N : t[i] = s[i] /\ i \in 1..Len(t)
    BY <1>0, Zenon DEF OneMore
<1>2. PICK q : FlattenBy(q, s, S)
    BY FlattenLoop, Zenon
<1>3. PICK r : FlattenBy(r, t, S)
    BY <1>1, FlattenLoop, Zenon
<1> DEFINE G == {n \in 0..N : r[n] = q[n]}
<1>4. 0 \in G
    <2>1. 0 \in 0..N
        BY <1>1
    <2> QED
        BY <1>2, <1>3, <2>1, Zenon DEF FlattenBy
<1>5. ASSUME NEW n \in 1..N, n - 1 \in G PROVE n \in G
    <2>1. n \in 0..N
        BY <1>1
    <2>2. q[n] = q[n - 1] \o s[n] /\ r[n] = r[n - 1] \o t[n]
        BY <1>1, <1>2, <1>3, Zenon DEF FlattenBy
    <2> QED
        BY <1>1, <1>5, <2>1, <2>2, Zenon
<1>6. \A n \in 0..N : n \in G
    <2> HIDE DEF G, N
    <2> QED
        BY <1>1, <1>4, <1>5, Induction, Zenon
<1>7. N \in 0..N
    BY <1>1
<1>8. r[N] = q[N]
    BY <1>6, <1>7, Zenon
<1> QED
    BY <1>1, <1>2, <1>3, <1>8, Zenon DEF FlattenBy

SelectsMore(s, x, t, P, Q) ==
    Select(t, Q) = IF Len(t) \in Q THEN Append(Select(s, P), x) ELSE Select(s, P)

\* Select over one more element.
LEMMA SelectAppend ==
    ASSUME NEW S, NEW s \in Seq(S), NEW x \in S, NEW t, t = Append(s, x),
           NEW P \in SUBSET (1..Len(s)), NEW Q \in SUBSET (1..Len(t)),
           \A i \in 1..Len(s) : i \in Q <=> i \in P
    PROVE  SelectsMore(s, x, t, P, Q)
<1> DEFINE N == Len(s)
<1>0. OneMore(S, s, x, t)
    BY AppendFacts, Zenon
<1>1. /\ t \in Seq(S) /\ N \in Nat /\ Len(t) = N + 1 /\ t[Len(t)] = x
      /\ Len(t) - 1 = N /\ Len(t) \in 1..Len(t)
      /\ \A i \in 1..N : t[i] = s[i] /\ i \in 1..Len(t)
    BY <1>0, Zenon DEF OneMore
<1>2. PICK q : SelectBy(q, s, P)
    BY SelectLoop, Zenon
<1>3. PICK r : SelectBy(r, t, Q)
    BY <1>1, SelectLoop, Zenon
<1> DEFINE G == {n \in 0..N : r[n] = q[n]}
<1>4. 0 \in G
    <2>1. 0 \in 0..N
        BY <1>1
    <2> QED
        BY <1>2, <1>3, <2>1, Zenon DEF SelectBy
<1>5. ASSUME NEW n \in 1..N, n - 1 \in G PROVE n \in G
    <2>1. n \in 0..N
        BY <1>1
    <2>2. /\ q[n] = IF n \in P THEN Append(q[n - 1], s[n]) ELSE q[n - 1]
          /\ r[n] = IF n \in Q THEN Append(r[n - 1], t[n]) ELSE r[n - 1]
        BY <1>1, <1>2, <1>3, Zenon DEF SelectBy
    <2>3. r[n - 1] = q[n - 1] /\ t[n] = s[n] /\ (n \in Q <=> n \in P)
        BY <1>1, <1>5, Zenon
    <2>4. r[n] = q[n]
        BY <2>2, <2>3, Zenon
    <2> QED
        BY <2>1, <2>4, Zenon
<1>6. \A n \in 0..N : n \in G
    <2> HIDE DEF G, N
    <2> QED
        BY <1>1, <1>4, <1>5, Induction, Zenon
<1>7. N \in 0..N
    BY <1>1
<1>8. r[N] = q[N]
    BY <1>6, <1>7, Zenon
<1>9. r[Len(t)] = IF Len(t) \in Q THEN Append(r[N], x) ELSE r[N]
    BY <1>1, <1>3, Zenon DEF SelectBy
<1> QED
    BY <1>2, <1>3, <1>8, <1>9, Zenon DEF SelectBy, SelectsMore

-----------------------------------------------------------------------------
(* The address a frame is stored under is the one in its object file.      *)

KnownAt(pid, a) == IsMapped(pid, a) /\ ElfAddress(pid, a) # {}

PlainFrame(pid, a) == PlainAt(for_address(pid, a).exe, CHOOSE x \in ElfAddress(pid, a) : TRUE)

\* A kernel mapping begins behind its offset, and its object file is there.
LEMMA KernelMapped ==
    ASSUME NEW pid, NEW a, IsMapped(pid, a), for_address(pid, a).kind = "Kernel"
    PROVE  /\ for_address(pid, a).exe \in DOMAIN objs
           /\ for_address(pid, a).offset <= for_address(pid, a).start
<1> DEFINE at == MappingsAt(pid, a)
<1>1. procs[pid] \in Seq(Mapping) /\ pid \in DOMAIN procs
    BY PprofAssumption, Zenon DEF IsMapped
<1>2. Len(procs[pid]) \in Nat /\ DOMAIN procs[pid] = 1..Len(procs[pid])
    BY <1>1, LenProperties
<1>3. at \in SUBSET (1..Len(procs[pid])) /\ at # {}
    BY <1>2 DEF IsMapped, MappingsAt
<1>4. for_address(pid, a) = procs[pid][First(at)]
    BY DEF for_address
<1> HIDE DEF at
<1>5. First(at) \in DOMAIN procs[pid]
    <2>1. First(at) \in at
        BY <1>2, <1>3, FirstIsOne, Zenon
    <2> QED
        BY <1>2, <1>3, <2>1, Zenon
<1> QED
    BY <1>1, <1>4, <1>5, AddressAssumption, Zenon

\* Where a kernel address is, and one of a file.
LEMMA KernelAddress ==
    ASSUME NEW pid, NEW a \in Nat, IsMapped(pid, a), NEW m, m = for_address(pid, a), m.kind = "Kernel"
    PROVE  /\ m.exe \in DOMAIN objs /\ normalized_address(a, m) # None
           /\ ElfAddress(pid, a) = {normalized_address(a, m)}
<1>1. /\ m \in Mapping /\ m.start <= a /\ m.exe \in DOMAIN objs /\ m.offset <= m.start
    BY MappedTyped, KernelMapped, Zenon
<1>2. normalized_address(a, m) = a - m.offset
    BY Zenon DEF normalized_address
<1>3. ElfAddress(pid, a) = {a - m.offset}
    BY Zenon DEF ElfAddress
<1>4. a - m.offset \in Nat
    BY <1>1 DEF Mapping
<1>5. a - m.offset # None
    BY <1>4 DEF None
<1> QED
    BY <1>1, <1>2, <1>3, <1>5, Zenon

InsideOf(exe, at) ==
    {s \in {objs[exe][i] : i \in DOMAIN objs[exe]} : at - s.p_offset \in 0 .. s.p_filesz - 1}

LEMMA InRange ==
    ASSUME NEW x \in Nat, NEW from \in Nat, NEW size \in Nat
    PROVE  x - from \in 0 .. size - 1 <=> from <= x /\ x < from + size
OBVIOUS

\* Segments are disjoint: the first that holds an offset is the only one.
LEMMA InsideIsFound ==
    ASSUME NEW exe \in DOMAIN objs, NEW at \in Nat
    PROVE  /\ FirstSegment(objs[exe], at) = {} => InsideOf(exe, at) = {}
           /\ FirstSegment(objs[exe], at) # {}
                => InsideOf(exe, at) = {objs[exe][First(FirstSegment(objs[exe], at))]}
<1> DEFINE q == objs[exe]
           found == FirstSegment(q, at)
           s == q[First(found)]
<1>1. q \in Seq(Segment)
    BY PprofAssumption, Zenon
<1>2. /\ Len(q) \in Nat /\ DOMAIN q = 1..Len(q) /\ \A i \in 1..Len(q) : q[i] \in Segment
    BY <1>1, LenProperties
<1>3. ASSUME NEW i \in 1..Len(q)
      PROVE  /\ at - q[i].p_offset \in 0 .. q[i].p_filesz - 1 <=> i \in found
             /\ i \in found <=> q[i].p_offset <= at /\ at < q[i].p_offset + q[i].p_filesz
             /\ q[i].p_offset \in Nat /\ q[i].p_filesz \in Nat
    <2>1. q[i].p_offset \in Nat /\ q[i].p_filesz \in Nat
        BY <1>2 DEF Segment
    <2>2. i \in found <=> q[i].p_offset <= at /\ at < q[i].p_offset + q[i].p_filesz
        BY <1>2, Zenon DEF FirstSegment
    <2>3. at - q[i].p_offset \in 0 .. q[i].p_filesz - 1
            <=> q[i].p_offset <= at /\ at < q[i].p_offset + q[i].p_filesz
        BY <2>1, InRange, Zenon
    <2> QED
        BY <2>1, <2>2, <2>3, Zenon
<1>4. found \in SUBSET (1..Len(q))
    BY <1>2 DEF FirstSegment
<1> HIDE DEF found
<1>5. InsideOf(exe, at) = {q[i] : i \in found}
    <2> HIDE DEF q
    <2>1. InsideOf(exe, at) = {t \in {q[i] : i \in DOMAIN q} : at - t.p_offset \in 0 .. t.p_filesz - 1}
        BY Zenon DEF InsideOf, q
    <2>2. ASSUME NEW t \in InsideOf(exe, at) PROVE t \in {q[i] : i \in found}
        BY <1>2, <1>3, <2>1, <2>2, Zenon
    <2>3. ASSUME NEW t \in {q[i] : i \in found} PROVE t \in InsideOf(exe, at)
        BY <1>2, <1>3, <1>4, <2>1, <2>3, Zenon
    <2> QED
        BY <2>2, <2>3, Zenon
<1>6. CASE found = {}
    BY <1>5, <1>6, Zenon DEF found, q
<1>7. CASE found # {}
    <2>1. First(found) \in found
        BY <1>2, <1>4, <1>7, FirstIsOne, Zenon
    <2>2. ASSUME NEW i \in found PROVE i = First(found)
        <3>1. /\ i \in DOMAIN q /\ First(found) \in DOMAIN q
              /\ i \in 1..Len(q) /\ First(found) \in 1..Len(q)
            BY <1>2, <1>4, <2>1, Zenon
        <3>2. \/ i = First(found)
              \/ q[i].p_offset + q[i].p_filesz <= s.p_offset
              \/ s.p_offset + s.p_filesz <= q[i].p_offset
            BY <3>1, AddressAssumption, Zenon
        <3>3. /\ q[i].p_offset <= at /\ at < q[i].p_offset + q[i].p_filesz
              /\ q[i].p_offset \in Nat /\ q[i].p_filesz \in Nat
            BY <1>3, <3>1, Zenon
        <3>4. /\ s.p_offset <= at /\ at < s.p_offset + s.p_filesz
              /\ s.p_offset \in Nat /\ s.p_filesz \in Nat
            BY <1>3, <2>1, <3>1, Zenon
        <3> HIDE DEF s, q
        <3> QED
            BY <3>2, <3>3, <3>4
    <2>3. {q[i] : i \in found} = {s}
        BY <2>1, <2>2, Zenon
    <2> QED
        BY <1>5, <1>7, <2>3, Zenon DEF found, q
<1> QED
    BY <1>6, <1>7

ElfOf(m, a) ==
    LET at == a - m.start + m.offset
        inside == IF m.exe \notin DOMAIN objs THEN {} ELSE InsideOf(m.exe, at)
    IN  IF m.kind = "Kernel" THEN {a - m.offset} ELSE {s.p_vaddr + at - s.p_offset : s \in inside}

\* ElfAddress by the mapping.
LEMMA ElfOfMapping ==
    ASSUME NEW pid, NEW a
    PROVE  ElfAddress(pid, a) = ElfOf(for_address(pid, a), a)
BY Zenon DEF ElfAddress, ElfOf, InsideOf

\* The address in the object file is the normalised one, if there is one.
LEMMA FileAddress ==
    ASSUME NEW pid, NEW a \in Nat, IsMapped(pid, a), NEW m, m = for_address(pid, a), m.kind # "Kernel",
           m.exe \in DOMAIN objs
    PROVE  /\ normalized_address(a, m) = None => ElfAddress(pid, a) = {}
           /\ normalized_address(a, m) # None => ElfAddress(pid, a) = {normalized_address(a, m)}
<1> DEFINE at == a - m.start + m.offset
           found == FirstSegment(objs[m.exe], at)
           s == objs[m.exe][First(found)]
           inside == InsideOf(m.exe, at)
<1>1. m \in Mapping /\ m.start <= a
    BY MappedTyped, Zenon
<1>2. at \in Nat
    BY <1>1 DEF Mapping
<1>3. normalized_address(a, m) = IF found = {} THEN None ELSE at - s.p_offset + s.p_vaddr
    BY Zenon DEF normalized_address
<1>4. ElfAddress(pid, a) = {t.p_vaddr + at - t.p_offset : t \in inside}
    <2>1. ElfAddress(pid, a) = ElfOf(m, a)
        BY ElfOfMapping, Zenon
    <2>2. ElfOf(m, a) = {t.p_vaddr + at - t.p_offset : t \in inside}
        BY Zenon DEF ElfOf
    <2> QED
        BY <2>1, <2>2, Zenon
<1>5. (found = {} => inside = {}) /\ (found # {} => inside = {s})
    <2> HIDE DEF at
    <2> QED
        BY <1>2, InsideIsFound, Zenon
<1>6. ASSUME found # {} PROVE s \in Segment /\ s.p_offset <= at
    BY <1>6, SegmentFound, Zenon
<1> HIDE DEF at, found, s, inside
<1>7. CASE found = {}
    BY <1>3, <1>4, <1>5, <1>7, Zenon
<1>8. CASE found # {}
    <2>1. at - s.p_offset + s.p_vaddr \in Nat /\ s.p_vaddr + at - s.p_offset = at - s.p_offset + s.p_vaddr
        BY <1>2, <1>6, <1>8 DEF Segment
    <2>2. at - s.p_offset + s.p_vaddr # None
        BY <2>1 DEF None
    <2>3. ElfAddress(pid, a) = {s.p_vaddr + at - s.p_offset}
        BY <1>4, <1>5, <1>8, Zenon
    <2> QED
        BY <1>3, <1>8, <2>1, <2>2, <2>3, Zenon
<1> QED
    BY <1>7, <1>8

\* A frame of an unsymbolised profile is shown if its address is known, and as it is.
LEMMA ShownIsKnown ==
    ASSUME NEW pid, NEW a \in Nat, IsMapped(pid, a), NEW f, f = Frame(a, file_offset(pid, a), NoSymbol)
    PROVE  /\ Shown(pid, f) <=> KnownAt(pid, a)
           /\ Shown(pid, f) => PlainAt(for_address(pid, f.address).exe, NormalizedOf(pid, f)) = PlainFrame(pid, a)
<1> DEFINE m == for_address(pid, a)
           norm == normalized_address(a, m)
           elf == ElfAddress(pid, a)
<1>1. f.address = a /\ f.offset = IF m.exe \in DOMAIN objs THEN norm ELSE None
    BY DEF Frame, file_offset
<1>2. Shown(pid, f) <=> m.exe \in DOMAIN objs /\ NormalizedOf(pid, f) # None
    BY <1>1, Zenon DEF Shown
<1>3. m.exe \in DOMAIN objs => NormalizedOf(pid, f) = norm
    BY <1>1, Zenon DEF NormalizedOf
<1>4. KnownAt(pid, a) <=> elf # {}
    BY Zenon DEF KnownAt
<1>5. PlainFrame(pid, a) = PlainAt(m.exe, CHOOSE x \in elf : TRUE)
    BY Zenon DEF PlainFrame
<1>6. CASE m.exe \notin DOMAIN objs
    <2>1. m.kind # "Kernel"
        BY <1>6, KernelMapped, Zenon
    <2>2. elf = {}
        BY <1>6, <2>1, Zenon DEF ElfAddress
    <2> QED
        BY <1>2, <1>4, <1>6, <2>2, Zenon
<1>7. CASE m.exe \in DOMAIN objs
    <2>1. (norm = None => elf = {}) /\ (norm # None => elf = {norm})
        <3>1. CASE m.kind = "Kernel"
            BY <3>1, KernelAddress, Zenon
        <3>2. CASE m.kind # "Kernel"
            BY <1>7, <3>2, FileAddress, Zenon
        <3> QED
            BY <3>1, <3>2, Zenon
    <2> HIDE DEF norm, elf
    <2>2. norm # None => (CHOOSE x \in elf : TRUE) = norm
        BY <2>1, Zenon
    <2> QED
        BY <1>1, <1>2, <1>3, <1>4, <1>5, <1>7, <2>1, <2>2, Zenon
<1> QED
    BY <1>6, <1>7, Zenon

PlainEntry == [exe : Nat, at : Int, symbol : {NoSymbol}]

LEMMA PlainFrameTyped ==
    ASSUME NEW pid, NEW a \in Nat, KnownAt(pid, a)
    PROVE  PlainFrame(pid, a) \in PlainEntry
<1> DEFINE f == Frame(a, file_offset(pid, a), NoSymbol)
           m == for_address(pid, a)
<1>1. IsMapped(pid, a) /\ m \in Mapping
    BY MappedTyped, Zenon DEF KnownAt
<1>2. f.address = a /\ f.offset \in Int
    BY <1>1, OffsetTyped DEF Frame
<1>3. Shown(pid, f) /\ PlainAt(m.exe, NormalizedOf(pid, f)) = PlainFrame(pid, a)
    BY <1>1, <1>2, ShownIsKnown, Zenon
<1>4. m.exe \in DOMAIN objs /\ a \in Int
    BY <1>2, <1>3 DEF Shown
<1>5. NormalizedOf(pid, f) \in Int
    <2> HIDE DEF f, m
    <2>1. normalized_address(a, m) \in Int
        BY <1>1, <1>4, NormalizedTyped, Zenon
    <2> QED
        BY <1>2, <2>1, Zenon DEF NormalizedOf, m
<1>6. m.exe \in Nat
    BY <1>1 DEF Mapping
<1>7. PlainAt(m.exe, NormalizedOf(pid, f)) \in PlainEntry
    <2> HIDE DEF m, f
    <2> QED
        BY <1>5, <1>6 DEF PlainEntry, PlainAt, Located
<1> QED
    BY <1>3, <1>7, Zenon

-----------------------------------------------------------------------------
(* The stack that a sample is shown with.                                  *)

KnownPlaces(pid, stack) ==
    {i \in DOMAIN stack : IsMapped(pid, stack[i]) /\ ElfAddress(pid, stack[i]) # {}}

PlainFrames(pid, stack) ==
    [i \in DOMAIN Known(pid, stack) |-> <<PlainFrame(pid, Known(pid, stack)[i])>>]

PlainStack(pid, stack) == Flatten(PlainFrames(pid, stack))

\* What is known of a stack are addresses.
LEMMA KnownTyped ==
    ASSUME NEW pid, NEW stack \in Seq(Nat)
    PROVE  /\ Known(pid, stack) \in Seq(Nat)
           /\ \A i \in 1..Len(Known(pid, stack)) : KnownAt(pid, Known(pid, stack)[i])
<1> DEFINE places == KnownPlaces(pid, stack)
<1>1. places \in SUBSET (1..Len(stack)) /\ \A k \in places : KnownAt(pid, stack[k])
    BY LenProperties DEF KnownPlaces, KnownAt
<1>2. Known(pid, stack) = Select(stack, places)
    BY DEF Known, KnownPlaces
<1> HIDE DEF places
<1>3. /\ Select(stack, places) \in Seq(Nat)
      /\ \A i \in 1..Len(Select(stack, places)) : \E k \in places : Select(stack, places)[i] = stack[k]
    BY <1>1, SelectTyped
<1> QED
    BY <1>1, <1>2, <1>3, Zenon

LEMMA PlainFramesTyped ==
    ASSUME NEW pid, NEW stack \in Seq(Nat)
    PROVE  /\ PlainFrames(pid, stack) \in Seq(Seq(PlainEntry))
           /\ Len(PlainFrames(pid, stack)) = Len(Known(pid, stack))
           /\ \A i \in 1..Len(Known(pid, stack)) :
                 PlainFrames(pid, stack)[i] = <<PlainFrame(pid, Known(pid, stack)[i])>>
<1> DEFINE q == Known(pid, stack)
           t == PlainFrames(pid, stack)
<1>1. t = [i \in DOMAIN q |-> <<PlainFrame(pid, q[i])>>]
    BY Zenon DEF PlainFrames
<1>2. q \in Seq(Nat) /\ \A i \in 1..Len(q) : KnownAt(pid, q[i])
    BY KnownTyped, Zenon
<1> HIDE DEF q, t
<1>3. DOMAIN q = 1..Len(q) /\ \A i \in 1..Len(q) : q[i] \in Nat
    BY <1>2, LenProperties
<1>4. \A i \in 1..Len(q) : t[i] = <<PlainFrame(pid, q[i])>>
    BY <1>1, <1>3, Zenon
<1>5. ASSUME NEW i \in 1..Len(q) PROVE t[i] \in Seq(PlainEntry)
    <2>1. PlainFrame(pid, q[i]) \in PlainEntry
        BY <1>2, <1>3, PlainFrameTyped, Zenon
    <2>2. <<PlainFrame(pid, q[i])>> \in Seq(PlainEntry)
        BY <2>1, Singleton, Zenon
    <2> QED
        BY <1>4, <2>2, Zenon
<1>6. t = [i \in DOMAIN q |-> t[i]]
    BY <1>1
<1>7. SameShape(Seq(PlainEntry), q, t)
    BY ONLY <1>2, <1>5, <1>6, MappedShape, Zenon
<1> QED
    BY <1>4, <1>7, Zenon DEF SameShape, q, t

LEMMA PlainStackTyped ==
    ASSUME NEW pid, NEW stack \in Seq(Nat)
    PROVE  PlainStack(pid, stack) \in Seq(PlainEntry)
BY PlainFramesTyped, FlattenTyped, Zenon DEF PlainStack

\* The places that are mapped, or known, do not depend on what is after them.
LEMMA KnownAppend ==
    ASSUME NEW pid, NEW stack \in Seq(Nat), NEW a \in Nat, NEW more, more = Append(stack, a)
    PROVE  Known(pid, more) = IF KnownAt(pid, a) THEN Append(Known(pid, stack), a) ELSE Known(pid, stack)
<1> DEFINE P == KnownPlaces(pid, stack)
           Q == KnownPlaces(pid, more)
<1>0. OneMore(Nat, stack, a, more)
    BY AppendFacts, Zenon
<1>1. /\ more \in Seq(Nat) /\ more[Len(more)] = a /\ Len(more) \in 1..Len(more)
      /\ \A i \in 1..Len(stack) : more[i] = stack[i] /\ i \in 1..Len(more)
    BY <1>0, Zenon DEF OneMore
<1>2. DOMAIN stack = 1..Len(stack) /\ DOMAIN more = 1..Len(more)
    BY <1>1, LenProperties
<1>3. P \in SUBSET (1..Len(stack)) /\ Q \in SUBSET (1..Len(more))
    BY <1>2, Zenon DEF KnownPlaces
<1>4. \A i \in 1..Len(stack) : i \in Q <=> i \in P
    BY <1>1, <1>2, Zenon DEF KnownPlaces
<1>5. Len(more) \in Q <=> KnownAt(pid, a)
    BY <1>1, <1>2, Zenon DEF KnownPlaces, KnownAt
<1>6. Known(pid, stack) = Select(stack, P) /\ Known(pid, more) = Select(more, Q)
    BY Zenon DEF Known, KnownPlaces
<1> HIDE DEF P, Q
<1>7. Select(more, Q) = IF Len(more) \in Q THEN Append(Select(stack, P), a) ELSE Select(stack, P)
    <2>1. SelectsMore(stack, a, more, P, Q)
        BY <1>3, <1>4, SelectAppend, Zenon
    <2> QED
        BY <2>1, Zenon DEF SelectsMore
<1> QED
    BY <1>5, <1>6, <1>7, Zenon

LEMMA MappedAppend ==
    ASSUME NEW pid, NEW stack \in Seq(Nat), NEW a \in Nat, NEW more, more = Append(stack, a)
    PROVE  MappedPart(pid, more) = IF IsMapped(pid, a) THEN Append(MappedPart(pid, stack), a)
                                   ELSE MappedPart(pid, stack)
<1> DEFINE P == MappedPlaces(pid, stack)
           Q == MappedPlaces(pid, more)
<1>0. OneMore(Nat, stack, a, more)
    BY AppendFacts, Zenon
<1>1. /\ more \in Seq(Nat) /\ more[Len(more)] = a /\ Len(more) \in 1..Len(more)
      /\ \A i \in 1..Len(stack) : more[i] = stack[i] /\ i \in 1..Len(more)
    BY <1>0, Zenon DEF OneMore
<1>2. DOMAIN stack = 1..Len(stack) /\ DOMAIN more = 1..Len(more)
    BY <1>1, LenProperties
<1>3. P \in SUBSET (1..Len(stack)) /\ Q \in SUBSET (1..Len(more))
    BY <1>2, Zenon DEF MappedPlaces
<1>4. \A i \in 1..Len(stack) : i \in Q <=> i \in P
    BY <1>1, <1>2, Zenon DEF MappedPlaces
<1>5. Len(more) \in Q <=> IsMapped(pid, a)
    BY <1>1, <1>2, Zenon DEF MappedPlaces
<1>6. MappedPart(pid, stack) = Select(stack, P) /\ MappedPart(pid, more) = Select(more, Q)
    BY Zenon DEF MappedPart
<1> HIDE DEF P, Q
<1>7. Select(more, Q) = IF Len(more) \in Q THEN Append(Select(stack, P), a) ELSE Select(stack, P)
    <2>1. SelectsMore(stack, a, more, P, Q)
        BY <1>3, <1>4, SelectAppend, Zenon
    <2> QED
        BY <2>1, Zenon DEF SelectsMore
<1> QED
    BY <1>5, <1>6, <1>7, Zenon

\* Frames over one more address.
LEMMA FramesOfMore ==
    ASSUME NEW pid, NEW stack \in Seq(Nat), NEW a \in Nat, NEW more, more = Append(stack, a)
    PROVE  Frames(pid, more) = IF IsMapped(pid, a)
                               THEN Append(Frames(pid, stack), Frame(a, file_offset(pid, a), NoSymbol))
                               ELSE Frames(pid, stack)
<1> DEFINE q == MappedPart(pid, stack)
           r == MappedPart(pid, more)
           fs == Frames(pid, stack)
           gs == Frames(pid, more)
           f == Frame(a, file_offset(pid, a), NoSymbol)
<1>1. more \in Seq(Nat)
    BY AppendProperties
<1>2. r = IF IsMapped(pid, a) THEN Append(q, a) ELSE q
    BY MappedAppend, Zenon
<1>3. /\ fs \in Seq(FrameType) /\ fs = [i \in DOMAIN q |-> Frame(q[i], file_offset(pid, q[i]), NoSymbol)]
      /\ gs \in Seq(FrameType) /\ gs = [i \in DOMAIN r |-> Frame(r[i], file_offset(pid, r[i]), NoSymbol)]
    BY <1>1, FramesTyped, Zenon
<1>4. q \in Seq(Nat)
    BY MappedPartTyped, Zenon
<1> HIDE DEF q, r, fs, gs
<1>5. CASE ~IsMapped(pid, a)
    <2>1. r = q
        BY <1>2, <1>5, Zenon
    <2>2. gs = fs
        BY <1>3, <2>1, Zenon
    <2> QED
        BY <1>5, <2>2, Zenon DEF fs, gs
<1>6. CASE IsMapped(pid, a)
    <2>0. OneMore(Nat, q, a, r)
        BY <1>2, <1>4, <1>6, AppendFacts, Zenon
    <2>1. /\ r \in Seq(Nat) /\ Len(q) \in Nat /\ Len(r) = Len(q) + 1 /\ r[Len(q) + 1] = a
          /\ Len(q) + 1 \in 1..Len(r) /\ \A i \in 1..Len(q) : r[i] = q[i] /\ i \in 1..Len(r)
        BY <2>0, Zenon DEF OneMore
    <2>2. DOMAIN q = 1..Len(q) /\ DOMAIN r = 1..Len(r)
        BY <1>4, <2>1, LenProperties
    <2>3. Len(fs) = Len(q) /\ Len(gs) = Len(r)
        <3>1. fs = [i \in 1..Len(q) |-> fs[i]] /\ gs = [i \in 1..Len(r) |-> gs[i]]
            BY <1>3, <2>2
        <3>2. DOMAIN fs = 1..Len(q) /\ DOMAIN gs = 1..Len(r)
            BY <1>3, <2>2
        <3>3. DOMAIN fs = 1..Len(fs) /\ DOMAIN gs = 1..Len(gs) /\ Len(fs) \in Nat /\ Len(gs) \in Nat
            BY <1>3, LenProperties
        <3> QED
            BY <2>1, <3>2, <3>3
    <2>4. \A i \in 1..Len(fs) : gs[i] = fs[i]
        BY <1>3, <2>1, <2>2, <2>3, Zenon
    <2>5. gs[Len(fs) + 1] = f
        BY <1>3, <2>1, <2>2, <2>3, Zenon
    <2>6. f \in FrameType
        <3>1. a \in Int /\ file_offset(pid, a) \in Int
            BY <1>6, OffsetTyped
        <3> QED
            BY <3>1, NoSymbolTyped, FrameTyped, Zenon
    <2>7. Len(gs) = Len(fs) + 1
        BY <2>1, <2>3, Zenon
    <2> HIDE DEF f
    <2>8. gs = Append(fs, f)
        <3>1. fs \in Seq(FrameType) /\ gs \in Seq(FrameType)
            BY <1>3, Zenon
        <3> QED
            BY <2>4, <2>5, <2>6, <2>7, <3>1, IsAppended, Zenon
    <2> QED
        BY <1>6, <2>8, Zenon DEF fs, gs, f
<1> QED
    BY <1>5, <1>6, Zenon

\* PlainStack over one more address.
LEMMA PlainStackOfMore ==
    ASSUME NEW pid, NEW stack \in Seq(Nat), NEW a \in Nat, NEW more, more = Append(stack, a)
    PROVE  PlainStack(pid, more) = IF KnownAt(pid, a)
                                   THEN Append(PlainStack(pid, stack), PlainFrame(pid, a))
                                   ELSE PlainStack(pid, stack)
<1> DEFINE q == Known(pid, stack)
           r == Known(pid, more)
           fs == PlainFrames(pid, stack)
           gs == PlainFrames(pid, more)
           x == <<PlainFrame(pid, a)>>
<1>1. more \in Seq(Nat)
    BY AppendProperties
<1>2. r = IF KnownAt(pid, a) THEN Append(q, a) ELSE q
    BY KnownAppend, Zenon
<1>3. /\ fs \in Seq(Seq(PlainEntry)) /\ Len(fs) = Len(q)
      /\ \A i \in 1..Len(q) : fs[i] = <<PlainFrame(pid, q[i])>>
    BY PlainFramesTyped, Zenon
<1>4. /\ gs \in Seq(Seq(PlainEntry)) /\ Len(gs) = Len(r)
      /\ \A i \in 1..Len(r) : gs[i] = <<PlainFrame(pid, r[i])>>
    BY <1>1, PlainFramesTyped, Zenon
<1>5. q \in Seq(Nat)
    BY KnownTyped, Zenon
<1>6. gs = [i \in DOMAIN r |-> <<PlainFrame(pid, r[i])>>] /\ fs = [i \in DOMAIN q |-> <<PlainFrame(pid, q[i])>>]
    BY Zenon DEF PlainFrames
<1>7. PlainStack(pid, stack) = Flatten(fs) /\ PlainStack(pid, more) = Flatten(gs)
    BY Zenon DEF PlainStack
<1> HIDE DEF q, r, fs, gs
<1>8. CASE ~KnownAt(pid, a)
    <2>1. r = q
        BY <1>2, <1>8, Zenon
    <2>2. gs = fs
        BY <1>6, <2>1, Zenon
    <2> QED
        BY <1>7, <1>8, <2>2, Zenon
<1>9. CASE KnownAt(pid, a)
    <2>0. OneMore(Nat, q, a, r)
        BY <1>2, <1>5, <1>9, AppendFacts, Zenon
    <2>1. /\ Len(q) \in Nat /\ Len(r) = Len(q) + 1 /\ r[Len(q) + 1] = a
          /\ Len(q) + 1 \in 1..Len(r) /\ \A i \in 1..Len(q) : r[i] = q[i] /\ i \in 1..Len(r)
        BY <2>0, Zenon DEF OneMore
    <2>2. \A i \in 1..Len(fs) : gs[i] = fs[i]
        BY <1>3, <1>4, <2>1, Zenon
    <2>3. gs[Len(fs) + 1] = x
        BY <1>3, <1>4, <2>1, Zenon
    <2>4. PlainFrame(pid, a) \in PlainEntry
        BY <1>9, PlainFrameTyped, Zenon
    <2>5. x \in Seq(PlainEntry)
        BY <2>4, Singleton, Zenon
    <2>6. Len(gs) = Len(fs) + 1
        BY <1>3, <1>4, <2>1, Zenon
    <2> HIDE DEF x
    <2>7. gs = Append(fs, x)
        BY <1>3, <1>4, <2>2, <2>3, <2>5, <2>6, IsAppended, Zenon
    <2>8. Flatten(gs) = Flatten(fs) \o x
        BY <1>3, <2>5, <2>7, FlattenAppend, Zenon
    <2>9. Flatten(fs) \in Seq(PlainEntry)
        BY <1>3, FlattenTyped, Zenon
    <2>10. Flatten(fs) \o <<PlainFrame(pid, a)>> = Append(Flatten(fs), PlainFrame(pid, a))
        BY <2>4, <2>9, AppendIsConcat, Zenon
    <2> QED
        BY <1>7, <1>9, <2>8, <2>10, Zenon DEF x
<1> QED
    BY <1>8, <1>9, Zenon

\* What a reader makes of locations without functions.
DecodedStack(b, locs) == [j \in DOMAIN locs |-> DecodedPlain(b, locs[j])]

LEMMA DecodedTyped ==
    ASSUME NEW b, Linked(b), NEW id \in 1..Len(b.locations)
    PROVE  DecodedPlain(b, id) \in PlainEntry
<1>1. b \in BuilderType /\ b.locations[id].mapping \in 1..Len(b.mappings)
    BY Zenon DEF Linked
<1>2. b.locations[id] \in LocationEntry /\ b.mappings[b.locations[id].mapping] \in MappingEntry
    BY <1>1, ElementOfSeq DEF BuilderType
<1>3. b.locations[id].address \in Int /\ b.mappings[b.locations[id].mapping].id \in Nat
    BY <1>2 DEF LocationEntry, MappingEntry
<1> QED
    BY <1>3 DEF DecodedPlain, PlainEntry, PlainAt, Located

\* What a location shows stays while the tables grow.
LEMMA DecodedStays ==
    ASSUME NEW b, Linked(b), NEW c, Grown(b, c), NEW id \in 1..Len(b.locations)
    PROVE  DecodedPlain(c, id) = DecodedPlain(b, id)
<1>1. b.locations[id].mapping \in 1..Len(b.mappings)
    BY Zenon DEF Linked
<1>2. c.locations[id] = b.locations[id]
    BY Zenon DEF Grown, Extended
<1>3. c.mappings[b.locations[id].mapping] = b.mappings[b.locations[id].mapping]
    BY <1>1, Zenon DEF Grown, Extended
<1> QED
    BY <1>2, <1>3, Zenon DEF DecodedPlain

\* locs are locations of b.
Within(b, locs) == locs \in Seq(Nat) /\ \A j \in 1..Len(locs) : locs[j] \in 1..Len(b.locations)

LEMMA DecodedStackTyped ==
    ASSUME NEW b, Linked(b), NEW locs, Within(b, locs)
    PROVE  /\ DecodedStack(b, locs) \in Seq(PlainEntry) /\ Len(DecodedStack(b, locs)) = Len(locs)
           /\ \A j \in 1..Len(locs) : DecodedStack(b, locs)[j] = DecodedPlain(b, locs[j])
<1> DEFINE t == DecodedStack(b, locs)
<1>1. locs \in Seq(Nat) /\ \A j \in 1..Len(locs) : locs[j] \in 1..Len(b.locations)
    BY Zenon DEF Within
<1>2. DOMAIN locs = 1..Len(locs)
    BY <1>1, LenProperties
<1>3. \A j \in 1..Len(locs) : t[j] = DecodedPlain(b, locs[j])
    BY <1>2, Zenon DEF DecodedStack
<1>4. t = [j \in DOMAIN locs |-> t[j]]
    BY DEF DecodedStack
<1> HIDE DEF t
<1>5. \A j \in 1..Len(locs) : t[j] \in PlainEntry
    BY <1>1, <1>3, DecodedTyped, Zenon
<1>6. SameShape(PlainEntry, locs, t)
    BY ONLY <1>1, <1>4, <1>5, MappedShape, Zenon
<1> QED
    BY <1>3, <1>6, Zenon DEF SameShape, t

\* What locations show stays while the tables grow.
LEMMA DecodedStackStays ==
    ASSUME NEW b, Linked(b), NEW c, Grown(b, c), NEW locs, Within(b, locs)
    PROVE  DecodedStack(c, locs) = DecodedStack(b, locs)
<1>1. DOMAIN locs = 1..Len(locs) /\ \A j \in 1..Len(locs) : locs[j] \in 1..Len(b.locations)
    BY LenProperties DEF Within
<1>2. \A j \in DOMAIN locs : DecodedPlain(c, locs[j]) = DecodedPlain(b, locs[j])
    BY <1>1, DecodedStays, Zenon
<1> QED
    BY <1>2, Zenon DEF DecodedStack

DecodesMore(b, locs, c, more, id) ==
    DecodedStack(c, more) = Append(DecodedStack(b, locs), DecodedPlain(c, id))

\* What one more location shows comes last.
LEMMA DecodedStackMore ==
    ASSUME NEW b, Linked(b), NEW c, Linked(c), Grown(b, c), NEW locs, Within(b, locs),
           NEW id \in 1..Len(c.locations), NEW more, more = Append(locs, id), Within(c, more)
    PROVE  DecodesMore(b, locs, c, more, id)
<1> DEFINE s == DecodedStack(b, locs)
           t == DecodedStack(c, more)
           x == DecodedPlain(c, id)
<1>1. /\ s \in Seq(PlainEntry) /\ Len(s) = Len(locs)
      /\ \A j \in 1..Len(locs) : s[j] = DecodedPlain(b, locs[j])
    BY DecodedStackTyped, Zenon
<1>2. /\ t \in Seq(PlainEntry) /\ Len(t) = Len(more)
      /\ \A j \in 1..Len(more) : t[j] = DecodedPlain(c, more[j])
    BY DecodedStackTyped, Zenon
<1>3. x \in PlainEntry
    BY DecodedTyped, Zenon
<1> HIDE DEF s, t, x
<1>4. locs \in Seq(Nat) /\ id \in Nat
    BY DEF Within
<1>5. OneMore(Nat, locs, id, more)
    BY <1>4, AppendFacts, Zenon
<1>6. /\ Len(more) = Len(locs) + 1 /\ more[Len(locs) + 1] = id /\ Len(locs) + 1 \in 1..Len(more)
      /\ \A i \in 1..Len(locs) : more[i] = locs[i] /\ i \in 1..Len(more)
    BY <1>5, Zenon DEF OneMore
<1>7. \A i \in 1..Len(s) : t[i] = s[i]
    <2>1. \A i \in 1..Len(locs) : DecodedPlain(c, locs[i]) = DecodedPlain(b, locs[i])
        BY DecodedStays, Zenon DEF Within
    <2>2. \A i \in 1..Len(locs) : t[i] = DecodedPlain(c, locs[i])
        <3> TAKE i \in 1..Len(locs)
        <3>1. t[i] = DecodedPlain(c, more[i]) /\ more[i] = locs[i]
            BY <1>2, <1>6, Zenon
        <3> QED
            BY <3>1, Zenon
    <2>3. \A i \in 1..Len(locs) : t[i] = s[i]
        BY <1>1, <2>1, <2>2, Zenon
    <2> QED
        BY <1>1, <2>3, Zenon
<1>8. t[Len(s) + 1] = x /\ Len(t) = Len(s) + 1
    BY <1>1, <1>2, <1>6, Zenon DEF x
<1>9. t = Append(s, x)
    <2>1. s \in Seq(PlainEntry) /\ t \in Seq(PlainEntry)
        BY <1>1, <1>2, Zenon
    <2> QED
        BY <1>3, <1>7, <1>8, <2>1, IsAppended, Zenon
<1> QED
    BY <1>9, Zenon DEF s, t, x, DecodesMore

EndsWith(s, t, x) == Append(s \o t, x) = s \o Append(t, x)

LEMMA ConcatAppend ==
    ASSUME NEW S, NEW s \in Seq(S), NEW t \in Seq(S), NEW x \in S
    PROVE  EndsWith(s, t, x)
<1>1. s \o t \in Seq(S) /\ <<x>> \in Seq(S)
    BY ConcatProperties
<1>2. Append(s \o t, x) = (s \o t) \o <<x>> /\ Append(t, x) = t \o <<x>>
    BY <1>1, AppendIsConcat, Zenon
<1>3. (s \o t) \o <<x>> = s \o (t \o <<x>>)
    BY <1>1, ConcatAssociative
<1> QED
    BY <1>2, <1>3, Zenon DEF EndsWith

-----------------------------------------------------------------------------
(* AddFrames over the frames of a stack shows what is known of the stack.  *)

Shows(pid, acc, new, stack) ==
    /\ GoodAcc(new) /\ Grown(acc.b, new.b) /\ Plain(new.b)
    /\ DecodedStack(new.b, new.locations)
         = DecodedStack(acc.b, acc.locations) \o PlainStack(pid, stack)

LEMMA AccWithin ==
    ASSUME NEW acc, GoodAcc(acc)
    PROVE  Within(acc.b, acc.locations) /\ Linked(acc.b) /\ acc.b \in BuilderType
BY DEF GoodAcc, Within

\* One more address of a stack: its frame shows it if it is known, and nothing if not.
LEMMA ShowsMore ==
    ASSUME NEW pid, NEW acc, GoodAcc(acc), NEW stack \in Seq(Nat), NEW old, Shows(pid, acc, old, stack),
           NEW a \in Nat, NEW more, more = Append(stack, a),
           NEW new, new = IF IsMapped(pid, a)
                          THEN AddFrame(pid, old, Frame(a, file_offset(pid, a), NoSymbol)) ELSE old
    PROVE  Shows(pid, acc, new, more)
<1> DEFINE f == Frame(a, file_offset(pid, a), NoSymbol)
           D == DecodedStack(acc.b, acc.locations)
           E == PlainStack(pid, stack)
<1>1. /\ GoodAcc(old) /\ Grown(acc.b, old.b) /\ Plain(old.b)
      /\ DecodedStack(old.b, old.locations) = D \o E
    BY Zenon DEF Shows
<1>2. PlainStack(pid, more) = IF KnownAt(pid, a) THEN Append(E, PlainFrame(pid, a)) ELSE E
    BY PlainStackOfMore, Zenon
<1>3. Within(old.b, old.locations) /\ Linked(old.b) /\ old.b \in BuilderType
    BY <1>1, AccWithin, Zenon
<1>4. Within(acc.b, acc.locations) /\ Linked(acc.b) /\ acc.b \in BuilderType
    BY AccWithin, Zenon
<1>5. D \in Seq(PlainEntry) /\ E \in Seq(PlainEntry)
    BY <1>4, DecodedStackTyped, PlainStackTyped, Zenon
<1> HIDE DEF D, E
<1>6. CASE ~IsMapped(pid, a)
    <2>1. new = old /\ ~KnownAt(pid, a)
        BY <1>6, Zenon DEF KnownAt
    <2>2. PlainStack(pid, more) = E
        BY <1>2, <2>1, Zenon
    <2> QED
        BY <1>1, <2>1, <2>2, Zenon DEF Shows, D
<1>7. CASE IsMapped(pid, a)
    <2>1. f \in FrameType /\ f.symbol = NoSymbol
        <3>1. a \in Int /\ file_offset(pid, a) \in Int
            BY <1>7, OffsetTyped
        <3>2. f \in FrameType
            BY <3>1, NoSymbolTyped, FrameTyped, Zenon
        <3>3. f.symbol = NoSymbol
            BY DEF Frame
        <3> QED
            BY <3>2, <3>3, Zenon
    <2>2. new = AddFrame(pid, old, f)
        BY <1>7, Zenon
    <2>3. /\ Shown(pid, f) <=> KnownAt(pid, a)
          /\ Shown(pid, f) => PlainAt(for_address(pid, f.address).exe, NormalizedOf(pid, f)) = PlainFrame(pid, a)
        BY <1>7, ShownIsKnown, Zenon
    <2> HIDE DEF f
    <2>4. IncludesFrame(pid, old, new, f)
        BY <1>1, <2>1, <2>2, FrameAdded, Zenon
    <2>5. GoodAcc(new) /\ Grown(old.b, new.b) /\ Plain(new.b)
        BY <1>1, <2>1, <2>4, Zenon DEF IncludesFrame
    <2>6. Within(new.b, new.locations) /\ Linked(new.b) /\ new.b \in BuilderType
        BY <2>5, AccWithin, Zenon
    <2>7. Grown(acc.b, new.b)
        BY <1>1, <1>3, <1>4, <2>5, <2>6, GrownTwice, Zenon
    <2>8. CASE ~Shown(pid, f)
        <3>1. new = old /\ PlainStack(pid, more) = E
            BY <1>2, <2>3, <2>4, <2>8, Zenon DEF IncludesFrame
        <3> QED
            BY <1>1, <3>1, Zenon DEF Shows, D
    <2>9. CASE Shown(pid, f)
        <3>1. PICK id \in 1..Len(new.b.locations) :
                 /\ new.locations = Append(old.locations, id)
                 /\ DecodedPlain(new.b, id) = PlainAt(for_address(pid, f.address).exe, NormalizedOf(pid, f))
            BY <2>4, <2>9, Zenon DEF IncludesFrame
        <3>2. DecodedPlain(new.b, id) = PlainFrame(pid, a) /\ KnownAt(pid, a)
            BY <2>3, <2>9, <3>1, Zenon
        <3>3. DecodedStack(new.b, new.locations)
                = Append(DecodedStack(old.b, old.locations), DecodedPlain(new.b, id))
            <4>1. DecodesMore(old.b, old.locations, new.b, new.locations, id)
                BY <1>3, <2>5, <2>6, <3>1, DecodedStackMore, Zenon
            <4> QED
                BY <4>1, Zenon DEF DecodesMore
        <3>4. PlainFrame(pid, a) \in PlainEntry
            BY <3>2, PlainFrameTyped, Zenon
        <3>5. Append(D \o E, PlainFrame(pid, a)) = D \o Append(E, PlainFrame(pid, a))
            <4>1. EndsWith(D, E, PlainFrame(pid, a))
                BY <1>5, <3>4, ConcatAppend, Zenon
            <4> QED
                BY <4>1, Zenon DEF EndsWith
        <3>6. PlainStack(pid, more) = Append(E, PlainFrame(pid, a))
            BY <1>2, <3>2, Zenon
        <3>7. DecodedStack(new.b, new.locations) = D \o PlainStack(pid, more)
            BY <1>1, <3>2, <3>3, <3>5, <3>6, Zenon
        <3> QED
            BY <2>5, <2>7, <3>7, Zenon DEF Shows, D
    <2> QED
        BY <2>8, <2>9, Zenon
<1> QED
    BY <1>6, <1>7, Zenon

\* No address, no frames.
LEMMA FramesOfNone ==
    ASSUME NEW pid, NEW stack \in Seq(Nat), Len(stack) = 0
    PROVE  Frames(pid, stack) = <<>> /\ PlainStack(pid, stack) = <<>>
<1>1. DOMAIN stack = {} /\ 0 \in 0..Len(stack)
    BY LenProperties
<1>2. KnownPlaces(pid, stack) = {} /\ MappedPlaces(pid, stack) = {}
    BY <1>1, Zenon DEF KnownPlaces, MappedPlaces
<1>3. Select(stack, {}) = <<>>
    <2>1. PICK r : SelectBy(r, stack, {})
        <3>1. {} \in SUBSET (1..Len(stack))
            OBVIOUS
        <3> QED
            BY <3>1, SelectLoop, Zenon
    <2> QED
        BY <2>1, Zenon DEF SelectBy
<1>4. Known(pid, stack) = <<>> /\ MappedPart(pid, stack) = <<>>
    BY <1>2, <1>3, Zenon DEF Known, KnownPlaces, MappedPart
<1>5. Frames(pid, stack) = <<>>
    <2>1. Frames(pid, stack) \in Seq(FrameType) /\ DOMAIN Frames(pid, stack) = DOMAIN MappedPart(pid, stack)
        BY FramesTyped, Zenon
    <2>2. DOMAIN Frames(pid, stack) = {}
        BY <1>4, <2>1
    <2> QED
        BY <2>1, <2>2, LenProperties
<1>6. Len(PlainFrames(pid, stack)) = 0 /\ PlainFrames(pid, stack) \in Seq(Seq(PlainEntry))
    <2>1. Len(<<>>) = 0
        OBVIOUS
    <2> QED
        BY <1>4, <2>1, PlainFramesTyped, Zenon
<1>7. Flatten(PlainFrames(pid, stack)) = <<>>
    <2>1. PICK r : FlattenBy(r, PlainFrames(pid, stack), PlainEntry)
        BY <1>6, FlattenLoop, Zenon
    <2> QED
        BY <1>6, <2>1, Zenon DEF FlattenBy
<1> QED
    BY <1>5, <1>7, Zenon DEF PlainStack

Prefix(s, k) == [i \in 1..k |-> s[i]]

LEMMA PrefixFacts ==
    ASSUME NEW s \in Seq(Nat), NEW k \in 0..Len(s)
    PROVE  /\ Prefix(s, k) \in Seq(Nat) /\ Len(Prefix(s, k)) = k
           /\ \A i \in 1..k : Prefix(s, k)[i] = s[i]
<1>1. Len(s) \in Nat /\ \A i \in 1..Len(s) : s[i] \in Nat
    BY LenProperties
<1>2. k \in Nat /\ \A i \in 1..k : s[i] \in Nat
    BY <1>1
<1> QED
    BY <1>2 DEF Prefix

\* A prefix is the one before with one more element.
LEMMA PrefixMore ==
    ASSUME NEW s \in Seq(Nat), NEW k \in 1..Len(s)
    PROVE  Prefix(s, k) = Append(Prefix(s, k - 1), s[k]) /\ s[k] \in Nat
<1> DEFINE p == Prefix(s, k - 1)
           q == Prefix(s, k)
<1>1. Len(s) \in Nat /\ s[k] \in Nat
    BY LenProperties
<1>2. k \in 0..Len(s) /\ k - 1 \in 0..Len(s) /\ k = (k - 1) + 1 /\ k \in 1..k
    BY <1>1
<1>3. /\ p \in Seq(Nat) /\ Len(p) = k - 1 /\ \A i \in 1..k - 1 : p[i] = s[i]
      /\ q \in Seq(Nat) /\ Len(q) = k /\ \A i \in 1..k : q[i] = s[i]
    BY <1>2, PrefixFacts, Zenon
<1> HIDE DEF p, q
<1>4. \A i \in 1..k - 1 : i \in 1..k
    BY <1>1
<1>5. Len(q) = Len(p) + 1 /\ q[Len(p) + 1] = s[k] /\ \A i \in 1..Len(p) : q[i] = p[i]
    BY <1>2, <1>3, <1>4, Zenon
<1>6. q = Append(p, s[k])
    BY <1>1, <1>3, <1>5, IsAppended, Zenon
<1> QED
    BY <1>1, <1>6, Zenon DEF p, q

\* The locations of a stack show what is known of it: by induction over its addresses.
LEMMA StackShown ==
    ASSUME NEW pid, NEW acc, GoodAcc(acc), Plain(acc.b), NEW stack \in Seq(Nat),
           NEW new, new = AddFrames(pid, acc, Frames(pid, stack))
    PROVE  Shows(pid, acc, new, stack)
<1> DEFINE N == Len(stack)
           p(k) == Prefix(stack, k)
           at(k) == AddFrames(pid, acc, Frames(pid, p(k)))
           G == {k \in 0..N : Shows(pid, acc, at(k), p(k))}
<1>1. N \in Nat /\ 0 \in 0..N /\ N \in 0..N
    BY LenProperties
<1>2. \A k \in 0..N : p(k) \in Seq(Nat) /\ Len(p(k)) = k
    BY PrefixFacts, Zenon
<1>3. 0 \in G
    <2>1. Frames(pid, p(0)) = <<>> /\ PlainStack(pid, p(0)) = <<>>
        BY <1>1, <1>2, FramesOfNone, Zenon
    <2>2. AddFrames(pid, acc, <<>>) = acc
        <3>1. <<>> \in Seq(FrameType) /\ Len(<<>>) = 0
            OBVIOUS
        <3>2. PICK r : FramesBy(r, pid, acc, <<>>)
            BY <3>1, FramesLoop, Zenon
        <3> QED
            BY <3>1, <3>2, Zenon DEF FramesBy
    <2>3. at(0) = acc
        BY <2>1, <2>2, Zenon
    <2>4. Within(acc.b, acc.locations) /\ Linked(acc.b) /\ acc.b \in BuilderType
        BY AccWithin, Zenon
    <2>5. DecodedStack(acc.b, acc.locations) \in Seq(PlainEntry)
        BY <2>4, DecodedStackTyped, Zenon
    <2>6. DecodedStack(acc.b, acc.locations) \o <<>> = DecodedStack(acc.b, acc.locations)
        BY <2>5, ConcatEmpty
    <2>7. Grown(acc.b, acc.b)
        BY <2>4, GrownSame, Zenon
    <2>8. Shows(pid, acc, acc, p(0))
        BY <2>1, <2>6, <2>7, Zenon DEF Shows
    <2> QED
        BY <1>1, <2>3, <2>8, Zenon
<1>4. ASSUME NEW k \in 1..N, k - 1 \in G PROVE k \in G
    <2>1. k \in 0..N /\ k - 1 \in 0..N
        BY <1>1
    <2>2. p(k) = Append(p(k - 1), stack[k]) /\ stack[k] \in Nat
        BY PrefixMore, Zenon
    <2> DEFINE a == stack[k]
               f == Frame(a, file_offset(pid, a), NoSymbol)
               old == at(k - 1)
               s == p(k - 1)
               fs == Frames(pid, s)
    <2>3. s \in Seq(Nat) /\ Shows(pid, acc, old, s) /\ fs \in Seq(FrameType)
        BY <1>2, <1>4, <2>1, FramesTyped, Zenon
    <2>4. Frames(pid, p(k)) = IF IsMapped(pid, a) THEN Append(fs, f) ELSE fs
        BY <2>2, <2>3, FramesOfMore, Zenon
    <2>5. at(k) = IF IsMapped(pid, a) THEN AddFrame(pid, old, f) ELSE old
        <3>1. CASE IsMapped(pid, a)
            <4>1. f \in FrameType
                <5>1. a \in Int /\ file_offset(pid, a) \in Int
                    BY <2>2, <3>1, OffsetTyped
                <5> QED
                    BY <5>1, NoSymbolTyped, FrameTyped, Zenon
            <4>2. at(k) = AddFrames(pid, acc, Append(fs, f)) /\ old = AddFrames(pid, acc, fs)
                BY <2>4, <3>1, Zenon
            <4> HIDE DEF f, fs, at, old
            <4>3. AddFrames(pid, acc, Append(fs, f)) = AddFrame(pid, AddFrames(pid, acc, fs), f)
                <5>1. AddsOne(pid, acc, fs, f, Append(fs, f))
                    BY <2>3, <4>1, FramesAppend, Zenon
                <5> QED
                    BY <5>1, Zenon DEF AddsOne
            <4> QED
                BY <3>1, <4>2, <4>3, Zenon
        <3>2. CASE ~IsMapped(pid, a)
            BY <2>4, <3>2, Zenon
        <3> QED
            BY <3>1, <3>2, Zenon
    <2>6. Shows(pid, acc, at(k), p(k))
        <3> HIDE DEF at, p, old, s
        <3> QED
            BY <2>2, <2>3, <2>5, ShowsMore, Zenon DEF s
    <2> QED
        BY <2>1, <2>6, Zenon
<1>5. \A k \in 0..N : k \in G
    <2> HIDE DEF G, N
    <2> QED
        BY <1>1, <1>3, <1>4, Induction, Zenon
<1>6. p(N) = stack
    BY LenProperties DEF Prefix
<1> QED
    BY <1>1, <1>5, <1>6, Zenon

-----------------------------------------------------------------------------
(* A profile that was not symbolised.                                      *)

SampledPlain(s) == PlainStack(KERNEL_PID, s.kstack) \o PlainStack(s.pid, s.ustack)

\* The locations of a sample show its two stacks.
LEMMA SampleShown ==
    ASSUME NEW b, Linked(b), Plain(b), NEW s \in RawSample, NEW u, u = UserAcc(b, Processed(s))
    PROVE  /\ GoodAcc(u) /\ Grown(b, u.b) /\ Plain(u.b)
           /\ DecodedStack(u.b, u.locations) = SampledPlain(s)
<1> DEFINE e == [b |-> b, locations |-> <<>>]
           k == AddFrames(KERNEL_PID, e, Frames(KERNEL_PID, s.kstack))
           K == PlainStack(KERNEL_PID, s.kstack)
           U == PlainStack(s.pid, s.ustack)
<1>1. s.kstack \in Seq(Nat) /\ s.ustack \in Seq(Nat)
    BY DEF RawSample
<1>2. u = AddFrames(s.pid, k, Frames(s.pid, s.ustack))
    BY DEF UserAcc, KernelAcc, Processed
<1>3. GoodAcc(e) /\ e.b = b /\ e.locations = <<>>
    BY EmptyAcc
<1>4. K \in Seq(PlainEntry) /\ U \in Seq(PlainEntry)
    BY <1>1, PlainStackTyped, Zenon
<1>5. DecodedStack(b, <<>>) = <<>>
    BY DEF DecodedStack
<1> HIDE DEF e
<1>6. Shows(KERNEL_PID, e, k, s.kstack)
    BY <1>1, <1>3, StackShown, Zenon
<1> HIDE DEF k, K, U
<1>7. /\ GoodAcc(k) /\ Grown(b, k.b) /\ Plain(k.b)
      /\ DecodedStack(k.b, k.locations) = <<>> \o K
    BY <1>3, <1>5, <1>6, Zenon DEF Shows, K
<1>8. Shows(s.pid, k, u, s.ustack)
    BY <1>1, <1>2, <1>7, StackShown, Zenon
<1>9. /\ GoodAcc(u) /\ Grown(k.b, u.b) /\ Plain(u.b)
      /\ DecodedStack(u.b, u.locations) = DecodedStack(k.b, k.locations) \o U
    BY <1>8, Zenon DEF Shows, U
<1>10. <<>> \o K = K
    BY <1>4, ConcatEmpty
<1>11. b \in BuilderType /\ k.b \in BuilderType /\ u.b \in BuilderType
    BY <1>7, <1>9, AccWithin, Zenon DEF Linked
<1>12. Grown(b, u.b)
    BY <1>7, <1>9, <1>11, GrownTwice, Zenon
<1> QED
    BY <1>7, <1>9, <1>10, <1>12, Zenon DEF SampledPlain, K, U

ShowsSample(b, smp, s) == smp.count = s.count /\ DecodedStack(b, smp.locations) = SampledPlain(s)

\* What is left to convert, and what the converted samples show.
Remaining(kept, b, rest) ==
    \A i \in 1..Len(rest) : rest[i] = Processed(kept[Len(b.samples) + i])

ShowsAll(kept, b) == \A i \in 1..Len(b.samples) : ShowsSample(b, b.samples[i], kept[i])

LEMMA ShowsAllSame ==
    ASSUME NEW kept, NEW b, ShowsAll(kept, b), NEW c, c.samples = b.samples, SameTables(b, c)
    PROVE  ShowsAll(kept, c)
<1>1. \A locs : DecodedStack(c, locs) = DecodedStack(b, locs)
    BY Zenon DEF DecodedStack, DecodedPlain, SameTables
<1> QED
    BY <1>1, Zenon DEF ShowsAll, ShowsSample

LEMMA PlainSame ==
    ASSUME NEW b, Plain(b), NEW c, SameTables(b, c)
    PROVE  Plain(c)
BY Zenon DEF Plain, SameTables

LEMMA SampleWithin ==
    ASSUME NEW b, Sound(b), NEW i \in 1..Len(b.samples)
    PROVE  Within(b, b.samples[i].locations)
<1>1. b.samples[i] \in SampleEntry
    BY ElementOfSeq DEF Sound, Linked, BuilderType
<1>2. b.samples[i].locations \in Seq(Nat)
    BY <1>1 DEF SampleEntry
<1> QED
    BY <1>2, Zenon DEF Within, Sound

\* A converted sample shows its stacks, and those before it show what they did.
LEMMA ShowsAllMore ==
    ASSUME NEW kept \in Seq(RawSample), NEW b, Sound(b), Plain(b), ShowsAll(kept, b),
           Len(b.samples) + 1 \in 1..Len(kept),
           NEW s, s = Processed(kept[Len(b.samples) + 1]), NEW u, u = UserAcc(b, s),
           NEW c, IncludesLocations(b, u, s.count, c)
    PROVE  Plain(c) /\ ShowsAll(kept, c)
<1> DEFINE n == Len(b.samples)
           r == kept[n + 1]
<1>1. r \in RawSample
    BY ElementOfSeq
<1>2. Linked(b) /\ b.samples \in Seq(SampleEntry) /\ n \in Nat
    BY BuilderLengths, Zenon DEF Sound, Linked, BuilderType
<1>3. s.count = r.count
    BY DEF Processed
<1> HIDE DEF r
<1>4. /\ GoodAcc(u) /\ Grown(b, u.b) /\ Plain(u.b)
      /\ DecodedStack(u.b, u.locations) = SampledPlain(r)
    BY <1>1, <1>2, SampleShown, Zenon DEF r
<1>5. PICK new \in SampleEntry : /\ c.samples = Append(b.samples, new)
                                 /\ new.locations = u.locations /\ new.count = s.count
    BY Zenon DEF IncludesLocations
<1>6. SameTables(u.b, c)
    BY Zenon DEF IncludesLocations
<1>7. \A locs : DecodedStack(c, locs) = DecodedStack(u.b, locs)
    BY <1>6, Zenon DEF DecodedStack, DecodedPlain, SameTables
<1>8. OneMore(SampleEntry, b.samples, new, c.samples)
    BY <1>2, <1>5, AppendFacts, Zenon
<1>9. /\ Len(c.samples) = n + 1 /\ c.samples[n + 1] = new
      /\ \A i \in 1..n : c.samples[i] = b.samples[i]
    BY <1>8, Zenon DEF OneMore
<1>10. \A i \in 1..Len(c.samples) : i \in 1..n \/ i = n + 1
    BY <1>2, <1>9
<1>11. ASSUME NEW i \in 1..n PROVE ShowsSample(c, c.samples[i], kept[i])
    <2>1. Within(b, b.samples[i].locations)
        BY SampleWithin, Zenon
    <2>2. DecodedStack(u.b, b.samples[i].locations) = DecodedStack(b, b.samples[i].locations)
        <3>1. Linked(b) /\ Grown(b, u.b)
            BY <1>2, <1>4, Zenon
        <3> QED
            BY ONLY <2>1, <3>1, DecodedStackStays, Zenon
    <2>3. ShowsSample(b, b.samples[i], kept[i])
        BY Zenon DEF ShowsAll
    <2>4. /\ b.samples[i].count = kept[i].count
          /\ DecodedStack(b, b.samples[i].locations) = SampledPlain(kept[i])
        BY <2>3, Zenon DEF ShowsSample
    <2>5. DecodedStack(c, b.samples[i].locations) = SampledPlain(kept[i])
        BY <1>7, <2>2, <2>4, Zenon
    <2>6. ShowsSample(c, b.samples[i], kept[i])
        BY <2>4, <2>5, Zenon DEF ShowsSample
    <2>7. c.samples[i] = b.samples[i]
        BY <1>9, Zenon
    <2> QED
        BY <2>6, <2>7, Zenon
<1>12. ShowsSample(c, new, r)
    BY <1>3, <1>4, <1>5, <1>7, Zenon DEF ShowsSample
<1>13. ShowsAll(kept, c)
    BY <1>9, <1>10, <1>11, <1>12, Zenon DEF ShowsAll, r
<1>14. Plain(c)
    BY <1>4, <1>6, PlainSame, Zenon
<1> QED
    BY <1>13, <1>14

\* Unsymbolised, the locations have no lines, the converted samples show the
\* stacks that were sampled, and the rest is still to be converted as it was processed.
PlainInv ==
    ~symbolized => /\ Plain(pprof) /\ ShowsAll(Kept, pprof)
                   /\ phase # "raw" => Remaining(Kept, pprof, profile)

\* Initially there is nothing to show.
LEMMA PlainStarts == PprofInit => PlainInv
<1> SUFFICES ASSUME PprofInit PROVE PlainInv
    OBVIOUS
<1>1. pprof = Builder /\ phase = "raw"
    BY DEF PprofInit
<1>2. Len(Builder.samples) = 0 /\ Len(Builder.locations) = 0 /\ 1..0 = {}
    BY DEF Builder
<1>3. Plain(Builder) /\ ShowsAll(Kept, Builder)
    BY <1>2, Zenon DEF Plain, ShowsAll
<1> QED
    BY <1>1, <1>3 DEF PlainInv

\* Every step keeps what is shown.
LEMMA PlainKeeps == PprofInv /\ PlainInv /\ [PprofNext]_pprofVars => PlainInv'
<1> SUFFICES ASSUME PprofInv, PlainInv, [PprofNext]_pprofVars PROVE PlainInv'
    OBVIOUS
<1>1. CASE Metadata \/ UNCHANGED pprofVars
    <2>1. /\ raw' = raw /\ profile' = profile /\ phase' = phase /\ pprof' = pprof
          /\ symbolized' = symbolized
        BY <1>1 DEF Metadata, register_task, task_turns, other_task_pushed, pprofVars
    <2>2. Kept' = Kept
        BY <2>1, KeptStays
    <2> QED
        BY <2>1, <2>2 DEF PlainInv
<1>2. CASE raw_to_processed
    <2>1. /\ raw' = raw /\ phase = "raw" /\ pprof' = pprof /\ symbolized' = symbolized
          /\ profile' = [i \in DOMAIN Kept |-> Processed(Kept[i])]
        BY <1>2 DEF raw_to_processed, MapFrames
    <2>2. Kept' = Kept
        BY <2>1, KeptStays
    <2>3. Kept \in Seq(RawSample) /\ Len(pprof.samples) = 0
        BY <2>1, KeptFacts DEF PprofInv, InStep
    <2>4. DOMAIN Kept = 1..Len(Kept) /\ Len(Kept) \in Nat
        BY <2>3, LenProperties
    <2>5. Len(profile') = Len(Kept)
        BY <2>1, <2>3, ProfileProcessed, Zenon
    <2>6. ASSUME NEW i \in 1..Len(profile') PROVE profile'[i] = Processed(Kept[Len(pprof.samples) + i])
        <3>1. Len(pprof.samples) + i = i
            BY <2>3
        <3>2. profile'[i] = Processed(Kept[i])
            BY <2>1, <2>4, <2>5, Zenon
        <3> QED
            BY <3>1, <3>2, Zenon
    <2>7. Remaining(Kept, pprof, profile')
        BY <2>6, Zenon DEF Remaining
    <2> QED
        BY <2>1, <2>2, <2>7 DEF PlainInv
<1>3. CASE symbolize_profile
    BY <1>3 DEF symbolize_profile, PlainInv
<1>4. CASE to_pprof
    <2>1. /\ raw' = raw /\ phase # "raw" /\ phase' # "raw" /\ symbolized' = symbolized
          /\ profile # <<>> /\ profile' = Tail(profile)
        BY <1>4, Zenon DEF to_pprof
    <2>2. Kept' = Kept
        BY <2>1, KeptStays
    <2>3. IncludesLocations(pprof, UserAcc(pprof, Head(profile)), Head(profile).count, pprof')
        BY <1>4, ConvertedKeeps, Zenon
    <2>4. SUFFICES ASSUME ~symbolized
                   PROVE  Plain(pprof') /\ ShowsAll(Kept, pprof') /\ Remaining(Kept, pprof', profile')
        BY <2>1, <2>2 DEF PlainInv
    <2>5. Plain(pprof) /\ ShowsAll(Kept, pprof) /\ Remaining(Kept, pprof, profile) /\ Sound(pprof)
        BY <2>1, <2>4, Zenon DEF PlainInv, PprofInv
    <2>6. Kept \in Seq(RawSample) /\ Len(Kept) \in Nat
        BY KeptFacts, LenProperties DEF PprofInv
    <2> DEFINE n == Len(pprof.samples)
    <2>7. n \in Nat /\ pprof.samples \in Seq(SampleEntry)
        BY <2>5, BuilderLengths DEF Sound, Linked, BuilderType
    <2>8. profile \in Seq(ProcessedType) /\ n + Len(profile) = Len(Kept)
        BY <2>1, Zenon DEF PprofInv, InStep
    <2>9. /\ Head(profile) = profile[1] /\ Len(profile) \in Nat /\ 1 \in 1..Len(profile)
          /\ \A i \in 1..Len(Tail(profile)) : i + 1 \in 1..Len(profile) /\ Tail(profile)[i] = profile[i + 1]
        BY <2>1, <2>8, RestFacts, Zenon
    <2>10. n + 1 \in 1..Len(Kept) /\ Head(profile) = Processed(Kept[n + 1])
        <3>1. n + 1 \in 1..Len(Kept)
            BY <2>6, <2>7, <2>8, <2>9
        <3> QED
            BY <2>5, <2>9, <3>1, Zenon DEF Remaining
    <2>11. Plain(pprof') /\ ShowsAll(Kept, pprof')
        BY <2>3, <2>5, <2>6, <2>10, ShowsAllMore, Zenon
    <2>12. Len(pprof'.samples) = n + 1
        <3>1. PICK new \in SampleEntry : pprof'.samples = Append(pprof.samples, new)
            BY <2>3, Zenon DEF IncludesLocations
        <3>2. OneMore(SampleEntry, pprof.samples, new, pprof'.samples)
            BY <2>7, <3>1, AppendFacts, Zenon
        <3> QED
            BY <3>2, Zenon DEF OneMore
    <2>13. ASSUME NEW i \in 1..Len(Tail(profile))
           PROVE  Tail(profile)[i] = Processed(Kept[Len(pprof'.samples) + i])
        <3>1. i \in Int
            OBVIOUS
        <3>2. i + 1 \in 1..Len(profile) /\ Tail(profile)[i] = profile[i + 1]
            BY <2>9, Zenon
        <3>3. Len(pprof'.samples) + i = n + (i + 1)
            BY <2>7, <2>12, <3>1, OneFurther, Zenon
        <3>4. profile[i + 1] = Processed(Kept[n + (i + 1)])
            BY <2>5, <3>2, Zenon DEF Remaining
        <3> QED
            BY <3>2, <3>3, <3>4, Zenon
    <2>14. Remaining(Kept, pprof', profile')
        BY <2>1, <2>13, Zenon DEF Remaining
    <2> QED
        BY <2>11, <2>14
<1>5. CASE built
    <2>1. /\ raw' = raw /\ phase # "raw" /\ profile' = profile /\ profile = <<>>
          /\ pprof' = build(pprof) /\ symbolized' = symbolized
        BY <1>5 DEF built
    <2>2. Kept' = Kept
        BY <2>1, KeptStays
    <2>3. Linked(pprof)
        BY Zenon DEF PprofInv, Sound
    <2>4. Grown(pprof, pprof') /\ SameTables(pprof, pprof')
        BY <2>1, <2>3, Built, Zenon
    <2>5. pprof'.samples = pprof.samples
        BY <2>4, Zenon DEF Grown
    <2>6. SUFFICES ASSUME ~symbolized
                   PROVE  Plain(pprof') /\ ShowsAll(Kept, pprof') /\ Remaining(Kept, pprof', profile)
        BY <2>1, <2>2 DEF PlainInv
    <2>7. Plain(pprof) /\ ShowsAll(Kept, pprof)
        BY <2>6, Zenon DEF PlainInv
    <2>8. Plain(pprof') /\ ShowsAll(Kept, pprof')
        BY <2>4, <2>5, <2>7, PlainSame, ShowsAllSame, Zenon
    <2>9. Remaining(Kept, pprof', profile)
        BY <2>1 DEF Remaining
    <2> QED
        BY <2>8, <2>9
<1> QED
    BY <1>1, <1>2, <1>3, <1>4, <1>5, Zenon DEF PprofNext

LEMMA PlainInvHolds == PprofSpec => [](PprofInv /\ PlainInv)
<1>1. PprofInit => PprofInv /\ PlainInv
    BY PprofStarts, PlainStarts
<1>2. (PprofInv /\ PlainInv) /\ [PprofNext]_pprofVars => (PprofInv /\ PlainInv)'
    BY PprofKeeps, PlainKeeps
<1> QED
    BY <1>1, <1>2, PTL DEF PprofSpec

\* A reader of locations without lines finds executables and addresses.
LEMMA DecodedIsPlain ==
    ASSUME Sound(pprof), Plain(pprof), NEW i \in 1..Len(pprof.samples)
    PROVE  Decoded(pprof.samples[i]) = [stack |-> DecodedStack(pprof, pprof.samples[i].locations),
                                        count |-> pprof.samples[i].count]
<1> DEFINE locs == pprof.samples[i].locations
<1>1. Within(pprof, locs)
    BY SampleWithin, Zenon
<1>2. DOMAIN locs = 1..Len(locs) /\ \A j \in 1..Len(locs) : locs[j] \in 1..Len(pprof.locations)
    BY <1>1, LenProperties DEF Within
<1>3. \A id \in 1..Len(pprof.locations) : DecodedLocation(pprof.locations[id]) = DecodedPlain(pprof, id)
    BY Zenon DEF DecodedLocation, DecodedPlain, PlainAt, Plain
<1>4. Decoded(pprof.samples[i]) =
        [stack |-> [j \in DOMAIN locs |-> DecodedLocation(pprof.locations[locs[j]])],
         count |-> pprof.samples[i].count]
    BY DEF Decoded, MapFrames
<1> HIDE DEF locs
<1>5. \A j \in DOMAIN locs : DecodedLocation(pprof.locations[locs[j]]) = DecodedPlain(pprof, locs[j])
    BY <1>2, <1>3, Zenon
<1>6. [j \in DOMAIN locs |-> DecodedLocation(pprof.locations[locs[j]])] = DecodedStack(pprof, locs)
    BY <1>5, Zenon DEF DecodedStack
<1> QED
    BY <1>4, <1>6, Zenon DEF locs

LEMMA SampledTyped ==
    ASSUME NEW s \in RawSample
    PROVE  SampledPlain(s) \in Seq(PlainEntry)
<1>1. s.kstack \in Seq(Nat) /\ s.ustack \in Seq(Nat)
    BY DEF RawSample
<1>2. PlainStack(KERNEL_PID, s.kstack) \in Seq(PlainEntry) /\ PlainStack(s.pid, s.ustack) \in Seq(PlainEntry)
    BY <1>1, PlainStackTyped
<1> QED
    BY <1>2, ConcatProperties DEF SampledPlain

\* What was sampled are executables and addresses.
LEMMA SampledIsPlain ==
    ASSUME ~symbolized, NEW s
    PROVE  Sampled(s) = [stack |-> SampledPlain(s), count |-> s.count]
<1>1. \A pid, a : SampledFrames(pid, a) = <<PlainFrame(pid, a)>>
    BY Zenon DEF SampledFrames, PlainFrame, PlainAt
<1> DEFINE frames(pid, stack) ==
        Flatten([i \in DOMAIN Known(pid, stack) |-> SampledFrames(pid, Known(pid, stack)[i])])
<1>2. \A pid, stack : frames(pid, stack) = PlainStack(pid, stack)
    BY <1>1, Zenon DEF PlainStack, PlainFrames
<1>3. Sampled(s) = [stack |-> frames(KERNEL_PID, s.kstack) \o frames(s.pid, s.ustack), count |-> s.count]
    BY DEF Sampled, MapFrames
<1> HIDE DEF frames
<1> QED
    BY <1>2, <1>3, Zenon DEF SampledPlain

\* ReaderSeesSampled for profiles that are not symbolised locally, as those that are sent
\* to a backend: whatever locations and mappings samples share, a reader finds every
\* stack with the addresses in the object files, in order (convert.rs:90-181).
THEOREM ReaderAlwaysSeesSampled == PprofSpec => [](~symbolized => ReaderSeesSampled)
<1>1. ASSUME PprofInv, PlainInv, ~symbolized PROVE ReaderSeesSampled
    <2>1. SUFFICES ASSUME phase = "built"
                   PROVE  ReaderSeesSampled
        BY Zenon DEF ReaderSeesSampled
    <2>2. Sound(pprof) /\ Plain(pprof) /\ ShowsAll(Kept, pprof)
        BY <1>1, Zenon DEF PprofInv, PlainInv
    <2>3. Kept \in Seq(RawSample) /\ Len(Kept) \in Nat /\ DOMAIN Kept = 1..Len(Kept)
        BY <1>1, KeptFacts, LenProperties DEF PprofInv
    <2>4. Len(pprof.samples) \in Nat /\ DOMAIN pprof.samples = 1..Len(pprof.samples)
        BY <2>2, BuilderLengths DEF Sound, Linked
    <2>5. profile = <<>> /\ Len(pprof.samples) + Len(profile) = Len(Kept)
        BY <1>1, <2>1 DEF PprofInv, InStep
    <2>6. DOMAIN pprof.samples = DOMAIN Kept
        BY <2>3, <2>4, <2>5
    <2>7. ASSUME NEW i \in 1..Len(pprof.samples) PROVE Decoded(pprof.samples[i]) = Sampled(Kept[i])
        <3>1. ShowsSample(pprof, pprof.samples[i], Kept[i])
            BY <2>2, Zenon DEF ShowsAll
        <3>2. Decoded(pprof.samples[i]) = [stack |-> DecodedStack(pprof, pprof.samples[i].locations),
                                           count |-> pprof.samples[i].count]
            BY <2>2, DecodedIsPlain, Zenon
        <3>3. Sampled(Kept[i]) = [stack |-> SampledPlain(Kept[i]), count |-> Kept[i].count]
            BY <1>1, SampledIsPlain, Zenon
        <3> QED
            BY <3>1, <3>2, <3>3, Zenon DEF ShowsSample
    <2>8. /\ MapFrames(Decoded, pprof.samples) = [i \in DOMAIN pprof.samples |-> Decoded(pprof.samples[i])]
          /\ MapFrames(Sampled, Kept) = [i \in DOMAIN Kept |-> Sampled(Kept[i])]
        BY Zenon DEF MapFrames
    <2> DEFINE sampled == MapFrames(Sampled, Kept)
               frames == UNION {Elements(sampled[k].stack) : k \in DOMAIN sampled}
    <2>9. MapFrames(Decoded, pprof.samples) = sampled
        BY <2>4, <2>6, <2>7, <2>8, Zenon
    <2>10. ASSUME NEW i \in DOMAIN sampled, NEW j \in DOMAIN sampled[i].stack
           PROVE  ShownFor(sampled[i].stack[j], sampled[i].stack[j], frames)
        <3> DEFINE f == sampled[i].stack[j]
        <3>1. f \in frames
            <4>1. f \in Elements(sampled[i].stack)
                BY <2>10 DEF Elements
            <4> HIDE DEF sampled, f
            <4> QED
                BY <2>10, <4>1, Zenon
        <3>2. f.symbol = NoSymbol
            <4>1. Kept[i] \in RawSample /\ sampled[i] = Sampled(Kept[i])
                BY <2>3, <2>8, <2>10, ElementOfSeq
            <4>2. sampled[i].stack = SampledPlain(Kept[i])
                BY <1>1, <4>1, SampledIsPlain
            <4>3. SampledPlain(Kept[i]) \in Seq(PlainEntry)
                BY <4>1, SampledTyped
            <4>4. f \in PlainEntry
                BY <4>2, <4>3, <2>10, ElementOfSeq, LenProperties
            <4> QED
                BY <4>4 DEF PlainEntry
        <3>3. f.symbol = [f.symbol EXCEPT !.file = f.symbol.file]
            BY <3>2 DEF NoSymbol
        <3> QED
            BY <3>1, <3>3, Zenon DEF ShownFor
    <2>11. validate(pprof)
        BY <2>2, SoundIsValid, Zenon
    <2> HIDE DEF sampled, frames
    <2> QED
        BY <2>9, <2>10, <2>11, Zenon DEF ReaderSeesSampled, sampled, frames
<1> QED
    BY <1>1, PlainInvHolds, PTL
=============================================================================
