-------------------------- MODULE UnwindTableProofs --------------------------
(***************************************************************************)
(* The unwinder's lookup is correct for every table and every page size.   *)
(***************************************************************************)
EXTENDS UnwindTable, TLAPS

\* Division with remainder.
LEMMA Division ==
    ASSUME NEW a \in Int, NEW d \in Int, d > 0
    PROVE  a = d * (a \div d) + (a % d)
BY Z3

\* The high bits of a program counter are a multiple of the page size, at
\* most a page below it (HIGH_PC and LOW_PC, profiler.h:32-33).
LEMMA HighLow ==
    ASSUME NEW a \in Nat
    PROVE  /\ LOW_PC(a) \in Nat
           /\ LOW_PC(a) < UNWIND_INFO_PAGE_SIZE
           /\ HIGH_PC(a) \in Nat
           /\ a = HIGH_PC(a) + LOW_PC(a)
           /\ HIGH_PC(a) = (a \div UNWIND_INFO_PAGE_SIZE) * UNWIND_INFO_PAGE_SIZE
           /\ a \div UNWIND_INFO_PAGE_SIZE \in Nat
<1> DEFINE P == UNWIND_INFO_PAGE_SIZE
           q == a \div P
           r == a % P
<1>1. P \in Nat /\ P > 0
  BY UnwindTableAssumption
<1>2. r \in Nat /\ r < P /\ q \in Nat
  BY <1>1
<1>3. a = P * q + r
  BY <1>1, Division
<1>4. LOW_PC(a) = r /\ HIGH_PC(a) = a - r
  BY DEF LOW_PC, HIGH_PC
<1> HIDE DEF q, r
<1>5. P * q = q * P /\ q * P \in Nat
  BY <1>1, <1>2
<1>6. LOW_PC(a) \in Nat /\ LOW_PC(a) < P /\ HIGH_PC(a) \in Nat /\ a = HIGH_PC(a) + LOW_PC(a)
      /\ HIGH_PC(a) = q * P
  BY <1>1, <1>2, <1>3, <1>4, <1>5
<1> QED
  BY <1>2, <1>6 DEF q

\* Taking the high bits keeps the order of program counters.
LEMMA HighMonotone ==
    ASSUME NEW a \in Nat, NEW b \in Nat, a <= b
    PROVE  HIGH_PC(a) <= HIGH_PC(b)
<1> DEFINE P == UNWIND_INFO_PAGE_SIZE
           qa == a \div P
           qb == b \div P
<1>1. P \in Nat \ {0}
  BY UnwindTableAssumption
<1>2. /\ qa \in Nat /\ qb \in Nat
      /\ HIGH_PC(a) = qa * P /\ HIGH_PC(b) = qb * P
      /\ a = HIGH_PC(a) + LOW_PC(a) /\ b = HIGH_PC(b) + LOW_PC(b)
      /\ LOW_PC(a) \in Nat /\ LOW_PC(b) \in Nat /\ LOW_PC(b) < P
  BY HighLow
<1> HIDE DEF qa, qb, P
<1>3. SUFFICES ASSUME qa >= qb + 1 PROVE FALSE
  <2>1. CASE qa <= qb
    <3>1. PICK d \in Nat : qb = qa + d
      BY <1>2, <2>1
    <3>2. qb * P = qa * P + d * P /\ d * P >= 0 /\ qa * P \in Nat
      BY <3>1, <1>1, <1>2
    <3> QED
      BY <3>2, <1>1, <1>2
  <2> QED
    BY <2>1, <1>2
<1>4. PICK d \in Nat : qa = qb + 1 + d
  BY <1>2, <1>3
<1>5. qa * P = qb * P + P + d * P /\ d * P >= 0 /\ d * P \in Nat
  BY <1>1, <1>2, <1>4
<1> QED
  BY <1>1, <1>2, <1>5

-----------------------------------------------------------------------------
\* What the proofs use of a table: its program counters and their high bits
\* are naturals and increase with the row.
LEMMA TableFacts ==
    ASSUME IsTable(table)
    PROVE  /\ Size \in Nat /\ Size > 0
           /\ DOMAIN table = 0..Size - 1
           /\ \A k \in 0..Size - 1 : table[k] \in Nat /\ HIGH_PC(table[k]) \in Nat
           /\ \A j, k \in 0..Size - 1 : j <= k => HIGH_PC(table[j]) <= HIGH_PC(table[k])
           /\ \A j, k \in 0..Size - 1 : j < k => table[j] < table[k]
<1>1. /\ Size \in Nat /\ Size > 0
      /\ table \in [0..Size - 1 -> Nat]
      /\ DOMAIN table = 0..Size - 1
      /\ \A j, k \in 0..Size - 1 : j < k => table[j] < table[k]
  BY DEF IsTable, Size
<1>2. \A k \in 0..Size - 1 : table[k] \in Nat /\ HIGH_PC(table[k]) \in Nat
  BY <1>1, HighLow, Zenon
<1>3. ASSUME NEW j \in 0..Size - 1, NEW k \in 0..Size - 1, j <= k
      PROVE  HIGH_PC(table[j]) <= HIGH_PC(table[k])
  <2>1. table[j] <= table[k]
    <3>1. CASE j = k
      BY <1>2, <3>1
    <3>2. CASE j < k
      BY <1>1, <1>2, <3>2
    <3> QED
      BY <1>3, <3>1, <3>2
  <2> QED
    BY <1>2, <2>1, HighMonotone
<1> QED
  BY <1>1, <1>2, <1>3

\* The rows of a page share their high bits, which those before it are below;
\* the page's address lies between them and those after it.
PageSound(p) ==
    /\ p \in [address : Nat, low_index : Nat, high_index : Nat]
    /\ p.low_index < p.high_index /\ p.high_index <= Size
    /\ \A k \in p.low_index..p.high_index - 1 : HIGH_PC(table[k]) = HIGH_PC(table[p.low_index])
    /\ HIGH_PC(table[p.low_index]) <= p.address
    /\ \A k \in 0..p.low_index - 1 : HIGH_PC(table[k]) < HIGH_PC(table[p.low_index])
    /\ \A k \in p.high_index..Size - 1 : p.address < HIGH_PC(table[k])

\* The page to_pages is collecting: rows prev_index up to i.
PagingInv ==
    /\ i = 0 => prev_high_pc = None /\ prev_index = 0
    /\ i > 0 => /\ prev_high_pc \in Nat
                /\ prev_index < i
                /\ \A k \in prev_index..i - 1 : HIGH_PC(table[k]) = prev_high_pc
                /\ \A k \in 0..prev_index - 1 : HIGH_PC(table[k]) < prev_high_pc

\* The first n rows have a page.
Indexed(n) == \A k \in 0..n - 1 : \E p \in pages : p.address = HIGH_PC(table[k])

IndexInv ==
    /\ phase = "paging" => Indexed(prev_index)
    /\ phase \in {"ready", "search", "found"} => Indexed(Size)

\* The search: rows of the page below `left` are at or below the program
\* counter, those from `right` are above it, and `found` is the row before
\* `left`.
SearchInv ==
    phase = "search" =>
        /\ \E p \in pages : p.address = HIGH_PC(pc) /\ p.low_index = low_index /\ p.high_index = high_index
        /\ low_index <= left /\ left <= right /\ right <= high_index
        /\ left = low_index => found = BINARY_SEARCH_DEFAULT
        /\ left # low_index => found = left - 1
        /\ PageHasRows => /\ \A k \in low_index..left - 1 : LOW_PC(table[k]) <= LOW_PC(pc)
                          /\ \A k \in right..high_index - 1 : LOW_PC(pc) < LOW_PC(table[k])

LookupInv ==
    /\ TypeOK
    /\ \A p \in pages : PageSound(p)
    /\ PagingInv
    /\ IndexInv
    /\ SearchInv
    /\ LookupCorrect

LEMMA UnindexedInit ==
    ASSUME IsTable(table), IndexInit
    PROVE  LookupInv
<1>1. Size \in Nat /\ Size > 0
  BY TableFacts
<1> QED
  BY <1>1, UnwindTableAssumption
  DEF IndexInit, LookupInv, TypeOK, PagingInv, IndexInv, Indexed, SearchInv, LookupCorrect, None,
      BINARY_SEARCH_DEFAULT, PageNotFound

LEMMA LookupInit == Init => LookupInv
BY UnwindTableAssumption, UnindexedInit DEF Init

\* The pages that to_pages adds when the high bits change, those that fill a
\* gap included, are sound, and one is for the rows before (pages.rs:46-70).
LEMMA NewPagesSound ==
    ASSUME LookupInv, phase = "paging", i < Size,
           prev_high_pc # None, prev_high_pc # HIGH_PC(table[i])
    PROVE  /\ \A p \in PagesUpTo(HIGH_PC(table[i])) : PageSound(p)
           /\ \E p \in PagesUpTo(HIGH_PC(table[i])) : p.address = prev_high_pc
<1> DEFINE high == HIGH_PC(table[i])
<1>1. /\ IsTable(table) /\ i \in 0..Size - 1 /\ Size \in Nat /\ high \in Nat
      /\ \A j, k \in 0..Size - 1 : j <= k => HIGH_PC(table[j]) <= HIGH_PC(table[k])
      /\ \A k \in 0..Size - 1 : HIGH_PC(table[k]) \in Nat
  BY TableFacts DEF LookupInv, TypeOK
<1>2. /\ i > 0 /\ prev_high_pc \in Nat
      /\ prev_index \in Nat /\ prev_index < i
      /\ \A k \in prev_index..i - 1 : HIGH_PC(table[k]) = prev_high_pc
      /\ \A k \in 0..prev_index - 1 : HIGH_PC(table[k]) < prev_high_pc
  BY <1>1 DEF LookupInv, TypeOK, PagingInv
<1>3. prev_high_pc < high
  <2>1. HIGH_PC(table[i - 1]) = prev_high_pc /\ HIGH_PC(table[i - 1]) <= high
    BY <1>1, <1>2
  <2> QED
    BY <1>1, <1>2, <2>1
<1>4. ASSUME NEW a \in Nat, prev_high_pc <= a, a < high
      PROVE  PageSound(Page(a, prev_index, i))
  <2>1. HIGH_PC(table[prev_index]) = prev_high_pc
    BY <1>1, <1>2
  <2>2. \A k \in i..Size - 1 : a < HIGH_PC(table[k])
    BY <1>1, <1>4
  <2> QED
    BY <1>1, <1>2, <1>4, <2>1, <2>2 DEF PageSound, Page
<1>5. UNWIND_INFO_PAGE_SIZE \in Nat /\ UNWIND_INFO_PAGE_SIZE > 0
  BY UnwindTableAssumption
<1>6. CASE prev_high_pc + UNWIND_INFO_PAGE_SIZE < high
  <2>1. PagesUpTo(high) = {Page(a, prev_index, i) : a \in PageSteps(prev_high_pc, high)}
    BY <1>6 DEF PagesUpTo
  <2>2. \A a \in PageSteps(prev_high_pc, high) : a \in Nat /\ prev_high_pc <= a /\ a < high
    BY <1>1, <1>2 DEF PageSteps
  <2>3. prev_high_pc \in PageSteps(prev_high_pc, high)
    <3>1. (prev_high_pc - prev_high_pc) % UNWIND_INFO_PAGE_SIZE = 0
      BY <1>2, <1>5
    <3> QED
      BY <1>1, <1>2, <1>3, <3>1 DEF PageSteps
  <2>4. \A p \in PagesUpTo(high) : PageSound(p)
    BY <1>4, <2>1, <2>2
  <2>5. Page(prev_high_pc, prev_index, i) \in PagesUpTo(high)
    BY <2>1, <2>3
  <2>6. Page(prev_high_pc, prev_index, i).address = prev_high_pc
    BY DEF Page
  <2> QED
    BY <2>4, <2>5, <2>6
<1>7. CASE ~(prev_high_pc + UNWIND_INFO_PAGE_SIZE < high)
  <2>1. PagesUpTo(high) = {Page(prev_high_pc, prev_index, i)}
    BY <1>7 DEF PagesUpTo
  <2> QED
    BY <1>2, <1>3, <1>4, <2>1 DEF Page
<1> QED
  BY <1>6, <1>7

\* The search by low bits compares whole program counters when the page has
\* rows of its own: all rows of the page then have the high bits of pc.
LEMMA PageRowsCompare ==
    ASSUME IsTable(table), pc \in Nat, PageHasRows,
           NEW p, PageSound(p), p.address = HIGH_PC(pc)
    PROVE  /\ \A k \in p.low_index..p.high_index - 1 :
                 /\ HIGH_PC(table[k]) = HIGH_PC(pc)
                 /\ LOW_PC(table[k]) <= LOW_PC(pc) <=> table[k] <= pc
           /\ \A j, k \in p.low_index..p.high_index - 1 :
                 j <= k => LOW_PC(table[j]) <= LOW_PC(table[k])
           /\ \A k \in 0..p.low_index - 1 : table[k] < pc
           /\ \A k \in p.high_index..Size - 1 : pc < table[k]
<1>1. /\ Size \in Nat /\ DOMAIN table = 0..Size - 1
      /\ \A k \in 0..Size - 1 : table[k] \in Nat /\ HIGH_PC(table[k]) \in Nat
      /\ \A j, k \in 0..Size - 1 : j < k => table[j] < table[k]
  BY TableFacts
<1>2. /\ p.low_index \in Nat /\ p.high_index \in Nat /\ p.address \in Nat
      /\ p.low_index < p.high_index /\ p.high_index <= Size
  BY DEF PageSound
<1>3. HIGH_PC(table[p.low_index]) = HIGH_PC(pc)
  <2>1. PICK k \in 0..Size - 1 : HIGH_PC(table[k]) = HIGH_PC(pc)
    BY <1>1 DEF PageHasRows
  <2>a. p.low_index \in 0..Size - 1
    BY <1>1, <1>2
  <2>b. /\ HIGH_PC(table[p.low_index]) \in Nat /\ HIGH_PC(table[k]) \in Nat
        /\ HIGH_PC(table[p.low_index]) <= HIGH_PC(table[k])
    BY <1>1, <2>1, <2>a DEF PageSound
  <2>2. ~(k \in p.high_index..Size - 1)
    <3>1. ASSUME k \in p.high_index..Size - 1 PROVE p.address < HIGH_PC(table[k])
      BY <3>1 DEF PageSound
    <3> QED
      BY <2>1, <2>b, <3>1
  <2>3. ~(k \in 0..p.low_index - 1)
    <3>1. ASSUME k \in 0..p.low_index - 1 PROVE HIGH_PC(table[k]) < HIGH_PC(table[p.low_index])
      BY <3>1 DEF PageSound
    <3> QED
      BY <2>b, <3>1
  <2>4. k \in p.low_index..p.high_index - 1
    <3>1. Size \in Nat
      BY <1>1
    <3> QED
      BY <1>2, <2>2, <2>3, <3>1
  <2> QED
    BY <2>1, <2>4 DEF PageSound
<1>4. \A k \in p.low_index..p.high_index - 1 : k \in 0..Size - 1 /\ HIGH_PC(table[k]) = HIGH_PC(pc)
  <2> SUFFICES ASSUME NEW k \in p.low_index..p.high_index - 1
               PROVE  k \in 0..Size - 1 /\ HIGH_PC(table[k]) = HIGH_PC(pc)
    OBVIOUS
  <2>1. Size \in Nat
    BY <1>1
  <2>2. k \in 0..Size - 1
    BY <1>2, <2>1
  <2>3. HIGH_PC(table[k]) = HIGH_PC(table[p.low_index])
    BY Zenon DEF PageSound
  <2> QED
    BY <1>3, <2>2, <2>3
<1>5. \A a \in Nat : /\ LOW_PC(a) \in Nat /\ HIGH_PC(a) \in Nat
                      /\ a = HIGH_PC(a) + LOW_PC(a)
  BY HighLow
<1>a. \A k \in p.low_index..p.high_index - 1 :
        /\ LOW_PC(table[k]) \in Nat /\ table[k] \in Nat
        /\ table[k] = HIGH_PC(pc) + LOW_PC(table[k])
  BY <1>1, <1>4, <1>5, Zenon
<1>b. LOW_PC(pc) \in Nat /\ HIGH_PC(pc) \in Nat /\ pc = HIGH_PC(pc) + LOW_PC(pc)
  BY <1>5
<1>6. ASSUME NEW k \in p.low_index..p.high_index - 1
      PROVE  LOW_PC(table[k]) <= LOW_PC(pc) <=> table[k] <= pc
  BY <1>a, <1>b
<1>7. ASSUME NEW j \in p.low_index..p.high_index - 1, NEW k \in p.low_index..p.high_index - 1, j <= k
      PROVE  LOW_PC(table[j]) <= LOW_PC(table[k])
  <2>1. CASE j = k
    BY <1>a, <2>1
  <2>2. CASE j < k
    <3>1. table[j] < table[k]
      BY <1>1, <1>4, <2>2
    <3> QED
      BY <1>a, <1>b, <3>1
  <2> QED
    BY <1>2, <1>7, <2>1, <2>2
<1>8. ASSUME NEW k \in 0..p.low_index - 1 PROVE table[k] < pc
  <2>1. k \in 0..Size - 1 /\ HIGH_PC(table[k]) < HIGH_PC(pc)
    BY <1>1, <1>2, <1>3 DEF PageSound
  <2>2. table[k] \in Nat /\ HIGH_PC(table[k]) \in Nat
    BY <1>1, <2>1
  <2>3. pc <= table[k] => HIGH_PC(pc) <= HIGH_PC(table[k])
    BY <2>2, HighMonotone
  <2> QED
    BY <1>b, <2>1, <2>2, <2>3
<1>9. ASSUME NEW k \in p.high_index..Size - 1 PROVE pc < table[k]
  <2>1. k \in 0..Size - 1 /\ HIGH_PC(pc) < HIGH_PC(table[k])
    BY <1>1, <1>2 DEF PageSound
  <2>2. table[k] \in Nat /\ HIGH_PC(table[k]) \in Nat
    BY <1>1, <2>1
  <2>3. table[k] <= pc => HIGH_PC(table[k]) <= HIGH_PC(pc)
    BY <2>2, HighMonotone
  <2> QED
    BY <1>b, <2>1, <2>2, <2>3
<1> QED
  BY <1>4, <1>6, <1>7, <1>8, <1>9

-----------------------------------------------------------------------------
\* Every step keeps the invariant: building the index...
LEMMA PagingNext ==
    LookupInv /\ (to_pages_row \/ to_pages_last \/ load_again) => LookupInv'
<1> SUFFICES ASSUME LookupInv, to_pages_row \/ to_pages_last \/ load_again
             PROVE  LookupInv'
  OBVIOUS
<1> USE DEF pagingVars, searchVars
<1>1. /\ IsTable(table) /\ Size \in Nat /\ Size > 0
      /\ \A k \in 0..Size - 1 : HIGH_PC(table[k]) \in Nat
      /\ \A j, k \in 0..Size - 1 : j <= k => HIGH_PC(table[j]) <= HIGH_PC(table[k])
  BY TableFacts DEF LookupInv, TypeOK
<1>2. table' = table /\ Size' = Size
  BY DEF to_pages_row, to_pages_last, load_again, Size
<1>3. \A p : PageSound(p)' <=> PageSound(p)
  BY <1>2 DEF PageSound
<1>4. /\ i \in 0..Size /\ prev_index \in 0..Size
      /\ pages \subseteq [address : Nat, low_index : Nat, high_index : Nat]
      /\ PagingInv /\ \A p \in pages : PageSound(p)
  BY DEF LookupInv, TypeOK
<1>5. CASE to_pages_row
  <2> DEFINE high == HIGH_PC(table[i])
  <2>1. /\ i < Size /\ i' = i + 1 /\ prev_high_pc' = high /\ phase = "paging" /\ phase' = "paging"
        /\ i \in 0..Size - 1 /\ high \in Nat
    BY <1>1, <1>4, <1>5 DEF to_pages_row
  <2>2. CASE prev_high_pc \in {None, high}
    <3>1. pages' = pages /\ prev_index' = prev_index
      BY <1>5, <2>2 DEF to_pages_row
    <3>2. PagingInv'
      <4>1. CASE i = 0
        <5>1. prev_index = 0 /\ i' = 1 /\ HIGH_PC(table[0]) = high
          BY <1>4, <2>1, <4>1 DEF PagingInv
        <5> QED
          BY <1>2, <2>1, <3>1, <5>1 DEF PagingInv
      <4>2. CASE i > 0
        <5>1. prev_high_pc = high
          BY <1>4, <2>2, <4>2 DEF PagingInv, None
        <5> QED
          BY <1>2, <1>4, <2>1, <3>1, <4>2, <5>1 DEF PagingInv
      <4> QED
        BY <1>4, <4>1, <4>2
    <3>3. TypeOK'
      <4>1. i' \in 0..Size /\ prev_high_pc' \in Nat
        BY <1>1, <1>4, <2>1
      <4>2. UNCHANGED <<pc, searchVars, table_idx>>
        BY <1>5 DEF to_pages_row
      <4> QED
        BY <1>2, <2>1, <3>1, <4>1, <4>2 DEF LookupInv, TypeOK
    <3>4. IndexInv' /\ SearchInv' /\ LookupCorrect'
      BY <1>2, <2>1, <3>1 DEF LookupInv, IndexInv, Indexed, SearchInv, LookupCorrect
    <3> QED
      BY <1>3, <1>4, <3>1, <3>2, <3>3, <3>4 DEF LookupInv
  <2>3. CASE prev_high_pc \notin {None, high}
    <3>1. pages' = pages \cup PagesUpTo(high) /\ prev_index' = i
      BY <1>5, <2>3 DEF to_pages_row
    <3>2. /\ \A p \in PagesUpTo(high) : PageSound(p)
          /\ \E p \in PagesUpTo(high) : p.address = prev_high_pc
      BY <2>1, <2>3, NewPagesSound
    <3>3. /\ i > 0 /\ prev_index < i /\ prev_high_pc \in Nat
          /\ \A k \in prev_index..i - 1 : HIGH_PC(table[k]) = prev_high_pc
          /\ \A k \in 0..prev_index - 1 : HIGH_PC(table[k]) < prev_high_pc
      BY <1>4, <2>3 DEF PagingInv
    <3>4. prev_high_pc < high
      <4>1. HIGH_PC(table[i - 1]) = prev_high_pc /\ HIGH_PC(table[i - 1]) <= high
        BY <1>1, <2>1, <1>4, <3>3
      <4> QED
        BY <2>1, <2>3, <3>3, <4>1
    <3>5. PagingInv'
      <4>1. \A k \in 0..i - 1 : HIGH_PC(table[k]) < high
        <5> TAKE k \in 0..i - 1
        <5>1. HIGH_PC(table[k]) \in Nat /\ HIGH_PC(table[k]) <= prev_high_pc
          BY <1>1, <1>4, <2>1, <3>3
        <5> QED
          BY <2>1, <3>3, <3>4, <5>1
      <4>2. \A k \in i..i : HIGH_PC(table[k]) = high
        BY <2>1
      <4> QED
        BY <1>2, <1>4, <2>1, <3>1, <4>1, <4>2 DEF PagingInv
    <3>6. \A p \in pages' : PageSound(p)'
      BY <1>3, <1>4, <3>1, <3>2
    <3>7. TypeOK'
      <4>1. pages' \subseteq [address : Nat, low_index : Nat, high_index : Nat]
        BY <1>3, <3>6 DEF PageSound
      <4>2. i' \in 0..Size /\ prev_index' \in 0..Size /\ prev_high_pc' \in Nat
        BY <1>1, <1>4, <2>1, <3>1
      <4>3. UNCHANGED <<pc, searchVars, table_idx>>
        BY <1>5 DEF to_pages_row
      <4> QED
        BY <1>2, <2>1, <3>1, <4>1, <4>2, <4>3 DEF LookupInv, TypeOK
    <3>8. IndexInv'
      <4>1. ASSUME NEW k \in 0..i - 1
            PROVE  \E p \in pages' : p.address = HIGH_PC(table[k])
        <5>1. CASE k < prev_index
          BY <1>4, <2>1, <3>1, <5>1 DEF LookupInv, IndexInv, Indexed
        <5>2. CASE k >= prev_index
          BY <1>4, <3>1, <3>2, <3>3, <5>2
        <5> QED
          BY <1>4, <5>1, <5>2
      <4> QED
        BY <1>2, <2>1, <3>1, <4>1 DEF IndexInv, Indexed
    <3>9. SearchInv' /\ LookupCorrect'
      BY <2>1 DEF SearchInv, LookupCorrect
    <3> QED
      BY <3>5, <3>6, <3>7, <3>8, <3>9 DEF LookupInv
  <2> QED
    BY <2>2, <2>3
<1>6. CASE to_pages_last
  <2> DEFINE last == Page(prev_high_pc, prev_index, Size)
  <2>1. /\ i = Size /\ phase = "paging" /\ phase' = "ready"
        /\ pages' = pages \cup {last}
        /\ UNCHANGED <<i, prev_high_pc, prev_index>>
    BY <1>6 DEF to_pages_last
  <2>2. /\ prev_index < i /\ prev_high_pc \in Nat
        /\ \A k \in prev_index..i - 1 : HIGH_PC(table[k]) = prev_high_pc
        /\ \A k \in 0..prev_index - 1 : HIGH_PC(table[k]) < prev_high_pc
    BY <1>1, <1>4, <2>1 DEF PagingInv
  <2>3. PageSound(last) /\ last.address = prev_high_pc
    <3>1. HIGH_PC(table[prev_index]) = prev_high_pc
      BY <1>4, <2>1, <2>2
    <3> QED
      BY <1>1, <1>4, <2>1, <2>2, <3>1 DEF PageSound, Page
  <2>4. \A p \in pages' : PageSound(p)'
    BY <1>3, <1>4, <2>1, <2>3
  <2>5. TypeOK'
    <3>1. pages' \subseteq [address : Nat, low_index : Nat, high_index : Nat]
      BY <1>3, <2>4 DEF PageSound
    <3> QED
      BY <1>2, <1>6, <2>1, <3>1 DEF LookupInv, TypeOK, to_pages_last
  <2>6. PagingInv'
    BY <1>2, <1>4, <2>1 DEF PagingInv
  <2>7. IndexInv'
    <3>1. ASSUME NEW k \in 0..Size - 1
          PROVE  \E p \in pages' : p.address = HIGH_PC(table[k])
      <4>1. CASE k < prev_index
        BY <1>4, <2>1, <4>1 DEF LookupInv, IndexInv, Indexed
      <4>2. CASE k >= prev_index
        BY <1>1, <1>4, <2>1, <2>2, <2>3, <4>2
      <4> QED
        BY <1>1, <1>4, <4>1, <4>2
    <3> QED
      BY <1>2, <2>1, <3>1 DEF IndexInv, Indexed
  <2>8. SearchInv' /\ LookupCorrect'
    BY <2>1 DEF SearchInv, LookupCorrect
  <2> QED
    BY <2>4, <2>5, <2>6, <2>7, <2>8 DEF LookupInv
<1>7. CASE load_again
  <2>1. pages' = pages /\ i' = 0 /\ prev_high_pc' = None /\ prev_index' = 0 /\ phase' = "paging"
    BY <1>7 DEF load_again
  <2>2. TypeOK'
    BY <1>1, <1>2, <1>7, <2>1 DEF LookupInv, TypeOK, load_again
  <2>3. PagingInv' /\ IndexInv' /\ SearchInv' /\ LookupCorrect'
    BY <2>1 DEF PagingInv, IndexInv, Indexed, SearchInv, LookupCorrect
  <2> QED
    BY <1>3, <1>4, <2>1, <2>2, <2>3 DEF LookupInv
<1> QED
  BY <1>5, <1>6, <1>7

\* ... looking a program counter up ...
LEMMA SearchNext ==
    LookupInv /\ ((\E a \in 0..MAX_PC : find_page(a)) \/ Narrow \/ Exhausted \/ SearchDone) => LookupInv'
<1> SUFFICES ASSUME LookupInv,
                    (\E a \in 0..MAX_PC : find_page(a)) \/ Narrow \/ Exhausted \/ SearchDone
             PROVE  LookupInv'
  OBVIOUS
<1> USE DEF pagingVars, searchVars
<1>1. /\ IsTable(table) /\ Size \in Nat /\ Size > 0 /\ DOMAIN table = 0..Size - 1
      /\ \A k \in 0..Size - 1 : table[k] \in Nat
  BY TableFacts DEF LookupInv, TypeOK
<1>2. /\ UNCHANGED <<table, pages, i, prev_high_pc, prev_index>>
      /\ Size' = Size
  BY DEF find_page, Narrow, Exhausted, SearchDone, Size
<1>3. (\A p \in pages' : PageSound(p)') /\ PagingInv'
  BY <1>2 DEF LookupInv, PageSound, PagingInv
<1>4. IndexInv'
  BY <1>2 DEF LookupInv, IndexInv, Indexed, find_page, Narrow, Exhausted, SearchDone
<1>5. MAX_PC \in Nat /\ MAX_BINARY_SEARCH_DEPTH \in Nat
  BY UnwindTableAssumption
<1>6. ASSUME NEW a \in 0..MAX_PC, find_page(a)
      PROVE  TypeOK' /\ SearchInv' /\ LookupCorrect'
  <2>1. pc' = a /\ phase = "ready"
    BY <1>6 DEF find_page
  <2>2. CASE phase' = "search"
    <3>1. PICK p \in pages :
            /\ p.address = HIGH_PC(a)
            /\ low_index' = p.low_index /\ high_index' = p.high_index
            /\ left' = p.low_index /\ right' = p.high_index
            /\ found' = BINARY_SEARCH_DEFAULT
            /\ depth' = 0
            /\ UNCHANGED table_idx
      BY <1>6, <2>2 DEF find_page
    <3>2. PageSound(p)
      BY DEF LookupInv
    <3>3. p.low_index \in Nat /\ p.high_index \in Nat /\ p.low_index < p.high_index /\ p.high_index <= Size
      BY <3>2 DEF PageSound
    <3>4. TypeOK'
      BY <1>1, <1>2, <1>5, <2>1, <2>2, <3>1, <3>3 DEF LookupInv, TypeOK
    <3>5. SearchInv'
      BY <1>2, <2>1, <3>1, <3>3 DEF SearchInv
    <3>6. LookupCorrect'
      BY <2>2 DEF LookupCorrect
    <3> QED
      BY <3>4, <3>5, <3>6
  <2>3. CASE phase' = "found"
    <3>1. (\A p \in pages : p.address # HIGH_PC(a)) /\ table_idx' = PageNotFound /\ UNCHANGED searchVars
      BY <1>6, <2>3 DEF find_page
    <3>2. TypeOK'
      BY <1>2, <2>1, <2>3, <3>1 DEF LookupInv, TypeOK
    <3>3. ~PageHasRows'
      <4>1. \A k \in 0..Size - 1 : \E p \in pages : p.address = HIGH_PC(table[k])
        BY <2>1 DEF LookupInv, IndexInv, Indexed
      <4> QED
        BY <1>1, <1>2, <2>1, <3>1, <4>1 DEF PageHasRows
    <3> QED
      BY <2>3, <3>2, <3>3 DEF SearchInv, LookupCorrect
  <2> QED
    BY <1>6, <2>2, <2>3 DEF find_page
<1>7. ASSUME Narrow \/ Exhausted \/ SearchDone
      PROVE  TypeOK' /\ SearchInv' /\ LookupCorrect'
  <2>1. PICK p \in pages : p.address = HIGH_PC(pc) /\ p.low_index = low_index /\ p.high_index = high_index
    BY <1>7 DEF LookupInv, SearchInv, Narrow, Exhausted, SearchDone
  <2>a. PageSound(p) /\ phase = "search"
    BY <1>7 DEF LookupInv, Narrow, Exhausted, SearchDone
  <2>b. low_index \in Nat /\ high_index \in Nat /\ low_index < high_index /\ high_index <= Size
    BY <2>1, <2>a DEF PageSound
  <2>c. pc \in Nat /\ left \in Nat /\ right \in Nat /\ depth \in 0..MAX_BINARY_SEARCH_DEPTH
    BY <1>1, <1>5 DEF LookupInv, TypeOK
  <2>d. /\ low_index <= left /\ left <= right /\ right <= high_index
        /\ left = low_index => found = BINARY_SEARCH_DEFAULT
        /\ left # low_index => found = left - 1
    BY <2>a DEF LookupInv, SearchInv
  <2>2. /\ PageSound(p) /\ pc \in Nat /\ phase = "search"
        /\ low_index \in Nat /\ high_index \in Nat /\ left \in Nat /\ right \in Nat
        /\ low_index < high_index /\ high_index <= Size
        /\ low_index <= left /\ left <= right /\ right <= high_index
        /\ left = low_index => found = BINARY_SEARCH_DEFAULT
        /\ left # low_index => found = left - 1
        /\ depth \in 0..MAX_BINARY_SEARCH_DEPTH
    BY <2>a, <2>b, <2>c, <2>d
  <2>3. ASSUME PageHasRows
        PROVE  /\ \A k \in low_index..high_index - 1 : LOW_PC(table[k]) <= LOW_PC(pc) <=> table[k] <= pc
               /\ \A j, k \in low_index..high_index - 1 : j <= k => LOW_PC(table[j]) <= LOW_PC(table[k])
               /\ \A k \in 0..low_index - 1 : table[k] < pc
               /\ \A k \in high_index..Size - 1 : pc < table[k]
               /\ \A k \in low_index..left - 1 : LOW_PC(table[k]) <= LOW_PC(pc)
               /\ \A k \in right..high_index - 1 : LOW_PC(pc) < LOW_PC(table[k])
    BY <1>1, <2>1, <2>2, <2>3, PageRowsCompare, Zenon DEF LookupInv, SearchInv
  <2>4. \A k \in 0..Size - 1 : LOW_PC(table[k]) \in Nat
    BY <1>1, HighLow, Zenon
  <2>5. LOW_PC(pc) \in Nat
    BY <2>2, HighLow
  <2>6. CASE Narrow
    <3> DEFINE mid == (left + right) \div 2
    <3>1. mid \in Nat /\ left <= mid /\ mid < right /\ left < right
      BY <2>2, <2>6 DEF Narrow
    <3> HIDE DEF mid
    <3>2. /\ UNCHANGED <<pc, low_index, high_index, table_idx, phase>>
          /\ depth' = depth + 1 /\ depth < MAX_BINARY_SEARCH_DEPTH
      BY <2>6 DEF Narrow
    <3>3. PageHasRows' <=> PageHasRows
      BY <1>2, <3>2 DEF PageHasRows
    <3>4. CASE RowAtOrBelow(mid)
      <4>1. found' = mid /\ left' = mid + 1 /\ right' = right
        BY <2>6, <3>4 DEF Narrow, AfterRow, mid
      <4>2. ASSUME PageHasRows, NEW k \in low_index..mid PROVE LOW_PC(table[k]) <= LOW_PC(pc)
        <5>1. LOW_PC(table[k]) <= LOW_PC(table[mid]) /\ LOW_PC(table[mid]) <= LOW_PC(pc)
          BY <2>2, <2>3, <3>1, <3>4, <4>2 DEF RowAtOrBelow
        <5>2. k \in 0..Size - 1 /\ mid \in 0..Size - 1
          BY <1>1, <2>2, <3>1
        <5> QED
          BY <2>4, <2>5, <5>1, <5>2
      <4>3. TypeOK'
        <5>1. left' \in 0..Size /\ right' \in 0..Size
          BY <1>1, <2>2, <3>1, <4>1
        <5>2. found' \in 0..Size - 1 \cup {BINARY_SEARCH_DEFAULT}
          BY <1>1, <2>2, <3>1, <4>1
        <5>3. depth' \in 0..MAX_BINARY_SEARCH_DEPTH
          BY <1>5, <2>2, <3>2
        <5> QED
          BY <1>2, <3>2, <5>1, <5>2, <5>3 DEF LookupInv, TypeOK
      <4>4. SearchInv'
        BY <1>2, <2>1, <2>2, <2>3, <3>1, <3>2, <3>3, <4>1, <4>2 DEF SearchInv
      <4> QED
        BY <2>2, <3>2, <4>3, <4>4 DEF LookupCorrect
    <3>5. CASE ~RowAtOrBelow(mid)
      <4>1. found' = found /\ left' = left /\ right' = mid
        BY <2>6, <3>5 DEF Narrow, mid
      <4>2. ASSUME PageHasRows, NEW k \in mid..high_index - 1 PROVE LOW_PC(pc) < LOW_PC(table[k])
        <5>1. LOW_PC(table[mid]) <= LOW_PC(table[k]) /\ ~(LOW_PC(table[mid]) <= LOW_PC(pc))
          BY <2>2, <2>3, <3>1, <3>5, <4>2 DEF RowAtOrBelow
        <5>2. k \in 0..Size - 1 /\ mid \in 0..Size - 1
          BY <1>1, <2>2, <3>1
        <5> QED
          BY <2>4, <2>5, <5>1, <5>2
      <4>3. TypeOK'
        <5>1. left' \in 0..Size /\ right' \in 0..Size
          BY <1>1, <2>2, <3>1, <4>1
        <5>2. found' \in 0..Size - 1 \cup {BINARY_SEARCH_DEFAULT}
          BY <4>1 DEF LookupInv, TypeOK
        <5>3. depth' \in 0..MAX_BINARY_SEARCH_DEPTH
          BY <1>5, <2>2, <3>2
        <5> QED
          BY <1>2, <3>2, <5>1, <5>2, <5>3 DEF LookupInv, TypeOK
      <4>4. SearchInv'
        BY <1>2, <2>1, <2>2, <2>3, <3>1, <3>2, <3>3, <4>1, <4>2 DEF SearchInv
      <4> QED
        BY <2>2, <3>2, <4>3, <4>4 DEF LookupCorrect
    <3> QED
      BY <3>4, <3>5
  <2>7. CASE Exhausted
    <3>1. TypeOK'
      BY <1>2, <2>7 DEF LookupInv, TypeOK, Exhausted
    <3> QED
      BY <2>7, <3>1 DEF SearchInv, LookupCorrect, Exhausted
  <2>8. CASE SearchDone
    <3>1. /\ left = right /\ phase' = "found"
          /\ UNCHANGED <<pc, low_index, high_index, left, right, found, depth>>
          /\ table_idx' = IF found = BINARY_SEARCH_DEFAULT THEN PreviousRow ELSE found
      BY <2>2, <2>8 DEF SearchDone
    <3>2. CASE left # low_index
      <4>1. table_idx' = left - 1 /\ left - 1 \in 0..Size - 1
        BY <1>1, <2>2, <3>1, <3>2 DEF BINARY_SEARCH_DEFAULT
      <4>2. TypeOK'
        BY <1>2, <3>1, <4>1 DEF LookupInv, TypeOK
      <4>3. ASSUME PageHasRows PROVE Covers(left - 1)
        <5>1. table[left - 1] <= pc
          BY <2>2, <2>3, <3>2, <4>3
        <5>2. ASSUME NEW k \in 0..Size - 1, k > left - 1 PROVE pc < table[k]
          <6>1. CASE k < high_index
            <7>1. LOW_PC(pc) < LOW_PC(table[k]) /\ k \in low_index..high_index - 1
              BY <2>2, <2>3, <3>1, <4>3, <5>2, <6>1
            <7> QED
              BY <1>1, <2>2, <2>3, <2>4, <2>5, <4>3, <7>1
          <6>2. CASE k >= high_index
            BY <1>1, <2>2, <2>3, <4>3, <6>2
          <6> QED
            BY <2>2, <6>1, <6>2
        <5> QED
          BY <1>1, <4>1, <5>1, <5>2 DEF Covers
      <4> QED
        BY <1>2, <3>1, <4>1, <4>2, <4>3 DEF SearchInv, LookupCorrect, Covers, PageHasRows
    <3>3. CASE left = low_index
      <4>1. table_idx' = PreviousRow
        BY <2>2, <3>1, <3>3
      <4>2. low_index > 0 => PreviousRow = low_index - 1
        <5> SUFFICES ASSUME low_index > 0 PROVE PreviousRow = low_index - 1
          BY Zenon
        <5>1. low_index - 1 \in 0..Size - 1
          BY <1>1, <2>2
        <5>2. /\ LOW_PC(table[low_index - 1]) \in Nat
              /\ LOW_PC(table[low_index - 1]) < UNWIND_INFO_PAGE_SIZE
          BY <1>1, <5>1, HighLow, Zenon
        <5>3. HIGH_PC(pc) \in Nat /\ HIGH_PC(pc) <= pc
          BY <2>2, HighLow
        <5>4. UNWIND_INFO_PAGE_SIZE \in Nat
          BY UnwindTableAssumption
        <5>5. pc > PREVIOUS_PAGE(HIGH_PC(pc)) + LOW_PC(table[low_index - 1])
          BY <2>2, <5>2, <5>3, <5>4 DEF PREVIOUS_PAGE
        <5> QED
          BY <5>5 DEF PreviousRow
      <4>3. low_index = 0 => PreviousRow = BINARY_SEARCH_DEFAULT
        BY DEF PreviousRow
      <4>4. PreviousRow \in 0..Size - 1 \cup {BINARY_SEARCH_DEFAULT}
        BY <1>1, <2>2, <4>2, <4>3
      <4>5. TypeOK'
        BY <1>2, <3>1, <4>1, <4>4 DEF LookupInv, TypeOK
      <4>6. ASSUME PageHasRows PROVE Covers(PreviousRow)
        <5>1. ASSUME NEW k \in 0..Size - 1, k >= low_index PROVE pc < table[k]
          <6>1. CASE k < high_index
            <7>1. LOW_PC(pc) < LOW_PC(table[k]) /\ k \in low_index..high_index - 1
              BY <2>2, <2>3, <3>1, <3>3, <4>6, <5>1, <6>1
            <7> QED
              BY <1>1, <2>2, <2>3, <2>4, <2>5, <4>6, <7>1
          <6>2. CASE k >= high_index
            BY <1>1, <2>2, <2>3, <4>6, <6>2
          <6> QED
            BY <2>2, <6>1, <6>2
        <5>2. CASE low_index = 0
          BY <1>1, <4>3, <5>1, <5>2 DEF Covers
        <5>3. CASE low_index > 0
          <6>1. low_index - 1 \in 0..Size - 1 /\ table[low_index - 1] < pc
            <7>1. low_index - 1 \in 0..Size - 1
              BY <1>1, <2>2, <5>3
            <7>2. table[low_index - 1] < pc
              BY <2>3, <4>6, <5>3, <7>1
            <7> QED
              BY <7>1, <7>2
          <6>2. \A k \in DOMAIN table : k > low_index - 1 => pc < table[k]
            BY <1>1, <2>2, <5>1
          <6>3. table[low_index - 1] <= pc
            BY <1>1, <2>2, <6>1
          <6> QED
            BY <1>1, <4>2, <5>3, <6>1, <6>2, <6>3 DEF Covers
        <5> QED
          BY <2>2, <5>2, <5>3
      <4> QED
        BY <1>2, <3>1, <4>1, <4>5, <4>6 DEF SearchInv, LookupCorrect, Covers, PageHasRows
    <3> QED
      BY <3>2, <3>3
  <2> QED
    BY <1>7, <2>6, <2>7, <2>8
<1> QED
  BY <1>3, <1>4, <1>6, <1>7 DEF LookupInv

\* ... and the steps that only leave a phase.
LEMMA OtherNext == LookupInv /\ (NextLookup \/ delete_bpf_pages \/ UNCHANGED vars) => LookupInv'
<1> SUFFICES ASSUME LookupInv, NextLookup \/ delete_bpf_pages \/ UNCHANGED vars
             PROVE  LookupInv'
  OBVIOUS
<1> USE DEF pagingVars, searchVars
<1>1. /\ Size \in Nat /\ Size > 0 /\ MAX_PC \in Nat /\ MAX_BINARY_SEARCH_DEPTH \in Nat
  BY TableFacts, UnwindTableAssumption DEF LookupInv, TypeOK
<1>2. /\ UNCHANGED <<table, i, prev_high_pc, prev_index>> /\ Size' = Size
      /\ pages' \subseteq pages
  BY DEF NextLookup, delete_bpf_pages, vars, Size
<1>3. (\A p \in pages' : PageSound(p)') /\ PagingInv'
  BY <1>2 DEF LookupInv, PageSound, PagingInv
<1>4. CASE NextLookup
  <2>1. TypeOK'
    BY <1>1, <1>2, <1>4 DEF LookupInv, TypeOK, NextLookup
  <2>2. IndexInv' /\ SearchInv' /\ LookupCorrect'
    BY <1>2, <1>4 DEF LookupInv, IndexInv, Indexed, SearchInv, LookupCorrect, NextLookup
  <2> QED
    BY <1>3, <2>1, <2>2 DEF LookupInv
<1>5. CASE delete_bpf_pages
  <2>1. TypeOK'
    BY <1>1, <1>2, <1>5 DEF LookupInv, TypeOK, delete_bpf_pages
  <2>2. IndexInv' /\ SearchInv' /\ LookupCorrect'
    BY <1>5 DEF IndexInv, SearchInv, LookupCorrect, delete_bpf_pages
  <2> QED
    BY <1>3, <2>1, <2>2 DEF LookupInv
<1>6. CASE UNCHANGED vars
  BY <1>2, <1>3, <1>6, Zenon
  DEF vars, LookupInv, TypeOK, IndexInv, Indexed, SearchInv, LookupCorrect, PageHasRows, Covers
<1> QED
  BY <1>4, <1>5, <1>6

LEMMA LookupNext == LookupInv /\ [Next]_vars => LookupInv'
BY PagingNext, SearchNext, OtherNext DEF Next

\* For every table, page size and search depth: where a program counter's page
\* has rows of its own, the search by low bits and the fallback to the previous
\* page (find_offset_for_pc and profiler.bpf.c:382-403) find the row that covers
\* the whole program counter.
THEOREM LookupAlwaysCorrect == Spec => []LookupCorrect
<1>1. LookupInv => LookupCorrect
  BY DEF LookupInv
<1> QED
  BY LookupInit, LookupNext, <1>1, PTL DEF Spec

\* Indices stay within the table: the unwinder never reads a row that is not
\* there, whatever page it starts from.
THEOREM TableTypeCorrect == Spec => []TypeOK
<1>1. LookupInv => TypeOK
  BY DEF LookupInv
<1> QED
  BY LookupInit, LookupNext, <1>1, PTL DEF Spec

-----------------------------------------------------------------------------
\* The pages cover the table.

\* The addresses of pages.
Aligned(a) == a \in Nat /\ HIGH_PC(a) = a

LEMMA MultipleMod ==
    ASSUME NEW P \in Nat \ {0}, NEW q \in Nat
    PROVE  (q * P) % P = 0
<1>1. q * P \in Nat
  OBVIOUS
<1> DEFINE r == (q * P) % P
           d == (q * P) \div P
<1>2. q * P = P * d + r
  BY <1>1, Division
<1>3. r \in Nat /\ r < P /\ d \in Nat
  BY <1>1
<1> HIDE DEF r, d
<1>4. P * d = d * P /\ P * d \in Nat
  BY <1>3
<1>5. CASE d < q
  <2>1. PICK e \in Nat : q = d + 1 + e
    BY <1>3, <1>5
  <2>2. q * P = d * P + P + e * P /\ e * P \in Nat
    BY <1>3, <2>1
  <2> QED
    BY <1>2, <1>3, <1>4, <2>2
<1>6. CASE d >= q
  <2>1. PICK e \in Nat : d = q + e
    BY <1>3, <1>6
  <2>2. d * P = q * P + e * P /\ e * P \in Nat
    BY <1>3, <2>1
  <2>3. r = 0
    BY <1>1, <1>2, <1>3, <1>4, <2>2
  <2> QED
    BY <2>3 DEF r
<1> QED
  BY <1>3, <1>5, <1>6

\* High bits are the address of a page.
LEMMA HighAligned ==
    ASSUME NEW a \in Nat
    PROVE  Aligned(HIGH_PC(a))
<1> DEFINE P == UNWIND_INFO_PAGE_SIZE
           q == a \div P
<1>1. P \in Nat \ {0} /\ q \in Nat /\ HIGH_PC(a) = q * P /\ HIGH_PC(a) \in Nat
  BY HighLow, UnwindTableAssumption, Zenon
<1> HIDE DEF q
<1>2. (q * P) % P = 0
  BY <1>1, MultipleMod
<1>3. HIGH_PC(q * P) = q * P
  BY <1>1, <1>2 DEF HIGH_PC, LOW_PC
<1> QED
  BY <1>1, <1>3 DEF Aligned

\* Pages are a whole number of page sizes apart.
LEMMA AlignedApart ==
    ASSUME NEW a, NEW b, Aligned(a), Aligned(b), a < b
    PROVE  /\ a + UNWIND_INFO_PAGE_SIZE <= b
           /\ (b - a) % UNWIND_INFO_PAGE_SIZE = 0
<1> DEFINE P == UNWIND_INFO_PAGE_SIZE
           qa == a \div P
           qb == b \div P
<1>1. /\ P \in Nat \ {0} /\ a \in Nat /\ b \in Nat
      /\ qa \in Nat /\ qb \in Nat /\ a = qa * P /\ b = qb * P
  BY HighLow, UnwindTableAssumption DEF Aligned
<1> HIDE DEF qa, qb
<1>2. qa < qb
  <2> SUFFICES ASSUME qb <= qa PROVE FALSE
    BY <1>1
  <2>1. PICK d \in Nat : qa = qb + d
    BY <1>1
  <2>2. qa * P = qb * P + d * P /\ d * P \in Nat
    BY <1>1, <2>1
  <2> QED
    BY <1>1, <2>2
<1>3. PICK d \in Nat : qb = qa + 1 + d
  BY <1>1, <1>2
<1>4. qb * P = qa * P + P + d * P /\ d * P \in Nat
  BY <1>1, <1>3
<1>5. a + P <= b
  BY <1>1, <1>4
<1>6. b - a = (d + 1) * P /\ (d + 1) * P \in Nat
  BY <1>1, <1>4
<1>7. ((d + 1) * P) % P = 0
  <2>1. d + 1 \in Nat
    OBVIOUS
  <2> QED
    BY <1>1, <2>1, MultipleMod
<1> QED
  BY <1>5, <1>6, <1>7

\* A page size apart from a page, and within a page.
LEMMA AlignedSteps ==
    ASSUME NEW a \in Nat, Aligned(a), NEW x \in Nat, a <= x
    PROVE  /\ (x - a) % UNWIND_INFO_PAGE_SIZE = 0 <=> Aligned(x)
           /\ x < a + UNWIND_INFO_PAGE_SIZE => HIGH_PC(x) = a
<1> DEFINE P == UNWIND_INFO_PAGE_SIZE
<1>1. P \in Nat \ {0}
  BY UnwindTableAssumption
<1>2. ASSUME (x - a) % P = 0 PROVE Aligned(x)
  <2> DEFINE q == a \div P
             d == (x - a) \div P
  <2>1. q \in Nat /\ a = q * P
    BY HighLow DEF Aligned
  <2>2. x - a \in Nat /\ d \in Nat /\ x - a = P * d + 0
    BY <1>1, <1>2, Division
  <2> HIDE DEF q, d
  <2>3. x = (q + d) * P /\ q + d \in Nat
    BY <1>1, <2>1, <2>2
  <2>4. x % P = 0
    BY <1>1, <2>3, MultipleMod
  <2> QED
    BY <2>4 DEF Aligned, HIGH_PC, LOW_PC
<1>3. ASSUME Aligned(x) PROVE (x - a) % P = 0
  <2>1. CASE x = a
    <3>1. x - a = 0 * P /\ 0 \in Nat
      BY <1>1, <2>1
    <3> QED
      BY <1>1, <3>1, MultipleMod
  <2>2. CASE a < x
    BY <1>3, <2>2, AlignedApart
  <2> QED
    BY <2>1, <2>2
<1>4. ASSUME x < a + P PROVE HIGH_PC(x) = a
  <2>1. HIGH_PC(x) \in Nat /\ HIGH_PC(x) <= x /\ Aligned(HIGH_PC(x))
    BY HighLow, HighAligned
  <2>2. a <= HIGH_PC(x)
    BY HighMonotone DEF Aligned
  <2>3. a < HIGH_PC(x) => a + P <= HIGH_PC(x)
    BY <2>1, AlignedApart
  <2> QED
    BY <1>1, <1>4, <2>1, <2>2, <2>3
<1> QED
  BY <1>2, <1>3, <1>4

\* The page addresses from one address to another.
PageAddresses(from, to) == {a \in from..to : HIGH_PC(a) = a}

\* The pages are exactly those from the first row's to the one before the page
\* being collected, and once the table is loaded to the last row's.
CoverInv ==
    LET addresses == {p.address : p \in pages}
    IN  /\ phase = "paging" =>
              addresses = IF i = 0 THEN {} ELSE PageAddresses(HIGH_PC(table[0]), prev_high_pc - 1)
        /\ phase \in {"ready", "search", "found"} =>
              addresses = PageAddresses(HIGH_PC(table[0]), HIGH_PC(table[Size - 1]))
        /\ LoadedIsFound
        /\ DeletesAllPages

LEMMA CoverInit == LookupInv /\ Init => CoverInv
BY DEF Init, IndexInit, CoverInv, LoadedIsFound, DeletesAllPages

\* The addresses of the pages to_pages adds (pages.rs:46-70) are those from the
\* page being collected up to the next row's, whether there is a gap or not.
LEMMA NewPageAddresses ==
    ASSUME NEW high \in Nat, Aligned(high), Aligned(prev_high_pc), prev_high_pc < high
    PROVE  {p.address : p \in PagesUpTo(high)} = PageAddresses(prev_high_pc, high - 1)
<1>1. UNWIND_INFO_PAGE_SIZE \in Nat /\ UNWIND_INFO_PAGE_SIZE > 0 /\ prev_high_pc \in Nat
  BY UnwindTableAssumption DEF Aligned
<1>2. prev_high_pc + UNWIND_INFO_PAGE_SIZE <= high
  BY AlignedApart
<1>3. \A a : Page(a, prev_index, i).address = a
  BY DEF Page
<1>4. CASE prev_high_pc + UNWIND_INFO_PAGE_SIZE < high
  <2>1. PageSteps(prev_high_pc, high) = PageAddresses(prev_high_pc, high - 1)
    <3>1. ASSUME NEW a \in prev_high_pc..high - 1
          PROVE  (a - prev_high_pc) % UNWIND_INFO_PAGE_SIZE = 0 <=> HIGH_PC(a) = a
      <4>1. a \in Nat /\ prev_high_pc <= a
        BY <1>1
      <4> QED
        BY <1>1, <4>1, AlignedSteps DEF Aligned
    <3> QED
      BY <3>1 DEF PageSteps, PageAddresses
  <2>2. PagesUpTo(high) = {Page(a, prev_index, i) : a \in PageSteps(prev_high_pc, high)}
    BY <1>4 DEF PagesUpTo
  <2> QED
    BY <1>3, <2>1, <2>2
<1>5. CASE prev_high_pc + UNWIND_INFO_PAGE_SIZE = high
  <2>1. ASSUME NEW a \in PageAddresses(prev_high_pc, high - 1) PROVE a = prev_high_pc
    <3>1. a \in Nat /\ prev_high_pc <= a /\ a < high /\ HIGH_PC(a) = a
      BY <1>1 DEF PageAddresses
    <3> QED
      BY <1>1, <1>5, <3>1, AlignedSteps
  <2>2. prev_high_pc \in PageAddresses(prev_high_pc, high - 1)
    BY <1>1 DEF PageAddresses, Aligned
  <2>3. PagesUpTo(high) = {Page(prev_high_pc, prev_index, i)}
    BY <1>1, <1>5 DEF PagesUpTo
  <2> QED
    BY <1>3, <2>1, <2>2, <2>3, Zenon
<1> QED
  BY <1>1, <1>2, <1>4, <1>5

\* Every page from the first row's to the last row's is in the range that
\* delete_bpf_pages goes through from the first program counter, which need not
\* be at the start of its page, to the last (profiler.rs:1149-1164).
LEMMA RangeHasPages ==
    ASSUME NEW start \in Nat, NEW end \in Nat, start <= end
    PROVE  PageAddresses(HIGH_PC(start), HIGH_PC(end)) \subseteq PagesInRange(start, end)
<1> SUFFICES ASSUME NEW a \in PageAddresses(HIGH_PC(start), HIGH_PC(end)), a # HIGH_PC(end)
             PROVE  \E x \in PageSteps(start, end) : a = HIGH_PC(x)
  BY DEF PagesInRange
<1> DEFINE P == UNWIND_INFO_PAGE_SIZE
           x == a + LOW_PC(start)
<1>1. /\ P \in Nat /\ LOW_PC(start) \in Nat /\ LOW_PC(start) < P
      /\ HIGH_PC(start) \in Nat /\ HIGH_PC(end) \in Nat /\ HIGH_PC(end) <= end
      /\ start = HIGH_PC(start) + LOW_PC(start)
  BY HighLow, UnwindTableAssumption
<1>2. a \in Nat /\ HIGH_PC(start) <= a /\ a < HIGH_PC(end) /\ Aligned(a)
  BY <1>1 DEF PageAddresses, Aligned
<1>3. Aligned(HIGH_PC(start)) /\ Aligned(HIGH_PC(end))
  BY HighAligned
<1>4. a + P <= HIGH_PC(end)
  BY <1>2, <1>3, AlignedApart
<1>5. x \in start..end - 1 /\ x \in Nat /\ a <= x /\ x < a + P
  BY <1>1, <1>2, <1>4
<1>6. HIGH_PC(x) = a
  BY <1>2, <1>5, AlignedSteps
<1>7. (a - HIGH_PC(start)) % P = 0
  BY <1>1, <1>2, <1>3, AlignedSteps
<1>8. x - start = a - HIGH_PC(start)
  BY <1>1, <1>2
<1>9. x \in PageSteps(start, end)
  BY <1>5, <1>7, <1>8 DEF PageSteps
<1> QED
  BY <1>6, <1>9

LEMMA CoverNext == LookupInv /\ CoverInv /\ [Next]_vars => CoverInv'
<1> SUFFICES ASSUME LookupInv, CoverInv, [Next]_vars PROVE CoverInv'
  OBVIOUS
<1> USE DEF pagingVars, searchVars
<1> DEFINE addresses == {p.address : p \in pages}
<1>1. /\ IsTable(table) /\ Size \in Nat /\ Size > 0 /\ 0 \in 0..Size - 1 /\ Size - 1 \in 0..Size - 1
      /\ \A k \in 0..Size - 1 : table[k] \in Nat /\ HIGH_PC(table[k]) \in Nat
      /\ \A j, k \in 0..Size - 1 : j <= k => HIGH_PC(table[j]) <= HIGH_PC(table[k])
      /\ \A j, k \in 0..Size - 1 : j < k => table[j] < table[k]
  BY TableFacts DEF LookupInv, TypeOK
<1>2. \A k \in 0..Size - 1 : Aligned(HIGH_PC(table[k]))
  BY <1>1, HighAligned
<1>3. i \in 0..Size /\ (i > 0 => prev_high_pc = HIGH_PC(table[i - 1]))
  BY <1>1 DEF LookupInv, TypeOK, PagingInv
<1>a. table' = table /\ Size' = Size
  BY Zenon DEF Next, vars, to_pages_row, to_pages_last, find_page, Narrow, Exhausted, SearchDone, NextLookup,
         delete_bpf_pages, load_again, Size
<1>4. CASE to_pages_row
  <2> DEFINE high == HIGH_PC(table[i])
             first == HIGH_PC(table[0])
  <2>1. /\ phase = "paging" /\ phase' = "paging" /\ i' = i + 1 /\ prev_high_pc' = high
        /\ i \in 0..Size - 1 /\ i' # 0 /\ high \in Nat /\ first \in Nat
    BY <1>1, <1>3, <1>4 DEF to_pages_row
  <2>2. {p.address : p \in pages'} = PageAddresses(first, high - 1)
    <3>1. CASE i = 0
      <4>1. pages' = pages /\ addresses = {}
        BY <1>4, <2>1, <3>1, Zenon DEF to_pages_row, CoverInv, LookupInv, PagingInv
      <4>2. PageAddresses(first, first - 1) = {}
        BY <2>1 DEF PageAddresses
      <4> QED
        BY <3>1, <4>1, <4>2, Zenon
    <3>2. CASE i > 0 /\ prev_high_pc = high
      BY <1>4, <2>1, <3>2 DEF to_pages_row, CoverInv
    <3>3. CASE i > 0 /\ prev_high_pc # high
      <4>1. /\ i - 1 \in 0..Size - 1 /\ prev_high_pc = HIGH_PC(table[i - 1])
            /\ prev_high_pc \in Nat /\ prev_high_pc < high /\ first <= prev_high_pc
            /\ Aligned(prev_high_pc) /\ Aligned(high)
        <5>1. i - 1 \in 0..Size - 1 /\ i - 1 <= i /\ 0 <= i - 1 /\ prev_high_pc = HIGH_PC(table[i - 1])
          BY <1>1, <1>3, <2>1, <3>3
        <5> QED
          BY <1>1, <1>2, <2>1, <3>3, <5>1
      <4>2. pages' = pages \cup PagesUpTo(high)
        BY <1>4, <3>3, <4>1 DEF to_pages_row, None
      <4>3. addresses = PageAddresses(first, prev_high_pc - 1)
        BY <2>1, <3>3 DEF CoverInv
      <4>4. {p.address : p \in PagesUpTo(high)} = PageAddresses(prev_high_pc, high - 1)
        BY <2>1, <4>1, NewPageAddresses
      <4>5. PageAddresses(first, prev_high_pc - 1) \cup PageAddresses(prev_high_pc, high - 1)
              = PageAddresses(first, high - 1)
        BY <2>1, <4>1 DEF PageAddresses
      <4>6. {p.address : p \in pages'} = addresses \cup {p.address : p \in PagesUpTo(high)}
        BY <4>2
      <4> QED
        BY <4>3, <4>4, <4>5, <4>6, Zenon
    <3> QED
      BY <1>3, <3>1, <3>2, <3>3
  <2> QED
    BY <1>a, <2>1, <2>2, Zenon DEF CoverInv, LoadedIsFound, DeletesAllPages
<1>5. CASE to_pages_last
  <2> DEFINE first == HIGH_PC(table[0])
             last == HIGH_PC(table[Size - 1])
  <2>1. /\ phase = "paging" /\ phase' = "ready" /\ i = Size /\ prev_high_pc = last
        /\ pages' = pages \cup {Page(last, prev_index, Size)}
    BY <1>1, <1>3, <1>5 DEF to_pages_last
  <2>2. addresses = PageAddresses(first, last - 1)
    BY <1>1, <2>1 DEF CoverInv
  <2>3. first \in Nat /\ last \in Nat /\ first <= last /\ HIGH_PC(last) = last
    BY <1>1, <1>2 DEF Aligned
  <2>4. PageAddresses(first, last - 1) \cup {last} = PageAddresses(first, last)
    BY <2>3 DEF PageAddresses
  <2>a. Page(last, prev_index, Size).address = last
    BY DEF Page
  <2>5. {p.address : p \in pages'} = addresses \cup {last}
    BY <2>1, <2>a
  <2> QED
    BY <1>a, <2>1, <2>2, <2>4, <2>5, Zenon DEF CoverInv, LoadedIsFound, DeletesAllPages
<1>6. ASSUME NEW a \in 0..MAX_PC, find_page(a) PROVE CoverInv'
  <2>1. /\ phase = "ready" /\ phase' \in {"search", "found"} /\ pages' = pages /\ pc' = a /\ a \in Nat
        /\ phase' = "found" => \A p \in pages : p.address # HIGH_PC(a)
    BY <1>6, UnwindTableAssumption DEF find_page
  <2>2. ASSUME \A p \in pages : p.address # HIGH_PC(a), ~(a < HIGH_PC(table[0])), ~(table[Size - 1] < a)
        PROVE  FALSE
    <3>1. HIGH_PC(a) \in Nat /\ HIGH_PC(HIGH_PC(a)) = HIGH_PC(a)
      BY <2>1, HighAligned DEF Aligned
    <3>2. HIGH_PC(HIGH_PC(table[0])) = HIGH_PC(table[0])
      BY <1>1, <1>2 DEF Aligned
    <3>3. HIGH_PC(table[0]) <= HIGH_PC(a)
      BY <1>1, <2>1, <2>2, <3>2, HighMonotone
    <3>4. HIGH_PC(a) <= HIGH_PC(table[Size - 1])
      BY <1>1, <2>1, <2>2, HighMonotone
    <3>5. HIGH_PC(a) \in PageAddresses(HIGH_PC(table[0]), HIGH_PC(table[Size - 1]))
      BY <1>1, <3>1, <3>3, <3>4 DEF PageAddresses
    <3>6. HIGH_PC(a) \in addresses
      BY <2>1, <3>5, Zenon DEF CoverInv
    <3> QED
      BY <2>2, <3>6
  <2>3. LoadedIsFound'
    BY <1>a, <2>1, <2>2 DEF LoadedIsFound
  <2> QED
    BY <1>a, <2>1, <2>3 DEF CoverInv, DeletesAllPages
<1>7. CASE Narrow
  BY <1>a, <1>7, Zenon DEF Narrow, CoverInv, LoadedIsFound, DeletesAllPages
<1>8. CASE Exhausted \/ SearchDone
  <2>1. phase = "search" /\ phase' = "found" /\ pages' = pages
    BY <1>8 DEF Exhausted, SearchDone
  <2>2. table_idx' # PageNotFound
    <3>1. found \in 0..Size - 1 \cup {BINARY_SEARCH_DEFAULT} /\ low_index \in 0..Size
      BY Zenon DEF LookupInv, TypeOK
    <3>2. \/ table_idx' \in {BINARY_SEARCH_EXHAUSTED_ITERATIONS, BINARY_SEARCH_DEFAULT}
          \/ table_idx' = found
          \/ low_index > 0 /\ table_idx' = low_index - 1
      BY <1>8 DEF Exhausted, SearchDone, PreviousRow
    <3> QED
      BY <1>1, <3>1, <3>2 DEF BINARY_SEARCH_DEFAULT, BINARY_SEARCH_EXHAUSTED_ITERATIONS, PageNotFound
  <2> QED
    BY <1>a, <2>1, <2>2, Zenon DEF CoverInv, LoadedIsFound, DeletesAllPages
<1>9. CASE NextLookup
  BY <1>a, <1>9, Zenon DEF NextLookup, CoverInv, LoadedIsFound, DeletesAllPages
<1>10. CASE delete_bpf_pages
  <2>1. table[0] <= table[Size - 1]
    BY <1>1
  <2>2. addresses \subseteq PagesInRange(table[0], table[Size - 1])
    <3>1. addresses = PageAddresses(HIGH_PC(table[0]), HIGH_PC(table[Size - 1]))
      BY <1>10, Zenon DEF delete_bpf_pages, CoverInv
    <3> QED
      BY <1>1, <2>1, <3>1, RangeHasPages, Zenon
  <2>3. pages' = {} /\ phase' = "deleted"
    BY <1>10, <2>2, Zenon DEF delete_bpf_pages
  <2> QED
    BY <2>3, Zenon DEF CoverInv, LoadedIsFound, DeletesAllPages
<1>11. CASE load_again
  BY <1>11, Zenon DEF load_again, CoverInv, LoadedIsFound, DeletesAllPages
<1>12. CASE UNCHANGED vars
  BY <1>a, <1>12, Zenon DEF vars, CoverInv, LoadedIsFound, DeletesAllPages
<1> QED
  BY <1>4, <1>5, <1>6, <1>7, <1>8, <1>9, <1>10, <1>11, <1>12 DEF Next

\* For every table and page size: between the first and the last row every
\* program counter has a page, gaps of any length included, so that the unwinder
\* never asks again for a table that is loaded (profiler.bpf.c:362-375).
THEOREM LoadedAlwaysFound == Spec => []LoadedIsFound
<1>1. CoverInv => LoadedIsFound
  BY DEF CoverInv
<1> QED
  BY LookupInit, LookupNext, CoverInit, CoverNext, <1>1, PTL DEF Spec

\* For every table and page size: deleting the pages from the first to the last
\* program counter deletes all that to_pages made (profiler.rs:1135-1177).
THEOREM AlwaysDeletesAllPages == Spec => []DeletesAllPages
<1>1. CoverInv => DeletesAllPages
  BY DEF CoverInv
<1> QED
  BY LookupInit, LookupNext, CoverInit, CoverNext, <1>1, PTL DEF Spec

-----------------------------------------------------------------------------
\* The search has enough iterations.

\* The rows left to search after d iterations on a page that is not full.
SearchWidth ==
    CHOOSE w \in [0..MAX_BINARY_SEARCH_DEPTH - 1 -> 0..UNWIND_INFO_PAGE_SIZE - 1] :
        /\ w[0] = UNWIND_INFO_PAGE_SIZE - 1
        /\ \A d \in 1..MAX_BINARY_SEARCH_DEPTH - 1 : w[d] = w[d - 1] \div 2
        /\ w[MAX_BINARY_SEARCH_DEPTH - 1] = 0

\* Each iteration halves what is left, and the search ends with one to spare.
DepthInv ==
    /\ phase = "search" /\ high_index - low_index < UNWIND_INFO_PAGE_SIZE =>
          /\ depth < MAX_BINARY_SEARCH_DEPTH
          /\ right - left <= SearchWidth[depth]
    /\ NeverExhausted

LEMMA DepthInit == Init => DepthInv
BY DEF Init, IndexInit, DepthInv, NeverExhausted

LEMMA DepthNext == LookupInv /\ DepthInv /\ [Next]_vars => DepthInv'
<1> SUFFICES ASSUME LookupInv, DepthInv, [Next]_vars PROVE DepthInv'
  OBVIOUS
<1> USE DEF pagingVars, searchVars
<1> DEFINE P == UNWIND_INFO_PAGE_SIZE
           D == MAX_BINARY_SEARCH_DEPTH
           w == SearchWidth
<1>1. P \in Nat /\ D \in Nat /\ D > 0
  BY UnwindTableAssumption, SearchDepthAssumption
<1>2. /\ w \in [0..D - 1 -> 0..P - 1]
      /\ w[0] = P - 1
      /\ \A d \in 1..D - 1 : w[d] = w[d - 1] \div 2
      /\ w[D - 1] = 0
  BY SearchDepthAssumption, Zenon DEF SearchWidth
<1> HIDE DEF w
<1>3. CASE Narrow
  <2>1. /\ phase = "search" /\ left \in Nat /\ right \in Nat /\ left < right
        /\ depth \in 0..D /\ depth' = depth + 1
        /\ UNCHANGED <<phase, low_index, high_index>>
    <3>1. /\ phase = "search" /\ left < right /\ depth' = depth + 1
          /\ UNCHANGED <<phase, low_index, high_index>>
      BY <1>3, Zenon DEF Narrow
    <3>2. IsTable(table) /\ left \in 0..Size /\ right \in 0..Size /\ depth \in 0..D
      BY Zenon DEF LookupInv, TypeOK
    <3>3. left \in Nat /\ right \in Nat
      BY <3>2, TableFacts
    <3> QED
      BY <3>1, <3>2, <3>3
  <2> SUFFICES ASSUME high_index - low_index < P
               PROVE  depth' < D /\ right' - left' <= w[depth']
    BY <2>1 DEF DepthInv, NeverExhausted, w
  <2>2. depth \in 0..D - 1 /\ right - left <= w[depth] /\ w[depth] \in Nat
    <3>1. depth < D /\ right - left <= w[depth]
      BY <2>1 DEF DepthInv, w
    <3> QED
      BY <1>1, <1>2, <2>1, <3>1
  <2>3. depth # D - 1
    BY <1>2, <2>1, <2>2
  <2>4. depth' \in 1..D - 1 /\ depth' - 1 = depth
    BY <1>1, <2>1, <2>2, <2>3
  <2>5. w[depth'] = w[depth] \div 2
    BY <1>2, <2>4
  <2>6. right' - left' <= (right - left) \div 2
    <3> DEFINE mid == (left + right) \div 2
    <3>1. (left' = mid + 1 /\ right' = right) \/ (left' = left /\ right' = mid)
      BY <1>3 DEF Narrow, AfterRow
    <3> QED
      BY <2>1, <3>1
  <2>7. (right - left) \div 2 <= w[depth] \div 2
    BY <2>1, <2>2
  <2>8. right' - left' \in Int /\ (right - left) \div 2 \in Int /\ w[depth] \div 2 \in Int
    <3>1. left' \in Int /\ right' \in Int
      BY <1>3, <2>1 DEF Narrow, AfterRow
    <3> QED
      BY <2>1, <2>2, <3>1
  <2> QED
    BY <1>1, <2>4, <2>5, <2>6, <2>7, <2>8
<1>4. CASE Exhausted
  <2>1. ~(high_index - low_index < P) /\ high_index \in Int /\ low_index \in Int
    <3>1. phase = "search" /\ depth = D
      BY <1>4, Zenon DEF Exhausted
    <3>2. IsTable(table) /\ low_index \in 0..Size /\ high_index \in 0..Size
      BY Zenon DEF LookupInv, TypeOK
    <3>3. low_index \in Int /\ high_index \in Int
      BY <3>2, TableFacts
    <3>4. ~(high_index - low_index < P)
      BY <1>1, <3>1 DEF DepthInv
    <3> QED
      BY <3>3, <3>4
  <2> QED
    BY <1>1, <1>4, <2>1 DEF Exhausted, DepthInv, NeverExhausted
<1>5. CASE SearchDone
  <2>1. found \in 0..Size - 1 \cup {BINARY_SEARCH_DEFAULT} /\ low_index \in 0..Size /\ Size \in Nat
    BY TableFacts DEF LookupInv, TypeOK
  <2>2. table_idx' # BINARY_SEARCH_EXHAUSTED_ITERATIONS
    BY <1>5, <2>1 DEF SearchDone, PreviousRow, BINARY_SEARCH_DEFAULT, BINARY_SEARCH_EXHAUSTED_ITERATIONS
  <2> QED
    BY <1>5, <2>2 DEF SearchDone, DepthInv, NeverExhausted
<1>6. ASSUME NEW a \in 0..MAX_PC, find_page(a) PROVE DepthInv'
  <2>1. CASE phase' = "search"
    <3>1. PICK p \in pages : /\ low_index' = p.low_index /\ high_index' = p.high_index
                              /\ left' = p.low_index /\ right' = p.high_index /\ depth' = 0
      BY <1>6, <2>1 DEF find_page
    <3>2. p.low_index \in Nat /\ p.high_index \in Nat
      BY DEF LookupInv, TypeOK
    <3> QED
      BY <1>1, <1>2, <2>1, <3>1, <3>2 DEF DepthInv, NeverExhausted, w
  <2>2. CASE phase' = "found"
    BY <1>6, <2>2
    DEF find_page, DepthInv, NeverExhausted, PageNotFound, BINARY_SEARCH_EXHAUSTED_ITERATIONS
  <2> QED
    BY <1>6, <2>1, <2>2 DEF find_page
<1>7. CASE to_pages_row \/ to_pages_last \/ NextLookup \/ delete_bpf_pages \/ load_again
  BY <1>7, Zenon
  DEF to_pages_row, to_pages_last, NextLookup, delete_bpf_pages, load_again, DepthInv, NeverExhausted
<1>8. CASE UNCHANGED vars
  BY <1>8 DEF vars, DepthInv, NeverExhausted
<1> QED
  BY <1>3, <1>4, <1>5, <1>6, <1>7, <1>8 DEF Next

\* For every page size and every search depth that covers it: a page with fewer
\* rows than addresses is searched in the iterations the unwinder has
\* (MAX_BINARY_SEARCH_DEPTH, profiler.h:22,29).
THEOREM SearchNeverExhausted == Spec => []NeverExhausted
<1>1. DepthInv => NeverExhausted
  BY DEF DepthInv
<1> QED
  BY LookupInit, LookupNext, DepthInit, DepthNext, <1>1, PTL DEF Spec
=============================================================================
