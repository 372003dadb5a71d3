--------------------------- MODULE MappingProofs ----------------------------
(***************************************************************************)
(* Proofs about what is kept of mappings: the trie in which they are       *)
(* looked up, the tracers that report them gone, and the cache of the      *)
(* unwind information of executables.                                      *)
(***************************************************************************)
EXTENDS Tracers, AddressBlocks, UnwindCache, FiniteSetTheorems, TLAPS

-----------------------------------------------------------------------------
(***************************************************************************)
(* AddressBlocks: any two mappings of an address space of any width.  The  *)
(* blocks of a mapping tile the part of it that was added and not yet      *)
(* deleted, and each is the one that the loop computes again at its        *)
(* address, so that deleting finds what adding left.                       *)
(***************************************************************************)

LEMMA LeastNumber ==
    ASSUME NEW T \in SUBSET Nat, T # {}
    PROVE  \E x \in T : \A y \in T : x <= y
<1> DEFINE R == OpToRel(<, Nat)
<1>1. IsWellFoundedOn(R, Nat)
    BY NatLessThanWellFounded, Zenon
<1>2. \A x, y \in Nat : <<y, x>> \in R <=> y < x
    BY DEF OpToRel
<1> HIDE DEF R
<1>3. PICK x \in T : \A y \in T : ~(<<y, x>> \in R)
    BY <1>1, WFMin, Zenon
<1>4. \A y \in T : x <= y
    <2> TAKE y \in T
    <2>1. x \in Nat /\ y \in Nat /\ ~(y < x)
        BY <1>2, <1>3, Zenon
    <2> QED
        BY <2>1
<1> QED
    BY <1>4

LEMMA Induction ==
    ASSUME NEW n \in Nat, NEW G, 0 \in G, \A k \in 1..n : k - 1 \in G => k \in G
    PROVE  \A k \in 0..n : k \in G
<1> DEFINE T == {k \in 0..n : k \notin G}
<1> SUFFICES ASSUME T # {} PROVE FALSE
    OBVIOUS
<1>1. PICK x \in T : \A y \in T : x <= y
    <2>1. T \in SUBSET Nat
        OBVIOUS
    <2> HIDE DEF T
    <2> QED
        BY <2>1, LeastNumber
<1>2. x \in 1..n /\ x - 1 \in 0..n
    OBVIOUS
<1>3. x - 1 \notin T
    BY <1>1, <1>2
<1> QED
    BY <1>2, <1>3

LEMMA Greatest ==
    ASSUME NEW n \in Nat, NEW T \in SUBSET (0..n), T # {}
    PROVE  \E x \in T : \A y \in T : y <= x
<1> DEFINE D == {n - x : x \in T}
<1>1. D \in SUBSET Nat /\ D # {}
    <2>1. \A x \in T : n - x \in Nat
        OBVIOUS
    <2> QED
        BY <2>1, Zenon
<1>2. PICK d \in D : \A e \in D : d <= e
    BY <1>1, LeastNumber, Zenon
<1>3. PICK x \in T : d = n - x
    OBVIOUS
<1>4. ASSUME NEW y \in T PROVE y <= x
    <2>1. n - x <= n - y
        BY <1>2, <1>3, Zenon
    <2> QED
        BY <2>1
<1> QED
    BY <1>4

\* f has the powers of two up to n.
Doubles(f, n) == f \in [0..n -> Nat \ {0}] /\ f[0] = 1 /\ \A k \in 1..n : f[k] = 2 * f[k - 1]

LEMMA DoublesExist ==
    ASSUME NEW n \in Nat
    PROVE  \E f : Doubles(f, n)
<1> DEFINE G == {m \in 0..n : \E f : Doubles(f, m)}
<1>1. 0 \in G
    <2> DEFINE g == [k \in 0..0 |-> 1]
    <2>1. Doubles(g, 0)
        BY DEF Doubles
    <2> HIDE DEF g
    <2> QED
        BY <2>1
<1>2. ASSUME NEW m \in 1..n, m - 1 \in G PROVE m \in G
    <2>1. PICK f : Doubles(f, m - 1)
        BY <1>2
    <2>2. f \in [0..m - 1 -> Nat \ {0}] /\ f[0] = 1 /\ \A k \in 1..m - 1 : f[k] = 2 * f[k - 1]
        BY <2>1 DEF Doubles
    <2> DEFINE g == [k \in 0..m |-> IF k < m THEN f[k] ELSE 2 * f[m - 1]]
    <2>3. f[m - 1] \in Nat \ {0} /\ 2 * f[m - 1] \in Nat \ {0}
        BY <2>2
    <2>4. g \in [0..m -> Nat \ {0}] /\ g[0] = 1
        BY <2>2, <2>3
    <2>5. ASSUME NEW k \in 1..m PROVE g[k] = 2 * g[k - 1]
        <3>1. k - 1 < m /\ k - 1 \in 0..m /\ k \in 0..m
            OBVIOUS
        <3>2. g[k - 1] = f[k - 1]
            BY <3>1
        <3>3. CASE k < m
            BY <2>2, <3>1, <3>2, <3>3
        <3>4. CASE k = m
            BY <3>1, <3>2, <3>4
        <3> QED
            BY <3>3, <3>4
    <2> HIDE DEF g
    <2>6. Doubles(g, m)
        BY <2>4, <2>5 DEF Doubles
    <2> QED
        BY <2>6
<1> HIDE DEF G
<1>3. n \in G
    BY <1>1, <1>2, Induction
<1> QED
    BY <1>3 DEF G

LEMMA PowersOfTwo == Doubles(pow2, W + 1)
<1> DEFINE Def(f) == [k \in 0..(W + 1) |-> IF k = 0 THEN 1 ELSE 2 * f[k - 1]]
<1>1. PICK f : Doubles(f, W + 1)
    BY BlocksAssumption, DoublesExist
<1>2. f = Def(f)
    BY <1>1, BlocksAssumption DEF Doubles
<1> HIDE DEF Def
<1>3. pow2 = CHOOSE g : g = Def(g)
    BY Zenon DEF pow2, Def
<1>4. pow2 = Def(pow2)
    BY <1>2, <1>3, Zenon
<1>5. pow2 = [k \in 0..(W + 1) |-> IF k = 0 THEN 1 ELSE 2 * pow2[k - 1]]
    BY <1>4, Zenon DEF Def
<1>6. pow2[0] = 1
    BY <1>5, BlocksAssumption
<1>7. ASSUME NEW k \in 1..(W + 1) PROVE pow2[k] = 2 * pow2[k - 1]
    BY <1>5, BlocksAssumption
<1> DEFINE G == {k \in 0..(W + 1) : pow2[k] \in Nat \ {0}}
<1>8. \A k \in 0..(W + 1) : k \in G
    <2>1. 0 \in G
        BY <1>6, BlocksAssumption
    <2>2. ASSUME NEW k \in 1..(W + 1), k - 1 \in G PROVE k \in G
        <3>1. pow2[k - 1] \in Nat \ {0}
            BY <2>2
        <3> QED
            BY <1>7, <3>1, BlocksAssumption
    <2> HIDE DEF G
    <2> QED
        BY <2>1, <2>2, Induction, BlocksAssumption
<1>9. pow2 \in [0..(W + 1) -> Nat \ {0}]
    <2>1. DOMAIN pow2 = 0..(W + 1)
        BY <1>5, Zenon
    <2>2. pow2 = [k \in 0..(W + 1) |-> pow2[k]]
        BY <1>5, <2>1
    <2> QED
        BY <2>2, <1>8
<1> QED
    BY <1>6, <1>7, <1>9 DEF Doubles

\* Greater powers are multiples of smaller ones.
LEMMA Multiples ==
    ASSUME NEW k \in 0..W, NEW j \in 0..k
    PROVE  \E q \in Nat \ {0} : pow2[k] = q * pow2[j]
<1> DEFINE G == {d \in 0..(k - j) : \E q \in Nat \ {0} : pow2[j + d] = q * pow2[j]}
<1>0. Doubles(pow2, W + 1)
    BY PowersOfTwo
<1>1. 0 \in G
    <2>1. pow2[j] = 1 * pow2[j] /\ j + 0 = j
        BY <1>0, BlocksAssumption DEF Doubles
    <2> QED
        BY <2>1
<1>2. ASSUME NEW d \in 1..(k - j), d - 1 \in G PROVE d \in G
    <2>1. PICK q \in Nat \ {0} : pow2[j + (d - 1)] = q * pow2[j]
        BY <1>2
    <2>2. pow2[j + d] = 2 * pow2[j + (d - 1)]
        <3>1. j + d \in 1..(W + 1) /\ (j + d) - 1 = j + (d - 1)
            BY BlocksAssumption
        <3> QED
            BY <1>0, <3>1 DEF Doubles
    <2>3. pow2[j] \in Nat
        BY <1>0, BlocksAssumption DEF Doubles
    <2>4. pow2[j + d] = (2 * q) * pow2[j] /\ 2 * q \in Nat \ {0}
        BY <2>1, <2>2, <2>3, Z3
    <2> QED
        BY <2>4
<1>3. k - j \in Nat /\ j + (k - j) = k
    OBVIOUS
<1> HIDE DEF G
<1>4. k - j \in G
    BY <1>1, <1>2, <1>3, Induction
<1> QED
    BY <1>3, <1>4 DEF G

LEMMA Division ==
    \A n \in Nat, p \in Nat \ {0} : n = p * (n \div p) + (n % p) /\ n % p \in 0..(p - 1) /\ n \div p \in Nat
    OBVIOUS

LEMMA Quotient ==
    ASSUME NEW q \in Nat, NEW p \in Nat \ {0}, NEW r \in 0..(p - 1)
    PROVE  (q * p + r) \div p = q
    OBVIOUS

LEMMA Divides ==
    ASSUME NEW q \in Nat, NEW p \in Nat \ {0}
    PROVE  (q * p) % p = 0
    OBVIOUS

LEMMA TrailingZeros ==
    ASSUME NEW n \in Nat
    PROVE  trailing_zeros(n) \in 0..W /\ n % pow2[trailing_zeros(n)] = 0
<1> DEFINE T == {k \in 0..W : n % pow2[k] = 0}
<1>1. n % pow2[0] = 0
    BY PowersOfTwo DEF Doubles
<1>2. T \in SUBSET (0..W) /\ 0 \in T
    BY <1>1, BlocksAssumption
<1>3. PICK x \in T : \A y \in T : y <= x
    <2> HIDE DEF T
    <2> QED
        BY <1>2, Greatest, BlocksAssumption, Zenon
<1>4. \A j \in (x + 1)..W : n % pow2[j] # 0
    <2> SUFFICES ASSUME NEW j \in (x + 1)..W, n % pow2[j] = 0 PROVE FALSE
        OBVIOUS
    <2>1. j \in 0..W /\ x \in 0..W /\ ~(j <= x)
        BY BlocksAssumption
    <2> QED
        BY <1>3, <2>1
<1>5. \E k \in 0..W : n % pow2[k] = 0 /\ \A j \in (k + 1)..W : n % pow2[j] # 0
    BY <1>4
<1> QED
    BY <1>5, Zenon DEF trailing_zeros

LEMMA Log2 ==
    ASSUME NEW n \in 1..pow2[W]
    PROVE  ilog2(n) \in 0..W /\ pow2[ilog2(n)] <= n
<1> DEFINE T == {k \in 0..W : pow2[k] <= n}
<1>0. /\ pow2[0] = 1 /\ pow2[W] \in Nat /\ pow2[W + 1] = 2 * pow2[W]
      /\ \A k \in 0..(W + 1) : pow2[k] \in Nat \ {0}
    <2>1. W + 1 \in 1..(W + 1) /\ W \in 0..(W + 1) /\ (W + 1) - 1 = W
        BY BlocksAssumption
    <2> QED
        BY <2>1, PowersOfTwo DEF Doubles
<1>1. T \in SUBSET (0..W) /\ 0 \in T
    BY <1>0, BlocksAssumption
<1>2. PICK x \in T : \A y \in T : y <= x
    <2> HIDE DEF T
    <2> QED
        BY <1>1, Greatest, BlocksAssumption, Zenon
<1>3. n < pow2[x + 1]
    <2>1. CASE x = W
        BY <1>0, <2>1
    <2>2. CASE x # W
        <3>1. x + 1 \in 0..W /\ x + 1 \notin T
            BY <1>2, <2>2, BlocksAssumption
        <3>2. pow2[x + 1] \in Nat
            BY <1>0, <3>1, BlocksAssumption
        <3> QED
            BY <3>1, <3>2
    <2> QED
        BY <2>1, <2>2
<1>4. \E k \in 0..W : pow2[k] <= n /\ n < pow2[k + 1]
    BY <1>2, <1>3
<1> QED
    BY <1>4, Zenon DEF ilog2

\* The block at an address of a range begins at a multiple of its size and stays in
\* the range.
LEMMA BlockFits ==
    ASSUME NEW high \in AddressSpace, NEW addr \in 0..high
    PROVE  LET bits == number_of_bits(addr, high)
           IN  /\ bits \in 0..W /\ pow2[bits] \in Nat \ {0}
               /\ addr % pow2[bits] = 0
               /\ addr + pow2[bits] <= high + 1
<1> DEFINE bits == number_of_bits(addr, high)
           zeros == trailing_zeros(addr)
           log == ilog2(high - addr + 1)
<1>0. \A k \in 0..(W + 1) : pow2[k] \in Nat \ {0}
    BY PowersOfTwo DEF Doubles
<1>1. pow2[W] \in Nat \ {0} /\ high \in Nat /\ addr \in Nat /\ high < pow2[W]
    BY <1>0, BlocksAssumption DEF AddressSpace
<1>2. zeros \in 0..W /\ addr % pow2[zeros] = 0
    BY <1>1, TrailingZeros
<1>3. high - addr + 1 \in 1..pow2[W]
    BY <1>1
<1>4. log \in 0..W /\ pow2[log] <= high - addr + 1
    BY <1>3, Log2
<1>5. bits = (IF zeros < log THEN zeros ELSE log)
    BY Zenon DEF number_of_bits
<1> HIDE DEF bits, zeros, log
<1>6. bits \in 0..zeros /\ bits \in 0..log /\ bits \in 0..W
    BY <1>2, <1>4, <1>5, BlocksAssumption
<1>7. pow2[bits] \in Nat \ {0} /\ pow2[zeros] \in Nat \ {0} /\ pow2[log] \in Nat \ {0}
    BY <1>0, <1>2, <1>4, <1>6, BlocksAssumption
<1>8. addr % pow2[bits] = 0
    <2>1. PICK q \in Nat \ {0} : pow2[zeros] = q * pow2[bits]
        BY <1>2, <1>6, Multiples
    <2> DEFINE d == addr \div pow2[zeros]
    <2>2. d \in Nat /\ addr = pow2[zeros] * d
        <3> DEFINE p == pow2[zeros]
        <3>1. p \in Nat \ {0} /\ addr \in Nat /\ addr % p = 0
            BY <1>1, <1>2, <1>7
        <3> HIDE DEF p
        <3>2. addr = p * (addr \div p) + (addr % p) /\ addr \div p \in Nat
            BY <3>1, Division
        <3>3. addr = p * (addr \div p)
            BY <3>1, <3>2
        <3> QED
            BY <3>2, <3>3, Zenon DEF p
    <2> HIDE DEF d
    <2>3. addr = (q * d) * pow2[bits] /\ q * d \in Nat
        <3> DEFINE p == pow2[bits]
        <3>1. p \in Nat /\ q \in Nat /\ d \in Nat /\ addr = (q * p) * d
            BY <1>7, <2>1, <2>2
        <3> HIDE DEF p
        <3>2. (q * p) * d = (q * d) * p /\ q * d \in Nat
            BY <3>1, Z3
        <3> QED
            BY <3>1, <3>2, Zenon DEF p
    <2> QED
        BY <1>7, <2>3, Divides, Zenon
<1>9. addr + pow2[bits] <= high + 1
    <2>1. PICK q \in Nat \ {0} : pow2[log] = q * pow2[bits]
        BY <1>4, <1>6, Multiples
    <2>2. pow2[bits] <= pow2[log]
        <3> DEFINE p == pow2[bits]
        <3>1. p \in Nat
            BY <1>7
        <3> HIDE DEF p
        <3>2. p <= q * p
            BY <3>1, Z3
        <3> QED
            BY <2>1, <3>2 DEF p
    <2> QED
        BY <1>1, <1>4, <1>7, <2>2
<1> QED
    BY <1>6, <1>7, <1>8, <1>9 DEF bits

\* A prefix matches the addresses of its block.
LEMMA PrefixMatches ==
    ASSUME NEW p \in Nat \ {0}, NEW addr \in Nat, addr % p = 0, NEW a \in Nat
    PROVE  a \div p = addr \div p <=> addr <= a /\ a < addr + p
<1> DEFINE q == addr \div p
           s == a \div p
<1>1. addr = p * q /\ q \in Nat
    BY Division
<1>2. a = p * s + (a % p) /\ a % p \in 0..(p - 1) /\ s \in Nat
    BY Division, Zenon
<1>3. ASSUME s = q PROVE addr <= a /\ a < addr + p
    BY <1>1, <1>2, <1>3
<1>4. ASSUME addr <= a, a < addr + p PROVE s = q
    <2>1. a - addr \in 0..(p - 1) /\ a = q * p + (a - addr)
        BY <1>1, <1>4
    <2>2. (q * p + (a - addr)) \div p = q
        BY <1>1, <2>1, Quotient
    <2> QED
        BY <2>1, <2>2, Zenon
<1> QED
    BY <1>3, <1>4

-----------------------------------------------------------------------------
\* The block of mapping m at an address, and the addresses of a block.
BlockOf(m, high, addr) ==
    [addr |-> addr, bits |-> number_of_bits(addr, high), mapping |-> m]
Covers(b, a) == b.addr <= a /\ a < b.addr + pow2[b.bits]

\* The blocks of T, those of a mapping up to `high`, tile the addresses from lo to
\* hi - 1.
Tiles(T, m, high, lo, hi) ==
    /\ \A b \in T : /\ b = BlockOf(m, high, b.addr)
                    /\ b.addr \in lo..high /\ b.addr + pow2[b.bits] <= hi
    /\ \A b, c \in T : b.addr < c.addr => b.addr + pow2[b.bits] <= c.addr
    /\ \A a \in lo..(hi - 1) : \E b \in T : Covers(b, a)

LEMMA BlockFields ==
    ASSUME NEW m, NEW high \in AddressSpace, NEW addr \in 0..high
    PROVE  LET b == BlockOf(m, high, addr)
           IN  /\ b.addr = addr /\ b.mapping = m
               /\ b.bits \in 0..W /\ pow2[b.bits] \in Nat \ {0}
               /\ addr % pow2[b.bits] = 0
               /\ addr + pow2[b.bits] <= high + 1
<1> DEFINE bits == number_of_bits(addr, high)
<1>1. /\ bits \in 0..W /\ pow2[bits] \in Nat \ {0}
      /\ addr % pow2[bits] = 0
      /\ addr + pow2[bits] <= high + 1
    BY BlockFits
<1> HIDE DEF bits
<1>2. BlockOf(m, high, addr) = [addr |-> addr, bits |-> bits, mapping |-> m]
    BY Zenon DEF BlockOf, bits
<1> QED
    BY <1>1, <1>2

LEMMA AddressesAreNumbers == AddressSpace \subseteq Nat
<1>1. pow2[W] \in Nat
    BY PowersOfTwo, BlocksAssumption DEF Doubles
<1> QED
    BY <1>1 DEF AddressSpace

LEMMA TilesNone ==
    ASSUME NEW m, NEW high, NEW lo \in Nat
    PROVE  Tiles({}, m, high, lo, lo)
    BY DEF Tiles

LEMMA NoTiles ==
    ASSUME NEW T, NEW m, NEW high \in AddressSpace, NEW lo \in Nat, Tiles(T, m, high, lo, lo)
    PROVE  T = {}
<1> SUFFICES ASSUME NEW b \in T PROVE FALSE
    OBVIOUS
<1>1. b = BlockOf(m, high, b.addr) /\ b.addr \in lo..high /\ b.addr + pow2[b.bits] <= lo
    BY Zenon DEF Tiles
<1>2. high \in Nat
    BY AddressesAreNumbers
<1>3. b.addr \in 0..high
    BY <1>1, <1>2
<1>4. pow2[b.bits] \in Nat \ {0}
    <2>1. pow2[BlockOf(m, high, b.addr).bits] \in Nat \ {0}
        BY <1>3, BlockFields
    <2> QED
        BY <1>1, <2>1, Zenon
<1> QED
    BY <1>1, <1>2, <1>4

\* Adding the next block.
LEMMA TilesAdd ==
    ASSUME NEW T, NEW m, NEW high \in AddressSpace, NEW lo \in Nat, NEW c \in lo..high,
           Tiles(T, m, high, lo, c)
    PROVE  LET b == BlockOf(m, high, c)
           IN  Tiles(T \cup {b}, m, high, lo, c + pow2[b.bits])
<1> DEFINE b == BlockOf(m, high, c)
           p == pow2[b.bits]
           U == T \cup {b}
<1>0. high \in Nat /\ c \in Nat
    BY AddressesAreNumbers
<1>1. b.addr = c /\ p \in Nat \ {0}
    BY <1>0, BlockFields
<1>2. \A t \in T : /\ t = BlockOf(m, high, t.addr)
                   /\ t.addr \in lo..high /\ t.addr + pow2[t.bits] <= c
    BY Zenon DEF Tiles
<1>3. \A t \in T : t.addr \in Nat /\ pow2[t.bits] \in Nat \ {0} /\ t.addr < c
    <2> TAKE t \in T
    <2>1. t.addr \in 0..high
        BY <1>0, <1>2
    <2>2. pow2[t.bits] \in Nat \ {0}
        <3>1. pow2[BlockOf(m, high, t.addr).bits] \in Nat \ {0}
            BY <2>1, BlockFields
        <3>2. t = BlockOf(m, high, t.addr)
            BY <1>2, Zenon
        <3> QED
            BY <3>1, <3>2, Zenon
    <2> QED
        BY <1>0, <1>2, <2>1, <2>2
<1> HIDE DEF p
<1>4. \A t \in U : /\ t = BlockOf(m, high, t.addr)
                   /\ t.addr \in lo..high /\ t.addr + pow2[t.bits] <= c + p
    <2> TAKE t \in U
    <2>1. CASE t \in T
        <3>1. t = BlockOf(m, high, t.addr) /\ t.addr \in lo..high /\ t.addr + pow2[t.bits] <= c
            BY <1>2, <2>1, Zenon
        <3>2. t.addr \in Nat /\ pow2[t.bits] \in Nat
            BY <1>3, <2>1
        <3>3. t.addr + pow2[t.bits] <= c + p
            BY <1>0, <1>1, <3>1, <3>2
        <3> QED
            BY <3>1, <3>3, Zenon
    <2>2. CASE t = b
        <3> HIDE DEF b
        <3>1. c + p <= c + p
            BY <1>0, <1>1
        <3>2. t.addr = c /\ pow2[t.bits] = p
            BY <1>1, <2>2 DEF p
        <3> QED
            BY <2>2, <3>1, <3>2, Zenon DEF b
    <2> QED
        BY <2>1, <2>2
<1>5. \A s, t \in U : s.addr < t.addr => s.addr + pow2[s.bits] <= t.addr
    <2> SUFFICES ASSUME NEW s \in U, NEW t \in U, s.addr < t.addr
                 PROVE  s.addr + pow2[s.bits] <= t.addr
        OBVIOUS
    <2> HIDE DEF b
    <2>1. CASE s \in T /\ t \in T
        BY <2>1, Zenon DEF Tiles
    <2>2. CASE s \in T /\ t = b
        BY <1>1, <1>2, <2>2
    <2>3. CASE s = b
        <3>1. t # b
            BY <1>0, <1>1, <2>3
        <3>2. t \in T
            BY <3>1
        <3> QED
            BY <1>0, <1>1, <1>3, <2>3, <3>2
    <2> QED
        BY <2>1, <2>2, <2>3
<1>6. \A a \in lo..((c + p) - 1) : \E t \in U : Covers(t, a)
    <2> TAKE a \in lo..((c + p) - 1)
    <2> HIDE DEF b
    <2>1. CASE a < c
        <3>1. a \in lo..(c - 1)
            BY <1>0, <2>1
        <3> QED
            BY <3>1, Zenon DEF Tiles
    <2>2. CASE a >= c
        <3>1. a < c + p
            BY <1>0, <1>1
        <3>2. Covers(b, a)
            BY <1>1, <2>2, <3>1 DEF Covers, p
        <3> QED
            BY <3>2
    <2> QED
        BY <1>0, <2>1, <2>2
<1> QED
    BY <1>4, <1>5, <1>6, Zenon DEF Tiles, p

\* Removing the first one.
LEMMA TilesRemove ==
    ASSUME NEW T, NEW m, NEW high \in AddressSpace, NEW c \in 0..high,
           Tiles(T, m, high, c, high + 1)
    PROVE  LET b == BlockOf(m, high, c)
           IN  b \in T /\ Tiles(T \ {b}, m, high, c + pow2[b.bits], high + 1)
<1> DEFINE b == BlockOf(m, high, c)
           p == pow2[b.bits]
           U == T \ {b}
<1>0. high \in Nat /\ c \in Nat /\ c \in c..((high + 1) - 1)
    BY AddressesAreNumbers
<1>1. b.addr = c /\ p \in Nat \ {0}
    BY <1>0, BlockFields
<1>2. \A t \in T : /\ t = BlockOf(m, high, t.addr)
                   /\ t.addr \in c..high /\ t.addr + pow2[t.bits] <= high + 1
    BY Zenon DEF Tiles
<1>3. b \in T
    <2>1. PICK t \in T : Covers(t, c)
        BY <1>0, Zenon DEF Tiles
    <2>2. t.addr = c
        BY <1>0, <1>2, <2>1 DEF Covers
    <2> QED
        BY <1>2, <2>1, <2>2, Zenon
<1> HIDE DEF p
<1>4. ASSUME NEW t \in U PROVE c + p <= t.addr
    <2>1. t \in T /\ t # b
        OBVIOUS
    <2>2. t.addr # c
        BY <1>2, <2>1, Zenon
    <2>3. c < t.addr
        BY <1>0, <1>2, <2>1, <2>2
    <2> HIDE DEF b
    <2>4. b.addr + pow2[b.bits] <= t.addr
        BY <1>1, <1>3, <2>1, <2>3, Zenon DEF Tiles
    <2> QED
        BY <1>1, <2>4, Zenon DEF p
<1> HIDE DEF b
<1>5. \A t \in U : /\ t = BlockOf(m, high, t.addr)
                   /\ t.addr \in (c + p)..high /\ t.addr + pow2[t.bits] <= high + 1
    <2> TAKE t \in U
    <2>1. /\ t = BlockOf(m, high, t.addr)
          /\ t.addr \in c..high /\ t.addr + pow2[t.bits] <= high + 1
        BY <1>2, Zenon
    <2>2. t.addr \in (c + p)..high
        BY <1>0, <1>1, <1>4, <2>1
    <2> QED
        BY <2>1, <2>2, Zenon
<1>6. \A s, t \in U : s.addr < t.addr => s.addr + pow2[s.bits] <= t.addr
    BY Zenon DEF Tiles
<1>7. \A a \in (c + p)..((high + 1) - 1) : \E t \in U : Covers(t, a)
    <2> TAKE a \in (c + p)..((high + 1) - 1)
    <2>1. a \in c..((high + 1) - 1)
        BY <1>0, <1>1
    <2>2. PICK t \in T : Covers(t, a)
        BY <2>1, Zenon DEF Tiles
    <2>3. t # b
        BY <1>0, <1>1, <2>2 DEF Covers, p
    <2> QED
        BY <2>2, <2>3, Zenon
<1> QED
    BY <1>3, <1>5, <1>6, <1>7, Zenon DEF Tiles, b, p

-----------------------------------------------------------------------------
Of(m) == {b \in trie : b.mapping = m}
Held(m, lo, hi) == Tiles(Of(m), m, ranges[m].high, lo, hi)
Whole(m) == Held(m, ranges[m].low, ranges[m].high + 1)

RangesInv ==
    /\ \A m \in {1, 2} : /\ ranges[m].low \in AddressSpace /\ ranges[m].high \in AddressSpace
                         /\ ranges[m].low <= ranges[m].high
    /\ ranges[1].high < ranges[2].low \/ ranges[2].high < ranges[1].low

\* What the trie has of the mappings at each operation.
BlocksInv ==
    /\ RangesInv
    /\ op \in 1..5
    /\ op # 5 => curr \in CurrentRange.low..CurrentRange.high
    /\ \A b \in trie : b.mapping \in {1, 2}
    /\ op = 1 => live = {} /\ Held(1, ranges[1].low, curr) /\ Of(2) = {}
    /\ op = 2 => live = {1} /\ Whole(1) /\ Held(2, ranges[2].low, curr)
    /\ op = 3 => live = {1, 2} /\ Held(1, curr, ranges[1].high + 1) /\ Whole(2)
    /\ op = 4 => live = {2} /\ Held(1, ranges[1].low, curr) /\ Whole(2)
    /\ op = 5 => live = {1, 2} /\ Whole(1) /\ Whole(2)

LEMMA OperationsAre ==
    /\ Len(Operations) = 4
    /\ Operations[1] = <<"add", 1>> /\ Operations[2] = <<"add", 2>>
    /\ Operations[3] = <<"delete", 1>> /\ Operations[4] = <<"add", 1>>
    BY DEF Operations

LEMMA OperationIs ==
    ASSUME op \in 1..5
    PROVE  /\ Finished <=> op = 5
           /\ op = 1 => Operations[op][1] = "add" /\ Mapping = 1
           /\ op = 2 => Operations[op][1] = "add" /\ Mapping = 2
           /\ op = 3 => Operations[op][1] = "delete" /\ Mapping = 1
           /\ op = 4 => Operations[op][1] = "add" /\ Mapping = 1
<1>1. Finished <=> op = 5
    BY OperationsAre DEF Finished
<1>2. /\ op = 1 => Operations[op] = <<"add", 1>>
      /\ op = 2 => Operations[op] = <<"add", 2>>
      /\ op = 3 => Operations[op] = <<"delete", 1>>
      /\ op = 4 => Operations[op] = <<"add", 1>>
    BY OperationsAre, Zenon
<1> QED
    BY <1>1, <1>2 DEF Mapping

\* Blocks are those of their mapping, within it, and disjoint.
Placed(m) ==
    /\ \A b \in Of(m) : /\ b = BlockOf(m, ranges[m].high, b.addr)
                        /\ b.addr \in ranges[m].low..ranges[m].high
    /\ \A b, c \in Of(m) : b.addr < c.addr => b.addr + pow2[b.bits] <= c.addr

LEMMA RangeNumbers ==
    ASSUME RangesInv, NEW m \in {1, 2}
    PROVE  /\ ranges[m].low \in Nat /\ ranges[m].high \in Nat
           /\ ranges[m].low <= ranges[m].low /\ ranges[m].low <= ranges[m].high
<1>1. ranges[m].low \in Nat /\ ranges[m].high \in Nat
    BY AddressesAreNumbers, Zenon DEF RangesInv
<1>2. ranges[m].low <= ranges[m].high
    BY Zenon DEF RangesInv
<1> QED
    BY <1>1, <1>2

LEMMA HeldIsPlaced ==
    ASSUME RangesInv, NEW m \in {1, 2}, NEW lo \in Nat, NEW hi, ranges[m].low <= lo,
           Held(m, lo, hi)
    PROVE  Placed(m)
<1>1. ranges[m].low \in Nat /\ ranges[m].high \in Nat
    BY RangeNumbers
<1>2. \A b \in Of(m) : b = BlockOf(m, ranges[m].high, b.addr) /\ b.addr \in lo..ranges[m].high
    BY Zenon DEF Held, Tiles
<1>3. ASSUME NEW b \in Of(m) PROVE b.addr \in ranges[m].low..ranges[m].high
    BY <1>1, <1>2
<1>4. \A b, c \in Of(m) : b.addr < c.addr => b.addr + pow2[b.bits] <= c.addr
    BY Zenon DEF Held, Tiles
<1> QED
    BY <1>2, <1>3, <1>4, Zenon DEF Placed

LEMMA AllPlaced ==
    ASSUME BlocksInv
    PROVE  Placed(1) /\ Placed(2)
<1>0. RangesInv
    BY DEF BlocksInv
<1>1. \A m \in {1, 2} : ranges[m].low \in Nat /\ ranges[m].low <= ranges[m].low
    BY <1>0, RangeNumbers
<1>2. \A m \in {1, 2} : Whole(m) => Placed(m)
    BY <1>0, <1>1, HeldIsPlaced, Zenon DEF Whole
<1>3. \A m \in {1, 2} : Held(m, ranges[m].low, curr) => Placed(m)
    BY <1>0, <1>1, HeldIsPlaced, Zenon
<1>4. \A m \in {1, 2} : Of(m) = {} => Placed(m)
    BY Zenon DEF Placed
<1>5. CASE op \in {1, 2, 4, 5}
    BY <1>2, <1>3, <1>4, <1>5 DEF BlocksInv
<1>6. CASE op = 3
    <2>1. Mapping = 1
        BY <1>6, OperationIs
    <2>2. curr \in ranges[1].low..ranges[1].high
        BY <1>6, <2>1 DEF BlocksInv, CurrentRange
    <2>3. curr \in Nat /\ ranges[1].low <= curr
        <3>1. ranges[1].low \in Nat /\ ranges[1].high \in Nat
            BY <1>0, RangeNumbers
        <3> QED
            BY <2>2, <3>1
    <2>4. Placed(1)
        BY <1>0, <1>6, <2>3, HeldIsPlaced DEF BlocksInv
    <2> QED
        BY <1>2, <1>6, <2>4 DEF BlocksInv
<1> QED
    BY <1>5, <1>6 DEF BlocksInv

\* An address that a block covers is in the block's mapping.
LEMMA PlacedMatches ==
    ASSUME RangesInv, NEW m \in {1, 2}, Placed(m), NEW b \in Of(m), NEW a \in AddressSpace
    PROVE  /\ b.bits \in Nat /\ b.addr \in Nat /\ pow2[b.bits] \in Nat \ {0}
           /\ a \div pow2[b.bits] = b.addr \div pow2[b.bits] <=> Covers(b, a)
           /\ Covers(b, a) => In(a, ranges[m])
<1> DEFINE high == ranges[m].high
           p == pow2[b.bits]
<1>1. high \in AddressSpace /\ high \in Nat /\ ranges[m].low \in Nat /\ a \in Nat
    BY AddressesAreNumbers, RangeNumbers, Zenon DEF RangesInv
<1>2. b = BlockOf(m, high, b.addr) /\ b.addr \in ranges[m].low..high
    BY Zenon DEF Placed
<1>3. b.addr \in 0..high /\ b.addr \in Nat
    BY <1>1, <1>2
<1> HIDE DEF high
<1>4. LET c == BlockOf(m, high, b.addr)
      IN  /\ c.bits \in 0..W /\ pow2[c.bits] \in Nat \ {0}
          /\ b.addr % pow2[c.bits] = 0
          /\ b.addr + pow2[c.bits] <= high + 1
    BY <1>1, <1>3, BlockFields
<1>5. b.bits \in 0..W /\ p \in Nat \ {0} /\ b.addr % p = 0 /\ b.addr + p <= high + 1
    BY <1>2, <1>4, Zenon
<1>6. b.bits \in Nat
    BY <1>5, BlocksAssumption
<1> HIDE DEF p
<1>7. a \div p = b.addr \div p <=> b.addr <= a /\ a < b.addr + p
    BY <1>1, <1>3, <1>5, PrefixMatches, Zenon
<1>8. ASSUME Covers(b, a) PROVE In(a, ranges[m])
    <2>1. b.addr <= a /\ a < b.addr + p
        BY <1>8 DEF Covers, p
    <2>2. ranges[m].low <= a /\ a <= high
        BY <1>1, <1>2, <1>3, <1>5, <2>1
    <2> QED
        BY <2>2 DEF In, high
<1> QED
    BY <1>3, <1>5, <1>6, <1>7, <1>8, Zenon DEF Covers, p

\* No two blocks of a mapping cover an address.
LEMMA CoveredOnce ==
    ASSUME RangesInv, NEW m \in {1, 2}, Placed(m), NEW b \in Of(m), NEW c \in Of(m),
           NEW a \in AddressSpace, Covers(b, a), Covers(c, a)
    PROVE  b = c
<1>1. b = BlockOf(m, ranges[m].high, b.addr) /\ c = BlockOf(m, ranges[m].high, c.addr)
    BY Zenon DEF Placed
<1>2. /\ b.addr \in Nat /\ c.addr \in Nat /\ a \in Nat
      /\ pow2[b.bits] \in Nat /\ pow2[c.bits] \in Nat
    BY AddressesAreNumbers, PlacedMatches
<1>3. ~(b.addr < c.addr)
    <2> SUFFICES ASSUME b.addr < c.addr PROVE FALSE
        OBVIOUS
    <2>1. b.addr + pow2[b.bits] <= c.addr
        BY Zenon DEF Placed
    <2> QED
        BY <1>2, <2>1 DEF Covers
<1>4. ~(c.addr < b.addr)
    <2> SUFFICES ASSUME c.addr < b.addr PROVE FALSE
        OBVIOUS
    <2>1. c.addr + pow2[c.bits] <= b.addr
        BY Zenon DEF Placed
    <2> QED
        BY <1>2, <2>1 DEF Covers
<1>5. b.addr = c.addr
    BY <1>2, <1>3, <1>4
<1> QED
    BY <1>1, <1>5, Zenon

LEMMA RangesApart ==
    ASSUME RangesInv, NEW m \in {1, 2}, NEW n \in {1, 2}, NEW a \in Nat,
           In(a, ranges[m]), In(a, ranges[n])
    PROVE  m = n
<1>1. /\ ranges[1].low \in Nat /\ ranges[1].high \in Nat
      /\ ranges[2].low \in Nat /\ ranges[2].high \in Nat
    BY RangeNumbers
<1>2. ranges[1].high < ranges[2].low \/ ranges[2].high < ranges[1].low
    BY DEF RangesInv
<1>3. ~(In(a, ranges[1]) /\ In(a, ranges[2]))
    BY <1>1, <1>2 DEF In
<1> QED
    BY <1>3

\* Between operations a mapping is in the trie whole or not at all.
LEMMA WholeOrNothing ==
    ASSUME BlocksInv, NEW m \in {1, 2}, Finished \/ m # Mapping
    PROVE  IF m \in live THEN Whole(m) ELSE Of(m) = {}
<1>1. op \in 1..5
    BY DEF BlocksInv
<1>2. CASE op = 1
    BY <1>2, OperationIs DEF BlocksInv
<1>3. CASE op = 2
    BY <1>3, OperationIs DEF BlocksInv
<1>4. CASE op = 3
    BY <1>4, OperationIs DEF BlocksInv
<1>5. CASE op = 4
    BY <1>5, OperationIs DEF BlocksInv
<1>6. CASE op = 5
    BY <1>6 DEF BlocksInv
<1> QED
    BY <1>1, <1>2, <1>3, <1>4, <1>5, <1>6

LEMMA LookupIsExact == BlocksInv => LookupExact
<1> SUFFICES ASSUME BlocksInv, NEW a \in AddressSpace
             PROVE  LET found == {b.mapping : b \in longest_prefix_match(a)}
                        expected == {m \in live : In(a, ranges[m])}
                    IN  IF ~Finished /\ In(a, CurrentRange) THEN found \subseteq {Mapping}
                        ELSE found = expected
    BY Zenon DEF LookupExact
<1> DEFINE found == {b.mapping : b \in longest_prefix_match(a)}
           expected == {m \in live : In(a, ranges[m])}
<1>1. RangesInv /\ a \in Nat /\ live \subseteq {1, 2}
    BY AddressesAreNumbers DEF BlocksInv
<1>2. \A m \in {1, 2} : Placed(m)
    BY AllPlaced
<1>3. ASSUME NEW b \in Matches(a)
      PROVE  /\ b.mapping \in {1, 2} /\ b \in Of(b.mapping)
             /\ Covers(b, a) /\ In(a, ranges[b.mapping])
    <2>1. b \in trie /\ a \div pow2[b.bits] = b.addr \div pow2[b.bits]
        BY <1>3, Zenon DEF Matches
    <2>2. b.mapping \in {1, 2} /\ b \in Of(b.mapping)
        BY <2>1, Zenon DEF BlocksInv, Of
    <2> QED
        BY <1>1, <1>2, <2>1, <2>2, PlacedMatches, Zenon
<1>4. longest_prefix_match(a) \subseteq Matches(a)
    BY Zenon DEF longest_prefix_match
<1>5. ~Finished => Mapping \in {1, 2}
    BY OperationIs DEF BlocksInv
<1>6. CASE ~Finished /\ In(a, CurrentRange)
    <2>1. ASSUME NEW b \in longest_prefix_match(a) PROVE b.mapping = Mapping
        BY <1>1, <1>3, <1>4, <1>5, <1>6, RangesApart, Zenon DEF CurrentRange
    <2> QED
        BY <1>6, <2>1, Zenon
<1>7. CASE Finished \/ ~In(a, CurrentRange)
    <2>1. ASSUME NEW m \in {1, 2}, In(a, ranges[m]) PROVE Finished \/ m # Mapping
        BY <1>7, <2>1, Zenon DEF CurrentRange
    <2>2. ASSUME NEW b \in longest_prefix_match(a) PROVE b.mapping \in expected
        <3>1. b.mapping \in {1, 2} /\ b \in Of(b.mapping) /\ In(a, ranges[b.mapping])
            BY <1>3, <1>4
        <3>2. b.mapping \in live
            BY <2>1, <3>1, WholeOrNothing, Zenon
        <3> QED
            BY <3>1, <3>2
    <2>3. ASSUME NEW m \in expected PROVE m \in found
        <3>1. m \in {1, 2} /\ m \in live /\ In(a, ranges[m])
            BY <1>1
        <3>2. Whole(m)
            BY <2>1, <3>1, WholeOrNothing, Zenon
        <3>3. a \in ranges[m].low..((ranges[m].high + 1) - 1)
            <4>1. ranges[m].low \in Nat /\ ranges[m].high \in Nat
                BY <1>1, <3>1, RangeNumbers, Zenon
            <4> QED
                BY <1>1, <3>1, <4>1 DEF In
        <3>4. PICK b \in Of(m) : Covers(b, a)
            BY <3>2, <3>3, Zenon DEF Whole, Held, Tiles
        <3>5. b \in trie /\ b.mapping = m
            BY Zenon DEF Of
        <3>6. /\ b.bits \in Nat
              /\ a \div pow2[b.bits] = b.addr \div pow2[b.bits]
            BY <1>1, <1>2, <3>1, <3>4, PlacedMatches, Zenon
        <3>7. b \in Matches(a)
            BY <3>5, <3>6, Zenon DEF Matches
        <3>8. ASSUME NEW c \in Matches(a) PROVE c = b
            <4>1. c.mapping = m
                BY <1>1, <1>3, <3>1, RangesApart, Zenon
            <4>2. c \in Of(m) /\ Covers(c, a)
                BY <1>3, <4>1, Zenon
            <4> QED
                BY <1>1, <1>2, <3>1, <3>4, <4>2, CoveredOnce, Zenon
        <3>9. \A c \in Matches(a) : b.bits <= c.bits
            <4>1. b.bits <= b.bits
                BY <3>6
            <4> QED
                BY <3>8, <4>1, Zenon
        <3>10. b \in longest_prefix_match(a)
            BY <3>7, <3>9, Zenon DEF longest_prefix_match
        <3> QED
            BY <3>5, <3>10, Zenon
    <2>4. found = expected
        <3> HIDE DEF expected
        <3> QED
            BY <2>2, <2>3, Zenon
    <2> QED
        BY <1>7, <2>4, Zenon
<1> QED
    BY <1>6, <1>7, Zenon

-----------------------------------------------------------------------------
\* The loop's next address, when it goes on and when it ends.
LEMMA NextAddress ==
    ASSUME NEW high \in AddressSpace, NEW next \in Nat \ {0}, next <= high + 1
    PROVE  LET wrapped == next % pow2[W]
           IN  IF wrapped = 0 \/ wrapped > high THEN next = high + 1
               ELSE wrapped = next /\ next <= high
<1> DEFINE p == pow2[W]
<1>1. p \in Nat \ {0}
    BY PowersOfTwo, BlocksAssumption DEF Doubles
<1>2. high \in Nat /\ high < p
    BY <1>1 DEF AddressSpace
<1> HIDE DEF p
<1>3. CASE next = p
    <2>1. next % p = 0
        <3>1. (1 * p) % p = 0 /\ 1 * p = p
            BY <1>1, Divides
        <3> QED
            BY <1>3, <3>1
    <2>2. next = high + 1
        BY <1>1, <1>2, <1>3
    <2> QED
        BY <2>1, <2>2 DEF p
<1>4. CASE next # p
    <2>1. next < p
        BY <1>1, <1>2, <1>4
    <2>2. next % p = next
        BY <1>1, <2>1
    <2>3. IF next = 0 \/ next > high THEN next = high + 1 ELSE next = next /\ next <= high
        BY <1>2
    <2> QED
        BY <2>2, <2>3, Zenon DEF p
<1> QED
    BY <1>3, <1>4

\* A step adds the block at curr to the trie or deletes it.
LEMMA StepTrie ==
    ASSUME BlocksInv, summarize_block
    PROVE  LET b == BlockOf(Mapping, CurrentRange.high, curr)
           IN  /\ Block = b
               /\ b.addr = curr
               /\ Operations[op][1] = "add" => trie' = trie \cup {b}
               /\ Operations[op][1] = "delete" => trie' = trie \ {b}
<1> DEFINE m == Mapping
           b == BlockOf(m, CurrentRange.high, curr)
<1>0. op \in 1..5 /\ op # 5 /\ RangesInv
    BY OperationIs DEF BlocksInv, summarize_block
<1>1. m \in {1, 2} /\ Operations[op][1] \in {"add", "delete"} /\ (Operations[op][1] = "delete" => op = 3)
    BY <1>0, OperationIs
<1>2. curr \in ranges[m].low..ranges[m].high
    BY <1>0 DEF BlocksInv, CurrentRange
<1>3. curr \in Nat /\ In(curr, ranges[m])
    <2>1. ranges[m].low \in Nat /\ ranges[m].high \in Nat
        BY <1>0, <1>1, RangeNumbers, Zenon
    <2> QED
        BY <1>2, <2>1 DEF In
<1>4. Block = b /\ b.addr = curr
    BY DEF Block, BlockOf
<1>5. trie' = Updated(b)
    BY <1>4, Zenon DEF summarize_block
<1>6. ASSUME NEW c \in trie, c.addr = curr
      PROVE  c \in Of(m) /\ c = b
    <2>1. c.mapping \in {1, 2} /\ c \in Of(c.mapping)
        BY Zenon DEF BlocksInv, Of
    <2>2. c.addr \in ranges[c.mapping].low..ranges[c.mapping].high
          /\ c = BlockOf(c.mapping, ranges[c.mapping].high, c.addr)
        BY <2>1, AllPlaced, Zenon DEF Placed
    <2>3. In(curr, ranges[c.mapping])
        <3>1. ranges[c.mapping].low \in Nat /\ ranges[c.mapping].high \in Nat
            BY <1>0, <2>1, RangeNumbers, Zenon
        <3> QED
            BY <1>3, <1>6, <2>2, <3>1 DEF In
    <2>4. c.mapping = m
        BY <1>0, <1>1, <1>3, <2>1, <2>3, RangesApart, Zenon
    <2> QED
        BY <1>6, <2>1, <2>2, <2>4, Zenon DEF CurrentRange
<1> HIDE DEF b
<1>7. ASSUME NEW c \in trie PROVE c.addr # b.addr \/ c.bits # b.bits <=> c # b
    BY <1>4, <1>6, Zenon
<1>8. {c \in trie : c.addr # b.addr \/ c.bits # b.bits} = trie \ {b}
    BY <1>7, Zenon
<1>9. Updated(b) = IF Operations[op][1] = "add" THEN (trie \ {b}) \cup {b} ELSE trie \ {b}
    BY <1>8, Zenon DEF Updated
<1> QED
    BY <1>4, <1>5, <1>9 DEF b

LEMMA BlocksInitial == BlockInit => BlocksInv
<1> SUFFICES ASSUME BlockInit PROVE BlocksInv
    OBVIOUS
<1>1. PICK l1 \in AddressSpace, h1 \in AddressSpace, l2 \in AddressSpace, h2 \in AddressSpace :
        /\ l1 <= h1 /\ l2 <= h2 /\ (h1 < l2 \/ h2 < l1)
        /\ ranges = << [low |-> l1, high |-> h1], [low |-> l2, high |-> h2] >>
    BY Zenon DEF BlockInit
<1>2. RangesInv
    <2>1. /\ ranges[1].low = l1 /\ ranges[1].high = h1
          /\ ranges[2].low = l2 /\ ranges[2].high = h2
        BY <1>1
    <2> QED
        BY <1>1, <2>1 DEF RangesInv
<1>3. op = 1 /\ trie = {} /\ live = {} /\ curr = ranges[1].low
    BY DEF BlockInit
<1>4. ranges[1].low \in Nat /\ ranges[1].high \in Nat /\ ranges[1].low <= ranges[1].high
    BY <1>2, RangeNumbers
<1>5. curr \in CurrentRange.low..CurrentRange.high
    <2>1. Mapping = 1
        BY <1>3, OperationIs
    <2> QED
        BY <1>3, <1>4, <2>1 DEF CurrentRange
<1>6. Of(1) = {} /\ Of(2) = {}
    BY <1>3 DEF Of
<1>7. Held(1, ranges[1].low, curr)
    BY <1>3, <1>4, <1>6, TilesNone, Zenon DEF Held
<1> QED
    BY <1>2, <1>3, <1>5, <1>6, <1>7 DEF BlocksInv

LEMMA BlocksPreserved == BlocksInv /\ [summarize_block]_blockVars => BlocksInv'
<1> SUFFICES ASSUME BlocksInv, [summarize_block]_blockVars PROVE BlocksInv'
    OBVIOUS
<1>1. CASE UNCHANGED blockVars
    BY <1>1, Zenon DEF blockVars, BlocksInv, RangesInv, CurrentRange, Mapping, Of, Held, Whole
<1>2. CASE summarize_block
    <2> DEFINE m == Mapping
               high == ranges[m].high
               b == BlockOf(m, high, curr)
               next == curr + pow2[b.bits]
    <2>0. op \in 1..5 /\ op # 5 /\ ~Finished /\ RangesInv /\ ranges' = ranges
        BY <1>2, OperationIs, Zenon DEF BlocksInv, summarize_block
    <2>1. m \in {1, 2} /\ CurrentRange = ranges[m]
        BY <2>0, OperationIs DEF CurrentRange
    <2>2. /\ ranges[m].low \in Nat /\ high \in Nat /\ high \in AddressSpace
          /\ \A n \in {1, 2} : ranges[n].low \in Nat /\ ranges[n].high \in Nat /\ ranges[n].low <= ranges[n].high
        <3>1. ranges[m].low \in Nat /\ high \in Nat /\ high \in AddressSpace
            BY <2>0, <2>1, RangeNumbers, Zenon DEF RangesInv
        <3> QED
            BY <2>0, <3>1, RangeNumbers, Zenon
    <2>3. curr \in ranges[m].low..high
        BY <2>0, <2>1, Zenon DEF BlocksInv
    <2>4. curr \in Nat /\ curr \in 0..high
        BY <2>2, <2>3
    <2>5. /\ b.mapping = m /\ pow2[b.bits] \in Nat \ {0}
          /\ next <= high + 1 /\ next \in Nat \ {0}
        <3>1. /\ b.mapping = m /\ pow2[b.bits] \in Nat \ {0}
              /\ next <= high + 1
            BY <2>2, <2>4, BlockFields
        <3> QED
            BY <2>4, <3>1
    <2>6. /\ Block = b
          /\ Operations[op][1] = "add" => trie' = trie \cup {b}
          /\ Operations[op][1] = "delete" => trie' = trie \ {b}
        BY <1>2, <2>1, StepTrie, Zenon
    <2>7. \/ /\ next = high + 1 /\ op' = op + 1
             /\ curr' = IF Finished' THEN 0 ELSE ranges[Operations[op + 1][2]].low
             /\ live' = IF Operations[op][1] = "add" THEN live \cup {m} ELSE live \ {m}
          \/ curr' = next /\ next <= high /\ op' = op /\ live' = live
        <3> DEFINE wrapped == next % pow2[W]
        <3>1. IF AtEnd(wrapped)
              THEN /\ op' = op + 1
                   /\ curr' = IF Finished' THEN 0 ELSE ranges[Operations[op + 1][2]].low
                   /\ live' = IF Operations[op][1] = "add" THEN live \cup {m} ELSE live \ {m}
              ELSE curr' = wrapped /\ op' = op /\ live' = live
            BY <1>2, <2>6, Zenon DEF summarize_block
        <3>2. AtEnd(wrapped) <=> (wrapped = 0 \/ wrapped > high)
            BY <2>1, Zenon DEF AtEnd
        <3>3. IF wrapped = 0 \/ wrapped > high THEN next = high + 1 ELSE wrapped = next /\ next <= high
            BY <2>2, <2>5, NextAddress, Zenon
        <3> HIDE DEF wrapped, next
        <3> QED
            BY <3>1, <3>2, <3>3, Zenon
    <2>8. RangesInv' /\ \A c \in trie' : c.mapping \in {1, 2}
        <3>1. RangesInv'
            BY <2>0, Zenon DEF RangesInv
        <3>2. trie' \subseteq trie \cup {b}
            BY <2>0, <2>6, OperationIs
        <3>3. \A c \in trie : c.mapping \in {1, 2}
            BY DEF BlocksInv
        <3> HIDE DEF b
        <3> QED
            BY <2>1, <2>5, <3>1, <3>2, <3>3, Zenon
    <2>9. ASSUME NEW n \in {1, 2}, n # m PROVE Of(n)' = Of(n)
        <3> HIDE DEF b
        <3>1. trie' = trie \cup {b} \/ trie' = trie \ {b}
            BY <2>0, <2>6, OperationIs
        <3> QED
            BY <2>5, <2>9, <3>1, Zenon DEF Of
    <2>10. ASSUME NEW n \in {1, 2}, n = m
           PROVE  /\ Operations[op][1] = "add" => Of(n)' = Of(n) \cup {b}
                  /\ Operations[op][1] = "delete" => Of(n)' = Of(n) \ {b}
        <3> HIDE DEF b
        <3> QED
            BY <2>5, <2>6, <2>10, Zenon DEF Of
    <2> HIDE DEF b, next, high
    <2>11. ASSUME NEW n \in {1, 2}, n = m, Operations[op][1] = "add", Held(n, ranges[n].low, curr)
           PROVE  Tiles(Of(n)', n, ranges[n].high, ranges[n].low, next)
        <3>1. Tiles(Of(n) \cup {b}, n, ranges[n].high, ranges[n].low, next)
            BY <2>2, <2>3, <2>11, TilesAdd, Zenon DEF Held, b, next, high
        <3> QED
            BY <2>10, <2>11, <3>1, Zenon
    <2>12. ASSUME NEW n \in {1, 2}, n = m, Operations[op][1] = "delete", Held(n, curr, ranges[n].high + 1)
           PROVE  Tiles(Of(n)', n, ranges[n].high, next, ranges[n].high + 1)
        <3>1. Tiles(Of(n) \ {b}, n, ranges[n].high, next, ranges[n].high + 1)
            BY <2>2, <2>4, <2>12, TilesRemove, Zenon DEF Held, b, next, high
        <3> QED
            BY <2>10, <2>12, <3>1, Zenon
    <2>13. ASSUME NEW n \in {1, 2}, n # m, Whole(n) PROVE Whole(n)'
        BY <2>0, <2>9, <2>13, Zenon DEF Whole, Held
    <2>14. ASSUME NEW n \in {1, 2}, n = m, Operations[op][1] = "add",
                  Held(n, ranges[n].low, curr), next = high + 1
           PROVE  Whole(n)'
        BY <2>0, <2>11, <2>14, Zenon DEF Whole, Held, high
    <2>15. ASSUME NEW n \in {1, 2}, n = m, Operations[op][1] = "add",
                  Held(n, ranges[n].low, curr), curr' = next
           PROVE  Held(n, ranges[n].low, curr)'
        BY <2>0, <2>11, <2>15, Zenon DEF Held
    <2>16. CASE curr' = next /\ next <= high /\ op' = op /\ live' = live
        <3>1. Mapping' = m /\ CurrentRange' = ranges[m]
            BY <2>0, <2>16 DEF Mapping, CurrentRange
        <3>2. curr' \in ranges[m].low..ranges[m].high
            BY <2>2, <2>3, <2>4, <2>5, <2>16 DEF next, high
        <3>3. curr' \in CurrentRange'.low..CurrentRange'.high
            BY <3>1, <3>2
        <3>4. CASE op = 1
            <4>1. m = 1 /\ Operations[op][1] = "add"
                BY <2>0, <3>4, OperationIs
            <4>2. live = {} /\ Held(1, ranges[1].low, curr) /\ Of(2) = {}
                BY <3>4 DEF BlocksInv
            <4>3. Held(1, ranges[1].low, curr)'
                BY <2>15, <2>16, <4>1, <4>2, Zenon
            <4>4. Of(2)' = {}
                BY <2>9, <4>1, <4>2
            <4> QED
                BY <2>0, <2>8, <2>16, <3>3, <3>4, <4>2, <4>3, <4>4 DEF BlocksInv
        <3>5. CASE op = 2
            <4>1. m = 2 /\ Operations[op][1] = "add"
                BY <2>0, <3>5, OperationIs
            <4>2. live = {1} /\ Whole(1) /\ Held(2, ranges[2].low, curr)
                BY <3>5 DEF BlocksInv
            <4>3. Held(2, ranges[2].low, curr)'
                BY <2>15, <2>16, <4>1, <4>2, Zenon
            <4>4. Whole(1)'
                BY <2>13, <4>1, <4>2
            <4> QED
                BY <2>0, <2>8, <2>16, <3>3, <3>5, <4>2, <4>3, <4>4 DEF BlocksInv
        <3>6. CASE op = 3
            <4>1. m = 1 /\ Operations[op][1] = "delete"
                BY <2>0, <3>6, OperationIs
            <4>2. live = {1, 2} /\ Held(1, curr, ranges[1].high + 1) /\ Whole(2)
                BY <3>6 DEF BlocksInv
            <4>3. Held(1, curr, ranges[1].high + 1)'
                BY <2>0, <2>12, <2>16, <4>1, <4>2, Zenon DEF Held
            <4>4. Whole(2)'
                BY <2>13, <4>1, <4>2
            <4> QED
                BY <2>0, <2>8, <2>16, <3>3, <3>6, <4>2, <4>3, <4>4 DEF BlocksInv
        <3>7. CASE op = 4
            <4>1. m = 1 /\ Operations[op][1] = "add"
                BY <2>0, <3>7, OperationIs
            <4>2. live = {2} /\ Held(1, ranges[1].low, curr) /\ Whole(2)
                BY <3>7 DEF BlocksInv
            <4>3. Held(1, ranges[1].low, curr)'
                BY <2>15, <2>16, <4>1, <4>2, Zenon
            <4>4. Whole(2)'
                BY <2>13, <4>1, <4>2
            <4> QED
                BY <2>0, <2>8, <2>16, <3>3, <3>7, <4>2, <4>3, <4>4 DEF BlocksInv
        <3> QED
            BY <2>0, <3>4, <3>5, <3>6, <3>7
    <2>17. CASE /\ next = high + 1 /\ op' = op + 1
                /\ curr' = IF Finished' THEN 0 ELSE ranges[Operations[op + 1][2]].low
                /\ live' = IF Operations[op][1] = "add" THEN live \cup {m} ELSE live \ {m}
        <3>1. CASE op = 1
            <4>1. m = 1 /\ Operations[op][1] = "add"
                BY <2>0, <3>1, OperationIs
            <4>2. live = {} /\ Held(1, ranges[1].low, curr) /\ Of(2) = {}
                BY <3>1 DEF BlocksInv
            <4>3. op' = 2 /\ live' = {1} /\ curr' = ranges[2].low /\ CurrentRange' = ranges[2]
                BY <2>0, <2>17, <3>1, <4>1, <4>2, OperationsAre DEF Finished, CurrentRange, Mapping
            <4>4. curr' \in CurrentRange'.low..CurrentRange'.high
                BY <2>2, <4>3
            <4>5. Whole(1)'
                BY <2>14, <2>17, <4>1, <4>2, Zenon
            <4>6. Of(2)' = {}
                BY <2>9, <4>1, <4>2
            <4>7. Held(2, ranges[2].low, curr)'
                BY <2>0, <2>2, <4>3, <4>6, TilesNone, Zenon DEF Held
            <4> QED
                BY ONLY <2>8, <4>3, <4>4, <4>5, <4>7 DEF BlocksInv
        <3>2. CASE op = 2
            <4>1. m = 2 /\ Operations[op][1] = "add"
                BY <2>0, <3>2, OperationIs
            <4>2. live = {1} /\ Whole(1) /\ Held(2, ranges[2].low, curr)
                BY <3>2 DEF BlocksInv
            <4>3. op' = 3 /\ live' = {1, 2} /\ curr' = ranges[1].low /\ CurrentRange' = ranges[1]
                BY <2>0, <2>17, <3>2, <4>1, <4>2, OperationsAre DEF Finished, CurrentRange, Mapping
            <4>4. curr' \in CurrentRange'.low..CurrentRange'.high
                BY <2>2, <4>3
            <4>5. Whole(2)'
                BY <2>14, <2>17, <4>1, <4>2, Zenon
            <4>6. Whole(1)'
                BY <2>13, <4>1, <4>2
            <4>7. Held(1, curr, ranges[1].high + 1)'
                BY <2>0, <4>3, <4>6, Zenon DEF Held, Whole
            <4> QED
                BY ONLY <2>8, <4>3, <4>4, <4>5, <4>7 DEF BlocksInv
        <3>3. CASE op = 3
            <4>1. m = 1 /\ Operations[op][1] = "delete"
                BY <2>0, <3>3, OperationIs
            <4>2. live = {1, 2} /\ Held(1, curr, ranges[1].high + 1) /\ Whole(2)
                BY <3>3 DEF BlocksInv
            <4>3. op' = 4 /\ live' = {2} /\ curr' = ranges[1].low /\ CurrentRange' = ranges[1]
                BY ONLY <2>0, <2>17, <3>3, <4>1, <4>2, OperationsAre DEF Finished, CurrentRange, Mapping
            <4>4. curr' \in CurrentRange'.low..CurrentRange'.high
                BY <2>2, <4>3
            <4>5. Whole(2)'
                BY <2>13, <4>1, <4>2
            <4>6. Of(1)' = {}
                <5>1. Tiles(Of(1)', 1, ranges[1].high, next, ranges[1].high + 1)
                    BY <2>12, <4>1, <4>2
                <5>2. next = ranges[1].high + 1
                    BY <2>17, <4>1 DEF high
                <5>3. ranges[1].high + 1 \in Nat /\ ranges[1].high \in AddressSpace
                    BY <2>0, <2>2 DEF RangesInv
                <5> QED
                    BY <5>1, <5>2, <5>3, NoTiles
            <4>7. Held(1, ranges[1].low, curr)'
                BY <2>0, <2>2, <4>3, <4>6, TilesNone, Zenon DEF Held
            <4> QED
                BY ONLY <2>8, <4>3, <4>4, <4>5, <4>7 DEF BlocksInv
        <3>4. CASE op = 4
            <4>1. m = 1 /\ Operations[op][1] = "add"
                BY <2>0, <3>4, OperationIs
            <4>2. live = {2} /\ Held(1, ranges[1].low, curr) /\ Whole(2)
                BY <3>4 DEF BlocksInv
            <4>3. op' = 5 /\ live' = {1, 2}
                BY <2>17, <3>4, <4>1, <4>2
            <4>4. Whole(1)'
                BY <2>14, <2>17, <4>1, <4>2, Zenon
            <4>5. Whole(2)'
                BY <2>13, <4>1, <4>2
            <4> QED
                BY <2>8, <4>3, <4>4, <4>5 DEF BlocksInv
        <3> QED
            BY <2>0, <3>1, <3>2, <3>3, <3>4
    <2> QED
        BY <2>7, <2>16, <2>17 DEF high, next
<1> QED
    BY <1>1, <1>2

\* Looking an address up finds the mapping it belongs to, at every step of adding and
\* deleting any two mappings in an address space of any width (lpm.rs:13-33).
THEOREM LookupAlwaysExact == BlockSpec => []LookupExact
<1> QED
    BY BlocksInitial, BlocksPreserved, LookupIsExact, PTL DEF BlockSpec

-----------------------------------------------------------------------------
(***************************************************************************)
(* Tracers: what the two halves of the munmap tracer hand over through the *)
(* map of pending calls, for any threads, processes and addresses.  The    *)
(* entry of a thread is only written by its own calls, so that it still    *)
(* holds the address of a call on a published mapping when that returns.   *)
(***************************************************************************)

CallType ==
    call \in [Thread -> [at : {"user", "kernel", "returning"}, start : Nat, end : Nat,
                         ret : {0, -1}, hits : SUBSET (Pid \X Nat \X Nat), room : BOOLEAN]]

\* The published mappings are ranges of processes.
PublishedType ==
    /\ mapped \in [Pid -> SUBSET [start : Nat, end : Nat, kind : {"data", "exec"}]]
    /\ exec_mappings \subseteq Pid \X Nat \X Nat

\* A mapping that the call of t hits is one that the tracer looks up.
LooksUp(t) == call[t].room /\ \E m \in call[t].hits : m[2] <= call[t].start

\* The entry of a thread that is in such a call is of this call.
PendingIsTracked ==
    \A t \in Thread : call[t].at # "user" /\ LooksUp(t) =>
        Key(t) \in DOMAIN tracked_munmap /\ tracked_munmap[Key(t)] = call[t].start

\* Whatever entry there is, the thread made a call on its address.
TrackedWasAttempted ==
    \A t \in Thread : Key(t) \in DOMAIN tracked_munmap =>
        <<t, tracked_munmap[Key(t)]>> \in attempts

TracedInv == CallType /\ PublishedType /\ PendingIsTracked /\ TrackedWasAttempted

LEMMA KeyIsOwn ==
    \A t, u \in Thread : Key(t) = Key(u) => t = u
  BY DEF Key

\* A mapping around an address is what the lookup of that address finds, and a mapping
\* is found only if there is one around it.
LEMMA MappingIsPublished ==
    ASSUME NEW p, NEW a \in Nat
    PROVE  MappingAt(p, a) <=> Around(p, a) # {}
<1>1. ASSUME Around(p, a) # {} PROVE MappingAt(p, a)
  BY <1>1, Zenon DEF MappingAt, find_mapping, Around
<1>2. ASSUME Around(p, a) = {} PROVE ~MappingAt(p, a)
  BY <1>2 DEF MappingAt, find_mapping, ProcessEntry
<1> QED
  BY <1>1, <1>2

\* What is left of a mapping is a mapping.
LEMMA PiecesAreMappings ==
    ASSUME NEW S \in SUBSET [start : Nat, end : Nat, kind : {"data", "exec"}],
           NEW r, r.start \in Nat, r.end \in Nat
    PROVE  Unmapped(S, r) \in SUBSET [start : Nat, end : Nat, kind : {"data", "exec"}]
<1> SUFFICES ASSUME NEW m \in S, NEW n \in Pieces(m, r)
             PROVE  n \in [start : Nat, end : Nat, kind : {"data", "exec"}]
  BY DEF Unmapped
<1>1. n \in {m, [m EXCEPT !.end = r.start], [m EXCEPT !.start = r.end]}
  BY DEF Pieces
<1> QED
  BY <1>1

LEMMA TracedInit == Init => TracedInv
<1> SUFFICES ASSUME Init PROVE TracedInv
  OBVIOUS
<1>1. CallType
  BY DEF Init, CallType, NoCall
<1>2. PublishedType
  BY TracersAssumption DEF Init, PublishedType
<1>3. PendingIsTracked /\ TrackedWasAttempted
  BY DEF Init, PendingIsTracked, TrackedWasAttempted, NoCall
<1> QED
  BY <1>1, <1>2, <1>3 DEF TracedInv

\* Steps that leave calls, entries and attempts alone.
LEMMA TracedUnchanged ==
    ASSUME TracedInv, PublishedType', UNCHANGED <<call, tracked_munmap, attempts>>
    PROVE  TracedInv'
  BY DEF TracedInv, CallType, PendingIsTracked, LooksUp, TrackedWasAttempted, Key

LEMMA EnterTraced ==
    ASSUME TracedInv, NEW t \in Thread, NEW r \in Unmaps[ProcessOf[t]], tracer_enter_munmap(t, r)
    PROVE  TracedInv'
<1> DEFINE p == ProcessOf[t]
           hit == {m \in exec_mappings : m[1] = p /\ m[2] < r.end /\ r.start < m[3]}
<1>1. p \in Pid /\ r.start \in Nat /\ r.end \in Nat
  BY TracersAssumption
<1>2. call' = [call EXCEPT ![t] = [at |-> "kernel", start |-> r.start, end |-> r.end, ret |-> 0,
                                  hits |-> hit, room |-> HasRoom(t)]]
  BY Zenon DEF tracer_enter_munmap
<1>3. CallType'
  <2>1. HasRoom(t) \in BOOLEAN
    BY DEF HasRoom
  <2>2. hit \in SUBSET (Pid \X Nat \X Nat)
    BY DEF TracedInv, PublishedType
  <2> HIDE DEF hit
  <2> QED
    BY <1>1, <1>2, <2>1, <2>2, Zenon DEF TracedInv, CallType
<1>4. \A u \in Thread \ {t} : call'[u] = call[u] /\ Key(u) # Key(t)
  BY <1>2, KeyIsOwn, Zenon DEF TracedInv, CallType
<1>5. call'[t].start = r.start /\ call'[t].hits = hit /\ call'[t].room = HasRoom(t)
  <2> HIDE DEF hit
  <2> QED
    BY <1>2, Zenon DEF TracedInv, CallType
<1>6. PublishedType'
  BY DEF tracer_enter_munmap, TracedInv, PublishedType
<1>7. CASE MappingAt(p, r.start) /\ HasRoom(t)
  <2>1. tracked_munmap' = [k \in DOMAIN tracked_munmap \cup {Key(t)} |->
                              IF k = Key(t) THEN r.start ELSE tracked_munmap[k]]
    BY <1>7 DEF tracer_enter_munmap, Tracked
  <2>2. attempts' = attempts \cup {<<t, r.start>>}
    BY <1>1, <1>7, MappingIsPublished, Zenon DEF tracer_enter_munmap
  <2>3. Key(t) \in DOMAIN tracked_munmap' /\ tracked_munmap'[Key(t)] = r.start
    BY <2>1
  <2>4. \A u \in Thread \ {t} :
          /\ Key(u) \in DOMAIN tracked_munmap' <=> Key(u) \in DOMAIN tracked_munmap
          /\ Key(u) \in DOMAIN tracked_munmap => tracked_munmap'[Key(u)] = tracked_munmap[Key(u)]
    BY <1>4, <2>1
  <2>6. PendingIsTracked'
    BY <1>4, <1>5, <2>3, <2>4, Zenon DEF TracedInv, PendingIsTracked, LooksUp, Key
  <2>7. TrackedWasAttempted'
    BY <1>4, <2>2, <2>3, <2>4, Zenon DEF TracedInv, TrackedWasAttempted, Key
  <2> QED
    BY <1>3, <1>6, <2>6, <2>7 DEF TracedInv
<1>8. CASE ~(MappingAt(p, r.start) /\ HasRoom(t))
  <2>1. tracked_munmap' = tracked_munmap /\ attempts \subseteq attempts'
    BY <1>8 DEF tracer_enter_munmap, Tracked
  <2>2. ~LooksUp(t)'
    <3>1. ASSUME NEW m \in hit, m[2] <= r.start PROVE MappingAt(p, r.start)
      <4>1. m \in Around(p, r.start)
        BY <3>1, Zenon DEF Around
      <4> QED
        BY <1>1, <4>1, MappingIsPublished
    <3> QED
      BY <1>5, <1>8, <3>1, Zenon DEF LooksUp
  <2>3. PendingIsTracked'
    BY <1>4, <2>1, <2>2, Zenon DEF TracedInv, PendingIsTracked, LooksUp, Key
  <2>4. TrackedWasAttempted'
    BY <2>1 DEF TracedInv, TrackedWasAttempted, Key
  <2> QED
    BY <1>3, <1>6, <2>3, <2>4 DEF TracedInv
<1> QED
  BY <1>7, <1>8

LEMMA TracedNext == TracedInv /\ [Next]_vars => TracedInv'
<1> SUFFICES ASSUME TracedInv, [Next]_vars PROVE TracedInv'
  OBVIOUS
<1>0. PublishedType
  BY DEF TracedInv
<1>1. ASSUME NEW p \in Pid, publish(p) PROVE TracedInv'
  <2>1. \A m \in mapped[p] : <<p, m.start, m.end>> \in Pid \X Nat \X Nat
    BY <1>0 DEF PublishedType
  <2>2. ProcessEntry(p) \in Pid \X Nat \X Nat
    BY DEF ProcessEntry
  <2>3. PublishedType'
    BY <1>0, <1>1, <2>1, <2>2 DEF publish, PublishedType
  <2> QED
    BY <1>1, <2>3, TracedUnchanged DEF publish
<1>2. ASSUME NEW m \in exec_mappings, unpublish(m) PROVE TracedInv'
  <2>1. PublishedType'
    BY <1>0, <1>2 DEF unpublish, PublishedType
  <2> QED
    BY <1>2, <2>1, TracedUnchanged DEF unpublish
<1>3. ASSUME NEW t \in Thread, NEW m \in Mappings[ProcessOf[t]], mmap(t, m) PROVE TracedInv'
  <2>1. ProcessOf[t] \in Pid /\ m \in [start : Nat, end : Nat, kind : {"data", "exec"}]
    BY TracersAssumption
  <2>2. PublishedType'
    BY <1>0, <1>3, <2>1 DEF mmap, PublishedType
  <2> QED
    BY <1>3, <2>2, TracedUnchanged DEF mmap
<1>4. ASSUME NEW t \in Thread, NEW r \in Unmaps[ProcessOf[t]], tracer_enter_munmap(t, r)
      PROVE  TracedInv'
  BY <1>4, EnterTraced
<1>5. ASSUME NEW t \in Thread, munmap(t) PROVE TracedInv'
  <2>1. /\ call[t].at # "user" /\ UNCHANGED <<tracked_munmap, attempts>>
        /\ \/ call' = [call EXCEPT ![t].at = "returning"]
           \/ call' = [call EXCEPT ![t].at = "returning", ![t].ret = -1]
    BY <1>5 DEF munmap
  <2>2. CallType'
    BY <2>1 DEF TracedInv, CallType
  <2>3. \A u \in Thread : /\ call'[u].room = call[u].room
                          /\ call'[u].hits = call[u].hits
                          /\ call'[u].start = call[u].start
                          /\ call'[u].at # "user" => call[u].at # "user"
    BY <2>1 DEF TracedInv, CallType
  <2>4. PendingIsTracked'
    BY <2>1, <2>3, Zenon DEF TracedInv, PendingIsTracked, LooksUp, Key
  <2>5. TrackedWasAttempted'
    BY <2>1 DEF TracedInv, TrackedWasAttempted, Key
  <2>6. PublishedType'
    <3>1. ProcessOf[t] \in Pid /\ call[t].start \in Nat /\ call[t].end \in Nat
      BY TracersAssumption DEF TracedInv, CallType
    <3>2. Unmapped(mapped[ProcessOf[t]], call[t])
              \in SUBSET [start : Nat, end : Nat, kind : {"data", "exec"}]
      BY <1>0, <3>1, PiecesAreMappings DEF PublishedType
    <3>3. exec_mappings' = exec_mappings
      BY <1>5 DEF munmap
    <3>4. \/ mapped' = mapped
          \/ mapped' = [mapped EXCEPT ![ProcessOf[t]] = Unmapped(@, call[t])]
      BY <1>5 DEF munmap
    <3> QED
      BY <1>0, <3>1, <3>2, <3>3, <3>4 DEF PublishedType
  <2> QED
    BY <2>2, <2>4, <2>5, <2>6 DEF TracedInv
<1>6. ASSUME NEW t \in Thread, tracer_exit_munmap(t) PROVE TracedInv'
  <2>1. call' = [call EXCEPT ![t] = NoCall] /\ UNCHANGED <<tracked_munmap, attempts>>
    BY <1>6 DEF tracer_exit_munmap
  <2>2. CallType'
    BY <2>1 DEF TracedInv, CallType, NoCall
  <2>3. \A u \in Thread : call'[u].at # "user" => call'[u] = call[u]
    BY <2>1 DEF TracedInv, CallType, NoCall
  <2>4. PendingIsTracked'
    BY <2>1, <2>3, Zenon DEF TracedInv, PendingIsTracked, LooksUp, Key
  <2>5. TrackedWasAttempted'
    BY <2>1 DEF TracedInv, TrackedWasAttempted, Key
  <2>6. PublishedType'
    BY <1>0, <1>6 DEF tracer_exit_munmap, PublishedType
  <2> QED
    BY <2>2, <2>4, <2>5, <2>6 DEF TracedInv
<1>7. ASSUME NEW t \in Thread, tracer_process_exit(t) PROVE TracedInv'
  BY <1>0, <1>7, TracedUnchanged DEF tracer_process_exit, PublishedType
<1>8. CASE UNCHANGED vars
  BY <1>0, <1>8, TracedUnchanged DEF vars, PublishedType
<1> QED
  BY <1>1, <1>2, <1>3, <1>4, <1>5, <1>6, <1>7, <1>8 DEF Next

LEMMA TracedAlways == Spec => []TracedInv
  BY TracedInit, TracedNext, PTL DEF Spec

\* Only the exit tracer lets a call return.
LEMMA OnlyExitReturns ==
    ASSUME TracedInv, [Next]_vars, NEW t \in Thread, Returns(t)
    PROVE  tracer_exit_munmap(t)
<1>0. call \in [Thread -> [at : {"user", "kernel", "returning"}, start : Nat, end : Nat,
                           ret : {0, -1}, hits : SUBSET (Pid \X Nat \X Nat), room : BOOLEAN]]
  BY DEF TracedInv, CallType
<1>1. call'[t].at # call[t].at /\ call'[t].at = "user"
  BY DEF Returns
<1>2. ASSUME UNCHANGED call PROVE FALSE
  BY <1>1, <1>2
<1>3. ASSUME NEW u \in Thread, NEW r \in Unmaps[ProcessOf[u]], tracer_enter_munmap(u, r)
      PROVE  FALSE
  BY <1>0, <1>1, <1>3, Zenon DEF tracer_enter_munmap
<1>4. ASSUME NEW u \in Thread, munmap(u) PROVE FALSE
  BY <1>0, <1>1, <1>4 DEF munmap
<1>5. ASSUME NEW u \in Thread, tracer_exit_munmap(u) PROVE u = t
  BY <1>0, <1>1, <1>5 DEF tracer_exit_munmap
<1> QED
  BY <1>2, <1>3, <1>4, <1>5, Zenon DEF Next, vars, publish, unpublish, mmap, tracer_process_exit

\* A successful munmap that begins inside a published mapping, and got an entry, is
\* reported with its address, for any number of threads that call munmap at the same
\* time (tracers.bpf.c:85-146).
THEOREM MunmapAlwaysReported == Spec => MunmapIsReported
<1>1. ASSUME TracedInv, [Next]_vars, NEW t \in Thread, Returns(t), call[t].room,
             NEW m \in call[t].hits, m[2] <= call[t].start
      PROVE  sent' = MunmapEvent(ProcessOf[t], call[t].start)
  <2>1. tracer_exit_munmap(t)
    BY <1>1, OnlyExitReturns
  <2>2. Key(t) \in DOMAIN tracked_munmap /\ tracked_munmap[Key(t)] = call[t].start
    BY <1>1, Zenon DEF TracedInv, PendingIsTracked, LooksUp, Returns
  <2> QED
    BY <1>1, <2>1, <2>2 DEF tracer_exit_munmap, Returns
<1>2. TracedInv /\ [Next]_vars =>
        [\A t \in Thread : Returns(t) /\ call[t].room =>
            \A m \in call[t].hits : m[2] <= call[t].start =>
                sent' = MunmapEvent(ProcessOf[t], call[t].start)]_vars
  BY <1>1, Zenon
<1> QED
  BY <1>2, TracedAlways, PTL DEF Spec, MunmapIsReported

\* A reported address is one the thread itself called munmap on while a mapping was
\* published there, in this call or an earlier one, whatever other threads do.
THEOREM ReportedAlwaysAttempted == Spec => ReportedWasAttempted
<1> DEFINE Attempted ==
        \E t \in Thread : /\ Returns(t) /\ sent'.pid = ProcessOf[t]
                          /\ <<t, sent'.start_address>> \in attempts
<1>1. ASSUME TracedInv, Next, sent'.type = "munmap" PROVE Attempted
  <2>1. NoEvent.type # "munmap" /\ \A p : ExitEvent(p).type # "munmap"
    BY DEF NoEvent, ExitEvent
  <2>2. PICK t \in Thread : tracer_exit_munmap(t)
    BY <1>1, <2>1, Zenon DEF Next, publish, unpublish, mmap, tracer_enter_munmap, munmap,
       tracer_process_exit
  <2>3. /\ Key(t) \in DOMAIN tracked_munmap /\ call[t].ret = 0
        /\ sent' = MunmapEvent(ProcessOf[t], tracked_munmap[Key(t)])
    BY <1>1, <2>1, <2>2 DEF tracer_exit_munmap
  <2>4. call'[t].at = "user" /\ call[t].at = "returning"
    BY <1>1, <2>2 DEF tracer_exit_munmap, TracedInv, CallType, NoCall
  <2>5. <<t, tracked_munmap[Key(t)]>> \in attempts
    BY <1>1, <2>3 DEF TracedInv, TrackedWasAttempted
  <2>6. sent'.pid = ProcessOf[t] /\ sent'.start_address = tracked_munmap[Key(t)]
    BY <2>3, Zenon DEF MunmapEvent
  <2> QED
    BY <2>3, <2>4, <2>5, <2>6 DEF Returns
<1>2. TracedInv /\ [Next]_vars => [sent'.type = "munmap" => Attempted]_vars
  BY <1>1, Zenon
<1> QED
  BY <1>2, TracedAlways, PTL DEF Spec, ReportedWasAttempted

-----------------------------------------------------------------------------
(***************************************************************************)
(* UnwindCache: what a fetch returns and how many files there are, for     *)
(* any directory, any crash and any sequence of fetches.                   *)
(***************************************************************************)

-----------------------------------------------------------------------------
(* Sequences.                                                              *)

LEMMA LenProperties ==
    ASSUME NEW S, NEW s \in Seq(S)
    PROVE  Len(s) \in Nat /\ s \in [1..Len(s) -> S] /\ DOMAIN s = 1..Len(s)
OBVIOUS

LEMMA ElementOfSeq ==
    ASSUME NEW S, NEW s \in Seq(S), NEW n \in 1..Len(s)
    PROVE  s[n] \in S
OBVIOUS

LEMMA AppendProperties ==
    ASSUME NEW S, NEW s \in Seq(S), NEW x \in S
    PROVE  /\ Append(s, x) \in Seq(S) /\ Append(s, x) # <<>> /\ Len(Append(s, x)) = Len(s) + 1
           /\ \A i \in 1..Len(s) : Append(s, x)[i] = s[i]
           /\ Append(s, x)[Len(s) + 1] = x
OBVIOUS

LEMMA HeadTailProperties ==
    ASSUME NEW S, NEW s \in Seq(S), s # <<>>
    PROVE  /\ Head(s) \in S /\ Tail(s) \in Seq(S) /\ Len(Tail(s)) = Len(s) - 1
           /\ \A i \in 1..Len(Tail(s)) : Tail(s)[i] = s[i + 1]
OBVIOUS

LEMMA SubSeqProperties ==
    ASSUME NEW S, NEW s, NEW m \in Int, NEW n \in Int, \A i \in m..n : s[i] \in S
    PROVE  /\ SubSeq(s, m, n) \in Seq(S) /\ Len(SubSeq(s, m, n)) = IF m <= n THEN n - m + 1 ELSE 0
           /\ \A i \in 1..n - m + 1 : SubSeq(s, m, n)[i] = s[m + i - 1]
OBVIOUS

LEMMA EmptySeq ==
    ASSUME NEW S
    PROVE  <<>> \in Seq(S) /\ Len(<<>>) = 0 /\ \A s \in Seq(S) : s # <<>> => Len(s) \in Nat \ {0}
OBVIOUS

\* Only the file that is being written is incomplete unless something was damaged.
FileInv ==
    /\ disk \in [ExecutableId -> {Absent, "empty", "partial", "valid", "corrupt", "old"}]
    /\ writing \in ExecutableId \cup {NotWriting}
    /\ ~running => writing = NotWriting
    /\ damaged \in BOOLEAN
    /\ \A e \in ExecutableId :
        /\ disk[e] = "partial" => damaged \/ writing = e
        /\ disk[e] = "corrupt" => damaged
    /\ writing \in NoUnwindInfo => disk[writing] = "empty"
    /\ FetchReturnsTable

\* Every file but those that are not counted has a use that is not yet popped, or is
\* being written, and there are at most max_cached_files uses.
UseInv ==
    /\ DOMAIN created \subseteq ExecutableId /\ IsFiniteSet(DOMAIN created)
    /\ usage_tracking \in Seq(ExecutableId)
    /\ Len(usage_tracking) <= max_cached_files
    /\ writing \in ExecutableId \cup {NotWriting}
    /\ running => DOMAIN created \ uncounted \subseteq Range(usage_tracking) \cup {writing}

-----------------------------------------------------------------------------
LEMMA FileInit == CacheInit => FileInv
<1> SUFFICES ASSUME CacheInit PROVE FileInv
    OBVIOUS
<1>1. /\ disk \in [ExecutableId -> {Absent, "empty", "partial", "valid", "corrupt", "old"}]
      /\ \A e \in ExecutableId : disk[e] # "partial" /\ disk[e] # "corrupt"
    BY DEF CacheInit, Absent
<1>2. writing = NotWriting /\ damaged = FALSE /\ fetched.unwind_info = "none"
    BY DEF CacheInit, NoFetch
<1> QED
    BY <1>1, <1>2, UnwindCacheAssumption, NotWritingAssumption, Zenon DEF FileInv, FetchReturnsTable

LEMMA FileNext == FileInv /\ [CacheNext]_cacheVars => FileInv'
<1> SUFFICES ASSUME FileInv, [CacheNext]_cacheVars PROVE FileInv'
    OBVIOUS
<1> USE UnwindCacheAssumption, NotWritingAssumption DEF FileInv, FetchReturnsTable, NoFetch
<1>1. ASSUME NEW e \in ExecutableId, NEW check_digest \in BOOLEAN, read_from_cache(e, check_digest)
      PROVE  FileInv'
    <2>1. /\ fetched'.check_digest = check_digest
          /\ fetched'.unwind_info = IF disk[e] = "partial" THEN "empty" ELSE disk[e]
          /\ writing = NotWriting /\ ReadsOk(disk[e], check_digest)
          /\ UNCHANGED <<disk, writing, running, damaged>>
        BY <1>1 DEF read_from_cache
    <2>2. disk[e] = "valid" \/ (damaged /\ ~check_digest)
        BY <2>1 DEF ReadsOk
    <2> QED
        BY <2>1, <2>2
<1>2. ASSUME NEW e \in ExecutableId, NEW check_digest \in BOOLEAN, write_to_cache(e, check_digest)
      PROVE  FileInv'
    BY <1>2 DEF write_to_cache
<1>3. CASE read_unwind_info_fails
    BY <1>3 DEF read_unwind_info_fails
<1>4. CASE write_unwind_info
    BY <1>4 DEF write_unwind_info
<1>5. ASSUME NEW flushed \in BOOLEAN, write_header(flushed)
      PROVE  FileInv'
    <2> DEFINE evicted == maybe_evict(Append(usage_tracking, writing))
               written == IF flushed THEN "valid" ELSE "partial"
    <2>1. /\ writing \in ExecutableId /\ writing' = NotWriting /\ running' = running
          /\ damaged' = (damaged \/ ~flushed)
          /\ fetched'.unwind_info = "valid"
          /\ disk' = RemoveFiles(evicted, [disk EXCEPT ![writing] = written])
        BY <1>5 DEF write_header
    <2>2. written \in {"valid", "partial"} /\ (written = "partial" => ~flushed)
        OBVIOUS
    <2> HIDE DEF evicted, written
    <2>3. /\ disk' \in [ExecutableId -> {Absent, "empty", "partial", "valid", "corrupt", "old"}]
          /\ \A e \in ExecutableId :
                disk'[e] \in {Absent, IF e = writing THEN written ELSE disk[e]}
        BY <2>1, <2>2 DEF RemoveFiles
    <2>4. ASSUME NEW e \in ExecutableId
          PROVE  /\ disk'[e] = "partial" => ~flushed \/ (e # writing /\ disk[e] = "partial")
                 /\ disk'[e] = "corrupt" => e # writing /\ disk[e] = "corrupt"
        <3>1. CASE e = writing
            BY <2>2, <2>3, <3>1 DEF Absent
        <3>2. CASE e # writing
            BY <2>3, <3>2 DEF Absent
        <3> QED
            BY <3>1, <3>2
    <2>5. damaged' \in BOOLEAN /\ (damaged => damaged') /\ (~flushed => damaged')
        BY <2>1, Zenon
    <2> QED
        BY <2>1, <2>3, <2>4, <2>5, Zenon
<1>6. ASSUME NEW listed, new(listed)
      PROVE  FileInv'
    <2>1. PICK evicted : disk' = RemoveFiles(evicted, disk)
        BY <1>6, Zenon DEF new
    <2>2. ~running /\ running' /\ UNCHANGED <<writing, fetched, damaged>>
        BY <1>6, Zenon DEF new
    <2>3. /\ disk' \in [ExecutableId -> {Absent, "empty", "partial", "valid", "corrupt", "old"}]
          /\ \A e \in ExecutableId : disk'[e] \in {Absent, disk[e]}
        BY <2>1 DEF RemoveFiles
    <2>4. \A e \in ExecutableId : disk'[e] \in {"partial", "corrupt"} => disk'[e] = disk[e]
        BY <2>3 DEF Absent
    <2>5. writing \notin NoUnwindInfo
        BY <2>2
    <2> QED
        BY <2>2, <2>3, <2>4, <2>5
<1>7. CASE Crash
    BY <1>7, Zenon DEF Crash
<1>8. ASSUME NEW e \in ExecutableId, Corrupt(e)
      PROVE  FileInv'
    BY <1>8 DEF Corrupt
<1>9. ASSUME NEW e \in ExecutableId, NEW check_digest \in BOOLEAN, create_fails(e, check_digest)
      PROVE  FileInv'
    BY <1>9 DEF create_fails
<1>10. CASE write_fails
    <2>1. /\ writing \in ExecutableId /\ writing' = NotWriting /\ UNCHANGED <<disk, running>>
          /\ fetched'.unwind_info = "none"
          /\ damaged' = (damaged \/ disk[writing] = "partial")
        BY <1>10 DEF write_fails
    <2>2. damaged' \in BOOLEAN /\ (damaged => damaged') /\ (disk[writing] = "partial" => damaged')
        BY <2>1, Zenon
    <2> QED
        BY <2>1, <2>2, Zenon
<1>11. CASE UNCHANGED cacheVars
    BY <1>11 DEF cacheVars
<1> QED
    BY <1>1, <1>2, <1>3, <1>4, <1>5, <1>6, <1>7, <1>8, <1>9, <1>10, <1>11, Zenon DEF CacheNext

\* What a fetch that checks the digest returns is the executable's table, and what any
\* fetch returns is, as long as no crash, no failed write and no disk has damaged a
\* file: after any number of fetches, failures, restarts and evictions (manager.rs:80-140,
\* persist.rs:66-122, 151-222).
THEOREM FetchAlwaysReturnsTable == CacheSpec => []FetchReturnsTable
<1>1. FileInv => FetchReturnsTable
    BY DEF FileInv
<1> QED
    BY <1>1, FileInit, FileNext, PTL DEF CacheSpec

-----------------------------------------------------------------------------
LEMMA NewestOf ==
    ASSUME NEW S, NEW s \in Seq(S), NEW n \in Nat
    PROVE  Newest(s, n) \in Seq(S) /\ Len(Newest(s, n)) <= n
<1>1. Len(s) \in Nat
    BY LenProperties
<1>2. CASE Len(s) <= n
    BY <1>1, <1>2 DEF Newest
<1>3. CASE Len(s) > n
    <2> DEFINE m == Len(s) - n + 1
    <2>1. Newest(s, n) = SubSeq(s, m, Len(s)) /\ m \in 1..(Len(s) + 1) /\ Len(s) - m + 1 = n
        BY <1>1, <1>3 DEF Newest
    <2> HIDE DEF m
    <2>2. SubSeq(s, m, Len(s)) \in Seq(S) /\ Len(SubSeq(s, m, Len(s))) = n
        <3>1. \A k \in m..Len(s) : s[k] \in S
            BY <1>1, <2>1, ElementOfSeq
        <3>2. SubSeq(s, m, Len(s)) \in Seq(S)
            BY <1>1, <2>1, <3>1, SubSeqProperties
        <3>3. Len(SubSeq(s, m, Len(s))) = IF m <= Len(s) THEN Len(s) - m + 1 ELSE 0
            BY <1>1, <2>1, <3>1, SubSeqProperties
        <3> QED
            BY <1>1, <2>1, <3>2, <3>3
    <2> QED
        BY <2>1, <2>2
<1> QED
    BY <1>1, <1>2, <1>3

\* An element that is not the first is in the tail.
LEMMA TailRange ==
    ASSUME NEW S, NEW s \in Seq(S), s # <<>>
    PROVE  Range(s) \subseteq Range(Tail(s)) \cup {Head(s)}
<1> SUFFICES ASSUME NEW x \in Range(s), x # Head(s) PROVE x \in Range(Tail(s))
    OBVIOUS
<1>1. PICK k \in DOMAIN s : s[k] = x
    BY DEF Range
<1>2. /\ Len(s) \in Nat /\ DOMAIN s = 1..Len(s) /\ Head(s) = s[1]
      /\ DOMAIN Tail(s) = 1..(Len(s) - 1) /\ \A j \in 1..(Len(s) - 1) : Tail(s)[j] = s[j + 1]
    BY HeadTailProperties, LenProperties, EmptySeq
<1>3. k - 1 \in DOMAIN Tail(s) /\ Tail(s)[k - 1] = x
    BY <1>1, <1>2
<1> QED
    BY <1>3 DEF Range

LEMMA AppendRange ==
    ASSUME NEW S, NEW s \in Seq(S), NEW x \in S
    PROVE  Range(Append(s, x)) = Range(s) \cup {x}
<1>1. /\ Len(s) \in Nat /\ DOMAIN s = 1..Len(s) /\ DOMAIN Append(s, x) = 1..(Len(s) + 1)
      /\ \A j \in 1..Len(s) : Append(s, x)[j] = s[j]
      /\ Append(s, x)[Len(s) + 1] = x
    BY AppendProperties, LenProperties
<1> HIDE DEF Range
<1>2. ASSUME NEW y \in Range(s) \cup {x} PROVE y \in Range(Append(s, x))
    BY <1>1 DEF Range
<1>3. ASSUME NEW y \in Range(Append(s, x)) PROVE y \in Range(s) \cup {x}
    <2>1. PICK k \in 1..(Len(s) + 1) : Append(s, x)[k] = y
        BY <1>1 DEF Range
    <2>2. CASE k = Len(s) + 1
        BY <1>1, <2>1, <2>2
    <2>3. CASE k \in 1..Len(s)
        BY <1>1, <2>1, <2>3 DEF Range
    <2> QED
        BY <1>1, <2>1, <2>2, <2>3
<1> QED
    BY <1>2, <1>3

LEMMA UseInit == CacheInit => UseInv
<1> SUFFICES ASSUME CacheInit PROVE UseInv
    OBVIOUS
<1>1. DOMAIN created = OldFiles
    BY DEF CacheInit, Bijection, Injection
<1>2. usage_tracking = <<>> /\ <<>> \in Seq(ExecutableId) /\ Len(<<>>) = 0
    BY EmptySeq DEF CacheInit
<1>3. writing = NotWriting /\ ~running
    BY DEF CacheInit
<1> QED
    BY <1>1, <1>2, <1>3, UnwindCacheAssumption DEF UseInv

LEMMA HeaderKeepsUse == ASSUME UseInv, NEW flushed, write_header(flushed) PROVE UseInv'
<1> DEFINE uses == Append(usage_tracking, writing)
           evicted == maybe_evict(uses)
<1>1. /\ writing \in ExecutableId /\ writing' = NotWriting /\ running' = running
      /\ usage_tracking' = LatestUses(uses)
      /\ created' = Drop(created, evicted)
      /\ uncounted' = uncounted \ (evicted \cup {writing})
    BY DEF write_header
<1>2. /\ uses \in Seq(ExecutableId) /\ uses # <<>>
      /\ Len(uses) = Len(usage_tracking) + 1 /\ Len(usage_tracking) \in Nat
    <2>1. usage_tracking \in Seq(ExecutableId)
        BY DEF UseInv
    <2> HIDE DEF evicted
    <2> QED
        BY ONLY <1>1, <2>1, AppendProperties, LenProperties
<1>3. Range(uses) = Range(usage_tracking) \cup {writing}
    BY <1>1, AppendRange DEF UseInv
<1> HIDE DEF uses
<1>4. /\ usage_tracking' \in Seq(ExecutableId)
      /\ Len(usage_tracking') <= max_cached_files
      /\ Range(uses) \subseteq Range(usage_tracking') \cup evicted
    <2>1. CASE Len(uses) > max_cached_files
        <3>1. usage_tracking' = Tail(uses) /\ evicted = {Head(uses)}
            BY <1>1, <2>1 DEF LatestUses, maybe_evict
        <3>2. Tail(uses) \in Seq(ExecutableId) /\ Len(Tail(uses)) = Len(uses) - 1
            BY <1>2, HeadTailProperties
        <3>3. Range(uses) \subseteq Range(Tail(uses)) \cup {Head(uses)}
            BY <1>2, TailRange
        <3>4. Len(Tail(uses)) <= max_cached_files
            BY <1>2, <3>2, UnwindCacheAssumption DEF UseInv
        <3> QED
            BY <3>1, <3>2, <3>3, <3>4
    <2>2. CASE ~(Len(uses) > max_cached_files)
        BY <1>1, <1>2, <2>2, UnwindCacheAssumption DEF LatestUses, UseInv
    <2> QED
        BY <2>1, <2>2
<1> HIDE DEF evicted
<1>5. DOMAIN created' = DOMAIN created \ evicted
    BY <1>1 DEF Drop
<1>6. IsFiniteSet(DOMAIN created')
    BY <1>5, FS_Subset DEF UseInv
<1>7. running => DOMAIN created' \ uncounted' \subseteq Range(usage_tracking')
    BY <1>1, <1>3, <1>4, <1>5 DEF UseInv
<1> QED
    BY <1>1, <1>4, <1>5, <1>6, <1>7, Zenon DEF UseInv

LEMMA NewKeepsUse ==
    ASSUME UseInv, NEW listed \in SUBSET DOMAIN created, new(listed)
    PROVE  UseInv'
<1>1. PICK files \in ByAge(listed) :
        /\ usage_tracking' = Newest(files, max_cached_files)
        /\ created' = Drop(created, listed \ Range(usage_tracking'))
    BY DEF new
<1>2. running' /\ writing' = writing /\ uncounted' = DOMAIN created \ listed
    BY DEF new
<1>3. files \in Seq(ExecutableId)
    <2>1. IsFiniteSet(listed) /\ listed \subseteq ExecutableId
        BY FS_Subset DEF UseInv
    <2>2. Cardinality(listed) \in Nat
        BY <2>1, FS_CardinalityType
    <2>3. files \in [1..Cardinality(listed) -> listed]
        BY <1>1 DEF ByAge, Bijection, Injection
    <2> QED
        BY <2>1, <2>2, <2>3 DEF Seq
<1>4. usage_tracking' \in Seq(ExecutableId) /\ Len(usage_tracking') <= max_cached_files
    BY <1>1, <1>3, NewestOf, UnwindCacheAssumption
<1>5. DOMAIN created' = DOMAIN created \ (listed \ Range(usage_tracking'))
    BY <1>1 DEF Drop
<1>6. IsFiniteSet(DOMAIN created')
    BY <1>5, FS_Subset DEF UseInv
<1>7. DOMAIN created' \ uncounted' \subseteq Range(usage_tracking')
    BY <1>2, <1>5
<1> QED
    BY <1>2, <1>4, <1>5, <1>6, <1>7, Zenon DEF UseInv

LEMMA UseNext == UseInv /\ [CacheNext]_cacheVars => UseInv'
<1> SUFFICES ASSUME UseInv, [CacheNext]_cacheVars PROVE UseInv'
    OBVIOUS
<1>1. ASSUME NEW e \in ExecutableId, NEW check_digest \in BOOLEAN, read_from_cache(e, check_digest)
      PROVE  UseInv'
    BY <1>1, Zenon DEF read_from_cache, UseInv
<1>2. ASSUME NEW e \in ExecutableId, NEW check_digest \in BOOLEAN, write_to_cache(e, check_digest)
      PROVE  UseInv'
    <2>1. /\ created' = Created(e) /\ writing = NotWriting /\ writing' = e
          /\ UNCHANGED <<usage_tracking, running, uncounted>>
        BY <1>2 DEF write_to_cache
    <2>2. DOMAIN created' = DOMAIN created \cup {e} \/ created' = created
        BY <2>1 DEF Created, Stamp
    <2>3. IsFiniteSet(DOMAIN created')
        BY <2>2, FS_AddElement DEF UseInv
    <2>4. running => DOMAIN created' \ uncounted' \subseteq Range(usage_tracking') \cup {writing'}
        BY <2>1, <2>2, NotWritingAssumption DEF UseInv
    <2> QED
        BY <2>1, <2>2, <2>3, <2>4 DEF UseInv
<1>3. CASE read_unwind_info_fails
    <2>1. /\ uncounted' = uncounted \cup ({writing} \ Range(usage_tracking)) /\ writing' = NotWriting
          /\ UNCHANGED <<created, usage_tracking, running>>
        BY <1>3 DEF read_unwind_info_fails
    <2> QED
        BY <2>1 DEF UseInv
<1>4. CASE write_unwind_info
    BY <1>4 DEF write_unwind_info, UseInv
<1>5. ASSUME NEW flushed \in BOOLEAN, write_header(flushed)
      PROVE  UseInv'
    BY <1>5, HeaderKeepsUse
<1>6. ASSUME NEW listed \in SUBSET DOMAIN created, new(listed)
      PROVE  UseInv'
    BY <1>6, NewKeepsUse
<1>7. CASE Crash
    BY <1>7, EmptySeq, UnwindCacheAssumption DEF Crash, UseInv
<1>8. ASSUME NEW e \in ExecutableId, Corrupt(e)
      PROVE  UseInv'
    BY <1>8 DEF Corrupt, UseInv
<1>9. ASSUME NEW e \in ExecutableId, NEW check_digest \in BOOLEAN, create_fails(e, check_digest)
      PROVE  UseInv'
    BY <1>9, Zenon DEF create_fails, UseInv
<1>10. CASE write_fails
    <2>1. /\ uncounted' = uncounted \cup ({writing} \ Range(usage_tracking)) /\ writing' = NotWriting
          /\ UNCHANGED <<created, usage_tracking, running>>
        BY <1>10 DEF write_fails
    <2> QED
        BY <2>1 DEF UseInv
<1>11. CASE UNCHANGED cacheVars
    BY <1>11 DEF cacheVars, UseInv
<1> QED
    BY <1>1, <1>2, <1>3, <1>4, <1>5, <1>6, <1>7, <1>8, <1>9, <1>10, <1>11, Zenon DEF CacheNext

\* A sequence has at most as many elements as it is long.
LEMMA RangeBound ==
    ASSUME NEW S, NEW s \in Seq(S)
    PROVE  IsFiniteSet(Range(s)) /\ Cardinality(Range(s)) <= Len(s)
<1>1. Len(s) \in Nat /\ DOMAIN s = 1..Len(s) /\ s = [i \in 1..Len(s) |-> s[i]]
    BY LenProperties
<1>2. IsFiniteSet(1..Len(s)) /\ Cardinality(1..Len(s)) = Len(s)
    <2>1. ASSUME NEW n \in Nat PROVE IsFiniteSet(1..n) /\ Cardinality(1..n) = n
        BY FS_Interval
    <2> QED
        BY <1>1, <2>1, Zenon
<1>3. s \in Surjection(1..Len(s), Range(s))
    BY <1>1 DEF Surjection, Range
<1> QED
    BY <1>2, <1>3, FS_Surjection

\* Between fetches there are never more files than max_cached_files, besides those that
\* no use was counted for: whatever was in the directory, however often the program
\* crashes or fails in the middle of a write and whatever the listing passes over (manager.rs:
\* 56-57, 93-99, 146-178).
THEOREM CacheAlwaysBounded == CacheSpec => []CacheBounded
<1>1. UseInv => CacheBounded
    <2> SUFFICES ASSUME UseInv, running, writing = NotWriting
                 PROVE  Cardinality(DOMAIN created \ uncounted) <= max_cached_files
        BY DEF CacheBounded
    <2> DEFINE files == DOMAIN created \ uncounted
               used == Range(usage_tracking)
    <2>1. files \in SUBSET used
        BY NotWritingAssumption DEF UseInv
    <2>2. IsFiniteSet(used) /\ Cardinality(used) <= Len(usage_tracking)
        BY RangeBound DEF UseInv
    <2>3. Len(usage_tracking) \in Nat /\ Len(usage_tracking) <= max_cached_files
        BY LenProperties DEF UseInv
    <2> HIDE DEF files, used
    <2>4. Cardinality(files) <= Cardinality(used)
        BY <2>1, <2>2, FS_Subset
    <2>5. Cardinality(files) \in Nat /\ Cardinality(used) \in Nat
        BY <2>1, <2>2, FS_Subset, FS_CardinalityType
    <2>6. Cardinality(files) <= max_cached_files
        BY <2>2, <2>3, <2>4, <2>5, UnwindCacheAssumption
    <2> QED
        BY <2>6 DEF files
<1> QED
    BY <1>1, UseInit, UseNext, PTL DEF CacheSpec
=============================================================================
