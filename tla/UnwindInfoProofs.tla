-------------------------- MODULE UnwindInfoProofs ---------------------------
(***************************************************************************)
(* The unwinder unwinds as the functions of an executable say, whatever    *)
(* functions it has: the rows are collected, and the two passes that       *)
(* compact them keep what they say of every address, by induction over the *)
(* rows; the lookup in the table they make is that of UnwindTableProofs.   *)
(***************************************************************************)
EXTENDS UnwindInfo, UnwindTableProofs, FiniteSetTheorems, WellFoundedInduction, TLAPS

-----------------------------------------------------------------------------
(* Sequences.                                                              *)

LEMMA LenProperties ==
    ASSUME NEW S, NEW s \in Seq(S)
    PROVE  Len(s) \in Nat /\ s \in [1..Len(s) -> S] /\ DOMAIN s = 1..Len(s)
OBVIOUS

LEMMA AppendProperties ==
    ASSUME NEW S, NEW s \in Seq(S), NEW x \in S
    PROVE  /\ Append(s, x) \in Seq(S) /\ Append(s, x) # <<>> /\ Len(Append(s, x)) = Len(s) + 1
           /\ \A k \in 1..Len(s) : Append(s, x)[k] = s[k]
           /\ Append(s, x)[Len(s) + 1] = x
OBVIOUS

LEMMA ConcatProperties ==
    ASSUME NEW S, NEW s \in Seq(S), NEW t \in Seq(S)
    PROVE  /\ s \o t \in Seq(S) /\ Len(s \o t) = Len(s) + Len(t)
           /\ \A k \in 1..Len(s) + Len(t) : (s \o t)[k] = IF k <= Len(s) THEN s[k] ELSE t[k - Len(s)]
OBVIOUS

LEMMA AppendIsConcat ==
    ASSUME NEW S, NEW s \in Seq(S), NEW x \in S
    PROVE  Append(s, x) = s \o <<x>>
OBVIOUS

LEMMA ConcatEmpty ==
    ASSUME NEW S, NEW s \in Seq(S)
    PROVE  s \o <<>> = s /\ <<>> \o s = s
OBVIOUS

LEMMA SubSeqProperties ==
    ASSUME NEW S, NEW s, NEW m \in Int, NEW n \in Int, \A k \in m..n : s[k] \in S
    PROVE  /\ SubSeq(s, m, n) \in Seq(S) /\ Len(SubSeq(s, m, n)) = IF m <= n THEN n - m + 1 ELSE 0
           /\ \A k \in 1..n - m + 1 : SubSeq(s, m, n)[k] = s[m + k - 1]
OBVIOUS

LEMMA SubSeqFull ==
    ASSUME NEW S, NEW s \in Seq(S)
    PROVE  SubSeq(s, 1, Len(s)) = s
OBVIOUS

LEMMA SubSeqEmpty ==
    ASSUME NEW s, NEW m \in Int, NEW n \in Int, n < m
    PROVE  SubSeq(s, m, n) = <<>>
OBVIOUS

LEMMA SubSeqRecursiveSecond ==
    ASSUME NEW S, NEW s \in Seq(S), NEW m \in 1..Len(s), NEW n \in m..Len(s)
    PROVE  SubSeq(s, m, n) = SubSeq(s, m, n - 1) \o <<s[n]>>
OBVIOUS

LEMMA EmptySeq ==
    ASSUME NEW S
    PROVE  <<>> \in Seq(S) /\ Len(<<>>) = 0 /\ \A s \in Seq(S) : s # <<>> => Len(s) \in Nat \ {0}
OBVIOUS

LEMMA IsASeq ==
  ASSUME NEW n \in Nat, NEW e(_), NEW S, \A k \in 1..n : e(k) \in S
  PROVE  [k \in 1..n |-> e(k)] \in Seq(S)
OBVIOUS

-----------------------------------------------------------------------------
(* Induction.  A set of numbers that is not empty has a least element.     *)

LEMMA LeastNumber ==
    ASSUME NEW T \in SUBSET Nat, T # {}
    PROVE  \E x \in T : \A y \in T : x <= y
<1> DEFINE R == OpToRel(<, Nat)
<1>1. IsWellFoundedOn(R, Nat)
    BY NatLessThanWellFounded, Zenon
<1>2. \A x, y \in Nat : <<y, x>> \in R <=> y < x
    BY DEF OpToRel
<1> HIDE DEF R
<1>3. PICK x \in T : \A y \in T : ~(<<y, x>> \in R)
    BY <1>1, WFMin, Zenon
<1>4. \A y \in T : x <= y
    <2> TAKE y \in T
    <2>1. x \in Nat /\ y \in Nat /\ ~(y < x)
        BY <1>2, <1>3, Zenon
    <2> QED
        BY <2>1
<1> QED
    BY <1>4

LEMMA Induction ==
    ASSUME NEW n \in Nat, NEW G, 0 \in G, \A k \in 1..n : k - 1 \in G => k \in G
    PROVE  \A k \in 0..n : k \in G
<1> DEFINE T == {k \in 0..n : k \notin G}
<1> SUFFICES ASSUME T # {} PROVE FALSE
    OBVIOUS
<1>1. PICK x \in T : \A y \in T : x <= y
    <2>1. T \in SUBSET Nat
        OBVIOUS
    <2> HIDE DEF T
    <2> QED
        BY <2>1, LeastNumber
<1>2. x \in 1..n /\ x - 1 \in 0..n
    OBVIOUS
<1>3. x - 1 \notin T
    BY <1>1, <1>2
<1> QED
    BY <1>2, <1>3

LEMMA Greatest ==
    ASSUME NEW n \in Nat, NEW T \in SUBSET (1..n), T # {}
    PROVE  \E x \in T : \A y \in T : y <= x
<1> DEFINE D == {n - x : x \in T}
<1>1. D \in SUBSET Nat /\ D # {}
    <2>1. \A x \in T : n - x \in Nat
        OBVIOUS
    <2> QED
        BY <2>1, Zenon
<1>2. PICK d \in D : \A e \in D : d <= e
    BY <1>1, LeastNumber, Zenon
<1>3. PICK x \in T : d = n - x
    OBVIOUS
<1>4. ASSUME NEW y \in T PROVE y <= x
    <2>1. n - x <= n - y
        BY <1>2, <1>3, Zenon
    <2> QED
        BY <2>1
<1> QED
    BY <1>4

\* f is defined by recursion on 0..n: from a, with the step F.
Unfolds(f, n, S, a, F) ==
    f \in [0..n -> S] /\ f[0] = a /\ \A k \in 1..n : f[k] = F[<<k, f[k - 1]>>]

\* A function defined by recursion on an interval exists.
LEMMA Recursion ==
    ASSUME NEW n \in Nat, NEW S, NEW a \in S, NEW F \in [(1..n) \X S -> S]
    PROVE  \E f : Unfolds(f, n, S, a, F)
<1> DEFINE Upto(m) == \E f \in [0..m -> S] : f[0] = a /\ \A k \in 1..m : f[k] = F[<<k, f[k - 1]>>]
           G == {m \in 0..n : Upto(m)}
<1>1. 0 \in G
    <2> DEFINE g == [k \in 0..0 |-> a]
    <2>1. g \in [0..0 -> S] /\ g[0] = a /\ \A k \in 1..0 : g[k] = F[<<k, g[k - 1]>>]
        OBVIOUS
    <2> HIDE DEF g
    <2> QED
        BY <2>1
<1>2. ASSUME NEW m \in 1..n, m - 1 \in G PROVE m \in G
    <2>1. PICK f \in [0..m - 1 -> S] : f[0] = a /\ \A k \in 1..m - 1 : f[k] = F[<<k, f[k - 1]>>]
        BY <1>2
    <2> DEFINE g == [k \in 0..m |-> IF k < m THEN f[k] ELSE F[<<m, f[m - 1]>>]]
    <2>2. F[<<m, f[m - 1]>>] \in S
        OBVIOUS
    <2>3. g \in [0..m -> S] /\ g[0] = a
        BY <2>1, <2>2
    <2>4. ASSUME NEW k \in 1..m PROVE g[k] = F[<<k, g[k - 1]>>]
        <3>1. k - 1 < m /\ k - 1 \in 0..m /\ k \in 0..m
            OBVIOUS
        <3>2. g[k - 1] = f[k - 1]
            BY <3>1
        <3>3. CASE k < m
            BY <2>1, <3>1, <3>2, <3>3
        <3>4. CASE k = m
            BY <3>1, <3>2, <3>4
        <3> QED
            BY <3>3, <3>4
    <2> HIDE DEF g
    <2> QED
        BY <2>3, <2>4
<1> HIDE DEF G
<1>3. n \in G
    BY <1>1, <1>2, Induction
<1> QED
    BY <1>3 DEF G, Unfolds

-----------------------------------------------------------------------------
(* What rows say of an address, RuleAt, as rows are added.                 *)

TableRow == [pc : Nat, rule : Rule \cup {EndFdeMarker}]

LEMMA RuleAtLast ==
    ASSUME NEW s \in Seq(TableRow), NEW a \in Nat, NEW k \in DOMAIN s, s[k].pc <= a,
           \A j \in DOMAIN s : s[j].pc <= a => j <= k
    PROVE  RuleAt(s, a) = s[k].rule
<1> DEFINE below == {j \in DOMAIN s : s[j].pc <= a}
<1>1. DOMAIN s = 1..Len(s) /\ Len(s) \in Nat
    BY LenProperties
<1>2. k \in below /\ \A j \in below : j <= k
    OBVIOUS
<1>3. (CHOOSE m \in below : \A j \in below : j <= m) = k
    <2>1. ASSUME NEW m \in below, \A j \in below : j <= m PROVE m = k
        <3>1. m <= k /\ k <= m /\ m \in Nat /\ k \in Nat
            BY <1>1, <1>2, <2>1
        <3> QED
            BY <3>1
    <2> HIDE DEF below
    <2> QED
        BY <1>2, <2>1
<1> QED
    BY <1>2, <1>3 DEF RuleAt

LEMMA RuleAtNone ==
    ASSUME NEW s, NEW a, \A j \in DOMAIN s : ~(s[j].pc <= a)
    PROVE  RuleAt(s, a) = NoRow
BY DEF RuleAt

LEMMA LastBelow ==
    ASSUME NEW s \in Seq(TableRow), NEW a \in Nat, NEW m \in DOMAIN s, s[m].pc <= a
    PROVE  \E k \in DOMAIN s : s[k].pc <= a /\ \A j \in DOMAIN s : s[j].pc <= a => j <= k
<1> DEFINE below == {j \in 1..Len(s) : s[j].pc <= a}
<1>1. DOMAIN s = 1..Len(s) /\ Len(s) \in Nat
    BY LenProperties
<1>2. below \in SUBSET (1..Len(s)) /\ below # {}
    BY <1>1
<1>3. PICK k \in below : \A j \in below : j <= k
    <2> HIDE DEF below
    <2> QED
        BY <1>1, <1>2, Greatest, Zenon
<1> QED
    BY <1>1, <1>3, Zenon

LEMMA RuleAtConcat ==
    ASSUME NEW s \in Seq(TableRow), NEW t \in Seq(TableRow), NEW a \in Nat
    PROVE  RuleAt(s \o t, a) = IF \E k \in DOMAIN t : t[k].pc <= a THEN RuleAt(t, a) ELSE RuleAt(s, a)
<1> DEFINE u == s \o t
<1>1. /\ Len(s) \in Nat /\ Len(t) \in Nat /\ DOMAIN s = 1..Len(s) /\ DOMAIN t = 1..Len(t)
      /\ u \in Seq(TableRow) /\ DOMAIN u = 1..Len(s) + Len(t)
      /\ \A j \in DOMAIN s : j \in DOMAIN u /\ u[j] = s[j]
      /\ \A j \in DOMAIN t : Len(s) + j \in DOMAIN u /\ u[Len(s) + j] = t[j]
    BY ConcatProperties, LenProperties
<1>2. \A j \in DOMAIN u : j \in DOMAIN s \/ \E m \in DOMAIN t : j = Len(s) + m
    <2> TAKE j \in DOMAIN u
    <2>1. CASE j <= Len(s)
        BY <1>1, <2>1
    <2>2. CASE j > Len(s)
        <3>1. j - Len(s) \in DOMAIN t /\ j = Len(s) + (j - Len(s))
            BY <1>1, <2>2
        <3> QED
            BY <3>1
    <2> QED
        BY <1>1, <2>1, <2>2
<1> HIDE DEF u
<1>3. CASE \E k \in DOMAIN t : t[k].pc <= a
    <2>1. PICK k \in DOMAIN t : t[k].pc <= a /\ \A j \in DOMAIN t : t[j].pc <= a => j <= k
        BY <1>3, LastBelow, Zenon
    <2>2. RuleAt(t, a) = t[k].rule
        BY <2>1, RuleAtLast
    <2>3. ASSUME NEW j \in DOMAIN u, u[j].pc <= a PROVE j <= Len(s) + k
        <3>1. CASE j \in DOMAIN s
            BY <1>1, <3>1
        <3>2. ASSUME NEW m \in DOMAIN t, j = Len(s) + m PROVE j <= Len(s) + k
            <4>1. m <= k /\ m \in Nat /\ k \in Nat
                BY <1>1, <2>1, <2>3, <3>2
            <4> QED
                BY <1>1, <3>2, <4>1
        <3> QED
            BY <1>2, <3>1, <3>2
    <2>4. Len(s) + k \in DOMAIN u /\ u[Len(s) + k] = t[k]
        BY <1>1
    <2>5. RuleAt(u, a) = t[k].rule
        <3>1. RuleAt(u, a) = u[Len(s) + k].rule
            BY <1>1, <2>1, <2>3, <2>4, RuleAtLast, Zenon
        <3> QED
            BY <2>4, <3>1, Zenon
    <2> QED
        BY <1>3, <2>2, <2>5 DEF u
<1>4. CASE ~\E k \in DOMAIN t : t[k].pc <= a
    <2>1. ASSUME NEW j \in DOMAIN u, u[j].pc <= a PROVE j \in DOMAIN s /\ s[j].pc <= a
        BY <1>1, <1>2, <1>4, <2>1, Zenon
    <2>2. CASE \E j \in DOMAIN s : s[j].pc <= a
        <3>1. PICK k \in DOMAIN s : s[k].pc <= a /\ \A j \in DOMAIN s : s[j].pc <= a => j <= k
            BY <2>2, LastBelow
        <3>2. RuleAt(s, a) = s[k].rule
            BY <3>1, RuleAtLast
        <3>3. RuleAt(u, a) = s[k].rule
            <4>1. k \in DOMAIN u /\ u[k] = s[k] /\ \A j \in DOMAIN u : u[j].pc <= a => j <= k
                BY <1>1, <2>1, <3>1
            <4>2. RuleAt(u, a) = u[k].rule
                BY <1>1, <3>1, <4>1, RuleAtLast, Zenon
            <4> QED
                BY <4>1, <4>2, Zenon
        <3> QED
            BY <1>4, <3>2, <3>3 DEF u
    <2>3. CASE ~\E j \in DOMAIN s : s[j].pc <= a
        <3>1. RuleAt(s, a) = NoRow /\ RuleAt(u, a) = NoRow
            BY <2>1, <2>3, RuleAtNone
        <3> QED
            BY <1>4, <3>1 DEF u
    <2> QED
        BY <2>2, <2>3
<1> QED
    BY <1>3, <1>4

LEMMA RuleAtAppend ==
    ASSUME NEW s \in Seq(TableRow), NEW r \in TableRow, NEW a \in Nat
    PROVE  RuleAt(Append(s, r), a) = IF r.pc <= a THEN r.rule ELSE RuleAt(s, a)
<1> DEFINE t == <<r>>
<1>1. t \in Seq(TableRow) /\ DOMAIN t = {1} /\ t[1] = r /\ Append(s, r) = s \o t
    BY AppendIsConcat
<1>2. r.pc <= a => RuleAt(t, a) = r.rule
    <2> HIDE DEF t
    <2>1. ASSUME r.pc <= a PROVE RuleAt(t, a) = t[1].rule
        <3>1. \A j \in DOMAIN t : t[j].pc <= a => j <= 1
            BY <1>1
        <3> QED
            BY <1>1, <2>1, <3>1, RuleAtLast
    <2> QED
        BY <1>1, <2>1
<1> HIDE DEF t
<1>3. RuleAt(s \o t, a) = IF \E k \in DOMAIN t : t[k].pc <= a THEN RuleAt(t, a) ELSE RuleAt(s, a)
    BY <1>1, RuleAtConcat
<1> QED
    BY <1>1, <1>2, <1>3

Increasing(s) == \A k \in 2..Len(s) : s[k - 1].pc < s[k].pc

LEMMA IncreasingAppend ==
    ASSUME NEW s \in Seq(TableRow), NEW r \in TableRow, Increasing(s),
           s # <<>> => s[Len(s)].pc < r.pc
    PROVE  Increasing(Append(s, r))
<1> DEFINE t == Append(s, r)
<1>1. /\ Len(s) \in Nat /\ Len(t) = Len(s) + 1 /\ t[Len(s) + 1] = r
      /\ \A k \in 1..Len(s) : t[k] = s[k]
    BY AppendProperties, LenProperties
<1>2. ASSUME NEW k \in 2..Len(t) PROVE t[k - 1].pc < t[k].pc
    <2> HIDE DEF t
    <2>1. CASE k <= Len(s)
        BY <1>1, <2>1 DEF Increasing
    <2>2. CASE k = Len(s) + 1
        <3>1. s # <<>> /\ k - 1 = Len(s) /\ t[k - 1] = s[Len(s)] /\ t[k] = r
            BY <1>1, <2>2
        <3> QED
            BY <3>1
    <2> QED
        BY <1>1, <2>1, <2>2
<1> QED
    BY <1>2 DEF Increasing

\* The rows up to the n-th.
Prefix(s, n) == SubSeq(s, 1, n)

LEMMA PrefixStep ==
    ASSUME NEW s \in Seq(TableRow)
    PROVE  /\ Prefix(s, 0) = <<>> /\ Prefix(s, Len(s)) = s
           /\ \A n \in 1..Len(s) : /\ s[n] \in TableRow
                                   /\ Prefix(s, n - 1) \in Seq(TableRow)
                                   /\ Prefix(s, n) = Append(Prefix(s, n - 1), s[n])
<1>1. Len(s) \in Nat /\ \A n \in 1..Len(s) : s[n] \in TableRow
    BY LenProperties
<1>2. Prefix(s, 0) = <<>>
    BY SubSeqEmpty DEF Prefix
<1>3. Prefix(s, Len(s)) = s
    BY <1>1, SubSeqFull DEF Prefix
<1>4. ASSUME NEW n \in 1..Len(s)
      PROVE  /\ Prefix(s, n - 1) \in Seq(TableRow)
             /\ Prefix(s, n) = Append(Prefix(s, n - 1), s[n])
    <2>1. SubSeq(s, 1, n) = SubSeq(s, 1, n - 1) \o <<s[n]>>
        BY <1>1, SubSeqRecursiveSecond
    <2>2. SubSeq(s, 1, n - 1) \in Seq(TableRow)
        BY <1>1, SubSeqProperties
    <2> QED
        BY <1>1, <2>1, <2>2, AppendIsConcat DEF Prefix
<1> QED
    BY <1>1, <1>2, <1>3, <1>4

\* The loop of remove_redundant.
LEMMA RedundantLoop ==
    ASSUME NEW s \in Seq(TableRow)
    PROVE  \E kept \in [0..Len(s) -> Seq(TableRow)] :
               /\ kept[0] = <<>>
               /\ \A n \in 1..Len(s) :
                     kept[n] = IF Redundant(kept[n - 1], Before(s, n), s[n]) THEN kept[n - 1]
                               ELSE Append(kept[n - 1], s[n])
               /\ remove_redundant(s) = kept[Len(s)]
<1> DEFINE N == Len(s)
           Step(n, K) == IF Redundant(K, Before(s, n), s[n]) THEN K ELSE Append(K, s[n])
           F == [p \in (1..N) \X Seq(TableRow) |-> Step(p[1], p[2])]
<1>1. N \in Nat /\ <<>> \in Seq(TableRow) /\ \A n \in 1..N : s[n] \in TableRow
    BY LenProperties
<1>2. \A n \in 1..N, K \in Seq(TableRow) : Step(n, K) \in Seq(TableRow)
    BY <1>1, AppendProperties
<1>3. F \in [(1..N) \X Seq(TableRow) -> Seq(TableRow)]
    <2> HIDE DEF Step
    <2> QED
        BY <1>2
<1>4. PICK f : Unfolds(f, N, Seq(TableRow), <<>>, F)
    <2> HIDE DEF F, N
    <2> QED
        BY <1>1, <1>3, Recursion, Zenon
<1>5. \A k \in 1..N : f[k] = Step(k, f[k - 1])
    <2> TAKE k \in 1..N
    <2>1. f[k - 1] \in Seq(TableRow)
        BY <1>1, <1>4 DEF Unfolds
    <2> HIDE DEF Step
    <2> QED
        BY <1>4, <2>1, Zenon DEF Unfolds
<1>6. f = [n \in 0..N |-> IF n = 0 THEN <<>> ELSE Step(n, f[n - 1])]
    <2> HIDE DEF Step
    <2>1. \A n \in 0..N : f[n] = IF n = 0 THEN <<>> ELSE Step(n, f[n - 1])
        BY <1>1, <1>4, <1>5 DEF Unfolds
    <2> QED
        BY <1>4, <2>1 DEF Unfolds
<1>7. PICK g : g = [n \in 0..N |-> IF n = 0 THEN <<>> ELSE Step(n, g[n - 1])] /\ remove_redundant(s) = g[N]
    BY <1>6, Zenon DEF remove_redundant
<1>8. g = f
    <2> DEFINE G == {n \in 0..N : g[n] = f[n]}
    <2> HIDE DEF Step
    <2>1. 0 \in G
        BY <1>1, <1>4, <1>7 DEF Unfolds
    <2>2. ASSUME NEW n \in 1..N, n - 1 \in G PROVE n \in G
        BY <1>1, <1>6, <1>7, <2>2
    <2>3. \A n \in 0..N : n \in G
        <3> HIDE DEF G
        <3> QED
            BY <1>1, <2>1, <2>2, Induction, Zenon
    <2> QED
        BY <1>6, <1>7, <2>3
<1> QED
    BY <1>4, <1>5, <1>7, <1>8, Zenon DEF Unfolds

\* What a pass over the rows has to keep: a table that says the same of every address.
SameRules(r, s) ==
    /\ r \in Seq(TableRow) /\ Increasing(r)
    /\ s # <<>> => r # <<>>
    /\ \A a \in Nat : RuleAt(r, a) = RuleAt(s, a)

\* remove_redundant (convert.rs) keeps what the table says.
LEMMA RedundantRemoved ==
    ASSUME NEW s \in Seq(TableRow), Increasing(s)
    PROVE  SameRules(remove_redundant(s), s)
<1>1. PICK kept \in [0..Len(s) -> Seq(TableRow)] :
          /\ kept[0] = <<>>
          /\ \A n \in 1..Len(s) :
                kept[n] = IF Redundant(kept[n - 1], Before(s, n), s[n]) THEN kept[n - 1]
                          ELSE Append(kept[n - 1], s[n])
          /\ remove_redundant(s) = kept[Len(s)]
    BY RedundantLoop
<1>2. Len(s) \in Nat /\ \A n \in 1..Len(s) : s[n] \in TableRow
    BY LenProperties
<1> DEFINE Good(n) == /\ Increasing(kept[n])
                      /\ n # 0 => kept[n] # <<>> /\ kept[n][Len(kept[n])].pc <= s[n].pc
                      /\ \A a \in Nat : RuleAt(kept[n], a) = RuleAt(Prefix(s, n), a)
           G == {n \in 0..Len(s) : Good(n)}
<1>3. 0 \in G
    <2>1. Increasing(<<>>)
        BY DEF Increasing
    <2>2. Prefix(s, 0) = <<>> /\ kept[0] = <<>>
        BY <1>1, PrefixStep
    <2>3. Good(0)
        BY <2>1, <2>2
    <2>4. 0 \in 0..Len(s)
        BY <1>2
    <2> HIDE DEF Good
    <2> QED
        BY <2>3, <2>4
<1>4. ASSUME NEW n \in 1..Len(s), n - 1 \in G PROVE n \in G
    <2>1. /\ Good(n - 1) /\ kept[n - 1] \in Seq(TableRow) /\ n \in 0..Len(s) /\ s[n] \in TableRow
          /\ Prefix(s, n - 1) \in Seq(TableRow)
          /\ Prefix(s, n) = Append(Prefix(s, n - 1), s[n])
        <3> HIDE DEF Good
        <3>1. n - 1 \in 0..Len(s) /\ n \in 0..Len(s)
            BY <1>2
        <3>2. kept[n - 1] \in Seq(TableRow)
            BY <1>1, <3>1
        <3> QED
            BY <1>2, <1>4, <3>1, <3>2, PrefixStep
    <2>2. n # 1 => /\ s[n - 1] \in TableRow /\ n - 1 \in 1..Len(s) /\ n - 2 \in 0..Len(s) - 1
                   /\ s[n - 1].pc < s[n].pc
                   /\ Prefix(s, n - 2) \in Seq(TableRow)
                   /\ Prefix(s, n - 1) = Append(Prefix(s, n - 2), s[n - 1])
        <3>1. ASSUME n # 1 PROVE n - 1 \in 1..Len(s) /\ n \in 2..Len(s) /\ n - 1 - 1 = n - 2 /\ n - 2 \in 0..Len(s) - 1
            BY <1>2, <3>1
        <3> QED
            BY <1>2, <3>1, PrefixStep DEF Increasing
    <2>3. CASE Redundant(kept[n - 1], Before(s, n), s[n])
        <3>1. kept[n] = kept[n - 1]
            BY <1>1, <2>3
        <3>2. n # 1 /\ s[n - 1].rule = s[n].rule
            <4>1. s[n].rule # NoRow
                <5>1. s[n].rule \in Rule \cup {EndFdeMarker}
                    BY <2>1 DEF TableRow
                <5>2. NoRow # EndFdeMarker
                    BY DEF NoRow, EndFdeMarker
                <5> QED
                    BY <5>1, <5>2, UnwindInfoAssumption
            <4> QED
                BY <2>3, <4>1 DEF Redundant, Before, Row
        <3>3. ASSUME NEW a \in Nat PROVE RuleAt(kept[n], a) = RuleAt(Prefix(s, n), a)
            <4>1. RuleAt(Prefix(s, n), a) = IF s[n].pc <= a THEN s[n].rule ELSE RuleAt(Prefix(s, n - 1), a)
                BY <2>1, RuleAtAppend
            <4>2. RuleAt(Prefix(s, n - 1), a) =
                      IF s[n - 1].pc <= a THEN s[n - 1].rule ELSE RuleAt(Prefix(s, n - 2), a)
                <5>1. /\ s[n - 1] \in TableRow /\ Prefix(s, n - 2) \in Seq(TableRow)
                      /\ Prefix(s, n - 1) = Append(Prefix(s, n - 2), s[n - 1])
                    BY <2>2, <3>2, Zenon
                <5>2. RuleAt(Append(Prefix(s, n - 2), s[n - 1]), a) =
                          IF s[n - 1].pc <= a THEN s[n - 1].rule ELSE RuleAt(Prefix(s, n - 2), a)
                    BY <5>1, RuleAtAppend, Zenon
                <5> QED
                    BY <5>1, <5>2, Zenon
            <4>3. s[n].pc <= a => s[n - 1].pc <= a
                <5>1. s[n].pc \in Nat /\ s[n - 1].pc \in Nat /\ s[n - 1].pc < s[n].pc
                    BY <2>1, <2>2, <3>2, Zenon DEF TableRow
                <5> QED
                    BY <5>1
            <4> QED
                BY <2>1, <3>1, <3>2, <4>1, <4>2, <4>3
        <3>4. kept[n][Len(kept[n])].pc <= s[n].pc
            <4> DEFINE K == kept[n - 1]
            <4>1. K \in Seq(TableRow) /\ K # <<>> /\ K[Len(K)].pc <= s[n - 1].pc
                BY <2>1, <2>2, <3>2
            <4>2. K[Len(K)] \in TableRow
                BY <4>1, EmptySeq, LenProperties
            <4> HIDE DEF K
            <4>3. K[Len(K)].pc <= s[n].pc
                <5>1. /\ K[Len(K)].pc \in Nat /\ s[n].pc \in Nat /\ s[n - 1].pc \in Nat
                      /\ K[Len(K)].pc <= s[n - 1].pc /\ s[n - 1].pc < s[n].pc
                    BY <2>1, <2>2, <3>2, <4>1, <4>2, Zenon DEF TableRow
                <5> QED
                    BY <5>1
            <4> QED
                BY <3>1, <4>3 DEF K
        <3>5. Increasing(kept[n]) /\ kept[n] # <<>>
            BY <2>1, <2>2, <3>1, <3>2
        <3> QED
            BY <2>1, <3>3, <3>4, <3>5, Zenon
    <2>4. CASE ~Redundant(kept[n - 1], Before(s, n), s[n])
        <3> DEFINE K == kept[n - 1]
        <3>1. kept[n] = Append(K, s[n]) /\ K \in Seq(TableRow) /\ Increasing(K)
            BY <1>1, <2>1, <2>4, Zenon
        <3>2. ASSUME NEW a \in Nat PROVE RuleAt(kept[n], a) = RuleAt(Prefix(s, n), a)
            <4>1. RuleAt(Prefix(s, n), a) = IF s[n].pc <= a THEN s[n].rule ELSE RuleAt(Prefix(s, n - 1), a)
                BY <2>1, RuleAtAppend
            <4>2. RuleAt(kept[n], a) = IF s[n].pc <= a THEN s[n].rule ELSE RuleAt(K, a)
                <5>1. RuleAt(Append(K, s[n]), a) = IF s[n].pc <= a THEN s[n].rule ELSE RuleAt(K, a)
                    BY <2>1, <3>1, RuleAtAppend, Zenon
                <5> QED
                    BY <3>1, <5>1, Zenon
            <4> QED
                BY <2>1, <4>1, <4>2
        <3>3. K # <<>> => K[Len(K)].pc < s[n].pc
            <4>1. ASSUME K # <<>> PROVE n # 1
                BY <1>1, <4>1
            <4>2. ASSUME K # <<>> PROVE K[Len(K)] \in TableRow
                BY <3>1, <4>2, EmptySeq, LenProperties
            <4>3. n # 1 => K[Len(K)].pc <= s[n - 1].pc
                BY <2>1, <2>2
            <4> HIDE DEF K, Good, G
            <4>4. ASSUME K # <<>> PROVE K[Len(K)].pc < s[n].pc
                <5>1. /\ K[Len(K)].pc \in Nat /\ s[n].pc \in Nat /\ s[n - 1].pc \in Nat
                      /\ K[Len(K)].pc <= s[n - 1].pc /\ s[n - 1].pc < s[n].pc
                    BY <2>1, <2>2, <4>1, <4>2, <4>3, <4>4, Zenon DEF TableRow
                <5> QED
                    BY <5>1
            <4> QED
                BY <4>4
        <3> HIDE DEF K
        <3>4. Increasing(kept[n])
            BY <2>1, <3>1, <3>3, IncreasingAppend
        <3>5. kept[n] # <<>> /\ kept[n][Len(kept[n])] = s[n] /\ s[n].pc \in Nat
            <4>1. s[n] \in TableRow
                BY <2>1
            <4>2. s[n].pc \in Nat
                BY <4>1, Zenon DEF TableRow
            <4> QED
                BY <3>1, <4>1, <4>2, AppendProperties
        <3>6. kept[n][Len(kept[n])].pc <= s[n].pc
            BY <3>5
        <3> QED
            BY <2>1, <3>2, <3>4, <3>5, <3>6, Zenon
    <2> QED
        BY <2>3, <2>4
<1>5. \A n \in 0..Len(s) : n \in G
    <2> HIDE DEF G
    <2> QED
        BY <1>2, <1>3, <1>4, Induction, Zenon
<1>6. s # <<>> => Len(s) # 0
    BY EmptySeq
<1>7. Good(Len(s)) /\ kept[Len(s)] \in Seq(TableRow)
    <2>1. Len(s) \in 0..Len(s)
        BY <1>2
    <2> HIDE DEF Good
    <2> QED
        BY <1>1, <1>5, <2>1
<1> QED
    BY <1>1, <1>6, <1>7, PrefixStep DEF SameRules

LEMMA FrontTyped ==
    ASSUME NEW s \in Seq(TableRow)
    PROVE  WithoutLast(s) \in Seq(TableRow)
<1>1. Len(s) \in Nat /\ \A k \in 1..Len(s) : s[k] \in TableRow
    BY LenProperties
<1> QED
    BY <1>1, SubSeqProperties DEF WithoutLast

LEMMA FrontLast ==
    ASSUME NEW s \in Seq(TableRow), s # <<>>
    PROVE  /\ s[Len(s)] \in TableRow
           /\ s = Append(WithoutLast(s), s[Len(s)])
           /\ Increasing(s) => /\ Increasing(WithoutLast(s))
                               /\ WithoutLast(s) # <<>> => WithoutLast(s)[Len(WithoutLast(s))].pc < s[Len(s)].pc
<1> DEFINE N == Len(s)
           t == WithoutLast(s)
<1>1. N \in Nat \ {0} /\ N \in 1..Len(s)
    BY LenProperties, EmptySeq
<1>2. t = Prefix(s, N - 1) /\ s = Append(t, s[N]) /\ s[N] \in TableRow
    BY <1>1, PrefixStep DEF WithoutLast, Prefix
<1>3. t \in Seq(TableRow)
    BY FrontTyped
<1>4. Len(s) = Len(t) + 1 /\ Len(t) \in Nat /\ \A k \in 1..Len(t) : t[k] = s[k]
    <2> HIDE DEF t
    <2>1. Len(Append(t, s[N])) = Len(t) + 1 /\ \A k \in 1..Len(t) : Append(t, s[N])[k] = t[k]
        BY <1>2, <1>3, AppendProperties
    <2> QED
        BY <1>2, <1>3, <2>1, LenProperties
<1>5. ASSUME Increasing(s) PROVE Increasing(t)
    <2> HIDE DEF t
    <2>1. ASSUME NEW k \in 2..Len(t) PROVE t[k - 1].pc < t[k].pc
        <3>1. k \in 2..Len(s) /\ k - 1 \in 1..Len(t) /\ k \in 1..Len(t)
            BY <1>4
        <3> QED
            BY <1>4, <1>5, <3>1 DEF Increasing
    <2> QED
        BY <2>1 DEF Increasing
<1>6. ASSUME Increasing(s), t # <<>> PROVE t[Len(t)].pc < s[N].pc
    <2> HIDE DEF t
    <2>1. Len(t) # 0
        BY <1>3, <1>6, EmptySeq
    <2>2. N \in 2..Len(s) /\ N - 1 = Len(t) /\ Len(t) \in 1..Len(t)
        BY <1>1, <1>4, <2>1
    <2> QED
        BY <1>4, <1>6, <2>2 DEF Increasing
<1> QED
    BY <1>2, <1>5, <1>6

\* What process makes of the functions: a marker where the next function starts
\* comes before the row of that function, and no other rows share an address.
Ordered(s) ==
    \A k \in 2..Len(s) :
        \/ s[k - 1].pc < s[k].pc
        \/ s[k - 1].pc = s[k].pc /\ s[k - 1].rule = EndFdeMarker /\ s[k].rule # EndFdeMarker

\* The loop of remove_unnecesary_markers.
LEMMA MarkersLoop ==
    ASSUME NEW s \in Seq(TableRow)
    PROVE  \E kept \in [0..Len(s) -> Seq(TableRow)] :
               /\ kept[0] = <<>>
               /\ \A n \in 1..Len(s) : kept[n] = WithoutMarkers(kept[n - 1], Before(s, n), s[n])
               /\ remove_unnecesary_markers(s) = kept[Len(s)]
<1> DEFINE N == Len(s)
           Step(n, K) == WithoutMarkers(K, Before(s, n), s[n])
           F == [p \in (1..N) \X Seq(TableRow) |-> Step(p[1], p[2])]
<1>1. N \in Nat /\ <<>> \in Seq(TableRow) /\ \A n \in 1..N : s[n] \in TableRow
    BY LenProperties
<1>2. ASSUME NEW n \in 1..N, NEW K \in Seq(TableRow) PROVE Step(n, K) \in Seq(TableRow)
    <2>1. WithoutLast(K) \in Seq(TableRow) /\ s[n] \in TableRow
        BY <1>1, FrontTyped
    <2> QED
        BY <2>1, AppendProperties DEF WithoutMarkers
<1>3. F \in [(1..N) \X Seq(TableRow) -> Seq(TableRow)]
    <2> HIDE DEF Step
    <2> QED
        BY <1>2
<1>4. PICK f : Unfolds(f, N, Seq(TableRow), <<>>, F)
    <2> HIDE DEF F, N
    <2> QED
        BY <1>1, <1>3, Recursion, Zenon
<1>5. \A k \in 1..N : f[k] = Step(k, f[k - 1])
    <2> TAKE k \in 1..N
    <2>1. f[k - 1] \in Seq(TableRow)
        BY <1>1, <1>4 DEF Unfolds
    <2> HIDE DEF Step
    <2> QED
        BY <1>4, <2>1, Zenon DEF Unfolds
<1>6. f = [n \in 0..N |-> IF n = 0 THEN <<>> ELSE Step(n, f[n - 1])]
    <2> HIDE DEF Step
    <2>1. \A n \in 0..N : f[n] = IF n = 0 THEN <<>> ELSE Step(n, f[n - 1])
        BY <1>1, <1>4, <1>5 DEF Unfolds
    <2> QED
        BY <1>4, <2>1 DEF Unfolds
<1>7. PICK g : g = [n \in 0..N |-> IF n = 0 THEN <<>> ELSE Step(n, g[n - 1])] /\ remove_unnecesary_markers(s) = g[N]
    BY <1>6, Zenon DEF remove_unnecesary_markers
<1>8. g = f
    <2> DEFINE G == {n \in 0..N : g[n] = f[n]}
    <2> HIDE DEF Step
    <2>1. 0 \in G
        BY <1>1, <1>4, <1>7 DEF Unfolds
    <2>2. ASSUME NEW n \in 1..N, n - 1 \in G PROVE n \in G
        BY <1>1, <1>6, <1>7, <2>2
    <2>3. \A n \in 0..N : n \in G
        <3> HIDE DEF G
        <3> QED
            BY <1>1, <2>1, <2>2, Induction, Zenon
    <2> QED
        BY <1>6, <1>7, <2>3
<1> HIDE DEF Step
<1> QED
    BY <1>4, <1>5, <1>7, <1>8, Zenon DEF Unfolds, Step

\* The row before is the last one kept, and its address is smaller or it is the
\* marker where the function of the current row starts.
Follows(K, before, row) ==
    \/ K = <<>> /\ before.pc # row.pc
    \/ /\ K # <<>> /\ K[Len(K)] = before
       /\ \/ before.pc < row.pc
          \/ before.pc = row.pc /\ before.rule = EndFdeMarker /\ row.rule # EndFdeMarker

LEMMA MarkersStep ==
    ASSUME NEW K \in Seq(TableRow), Increasing(K), NEW before, NEW row \in TableRow,
           Follows(K, before, row),
           NEW P \in Seq(TableRow), \A a \in Nat : RuleAt(K, a) = RuleAt(P, a),
           NEW L, L = WithoutMarkers(K, before, row)
    PROVE  /\ Increasing(L) /\ L # <<>> /\ L[Len(L)] = row
           /\ \A a \in Nat : RuleAt(L, a) = RuleAt(Append(P, row), a)
<1> DEFINE E == IF before.pc = row.pc /\ before.rule = EndFdeMarker THEN WithoutLast(K) ELSE K
<1>1. WithoutMarkers(K, before, row) = Append(E, row)
    <2>1. ~(before.pc = row.pc /\ row.rule = EndFdeMarker)
        <3>1. CASE K = <<>>
            BY <3>1 DEF Follows
        <3>2. CASE K # <<>>
            <4>1. before \in TableRow
                BY <3>2, FrontLast DEF Follows
            <4>2. before.pc \in Nat /\ row.pc \in Nat
                BY <4>1 DEF TableRow
            <4> QED
                BY <3>2, <4>2 DEF Follows
        <3> QED
            BY <3>1, <3>2
    <2> QED
        BY <2>1 DEF WithoutMarkers
<1>2. /\ E \in Seq(TableRow) /\ Increasing(E)
      /\ E # <<>> => E[Len(E)].pc < row.pc
      /\ \A a \in Nat : ~(row.pc <= a) => RuleAt(E, a) = RuleAt(K, a)
    <2>1. CASE before.pc = row.pc /\ before.rule = EndFdeMarker
        <3>1. K # <<>> /\ K[Len(K)] = before
            BY <2>1 DEF Follows
        <3>2. /\ WithoutLast(K) \in Seq(TableRow) /\ before \in TableRow
              /\ K = Append(WithoutLast(K), before) /\ Increasing(WithoutLast(K))
              /\ WithoutLast(K) # <<>> => WithoutLast(K)[Len(WithoutLast(K))].pc < before.pc
            BY <3>1, FrontLast, FrontTyped
        <3>3. ASSUME NEW a \in Nat, ~(row.pc <= a) PROVE RuleAt(WithoutLast(K), a) = RuleAt(K, a)
            <4>1. RuleAt(Append(WithoutLast(K), before), a) = IF before.pc <= a THEN before.rule ELSE RuleAt(WithoutLast(K), a)
                BY <3>2, RuleAtAppend
            <4> QED
                BY <2>1, <3>2, <3>3, <4>1, Zenon
        <3> QED
            BY <2>1, <3>2, <3>3
    <2>2. CASE ~(before.pc = row.pc /\ before.rule = EndFdeMarker)
        BY <2>2 DEF Follows
    <2> QED
        BY <2>1, <2>2, Zenon
<1> HIDE DEF E
<1>3. Increasing(Append(E, row))
    BY <1>2, IncreasingAppend
<1>4. Append(E, row) # <<>> /\ Append(E, row)[Len(Append(E, row))] = row
    BY <1>2, AppendProperties
<1>5. ASSUME NEW a \in Nat PROVE RuleAt(Append(E, row), a) = RuleAt(Append(P, row), a)
    <2>1. RuleAt(Append(E, row), a) = IF row.pc <= a THEN row.rule ELSE RuleAt(E, a)
        BY <1>2, RuleAtAppend
    <2>2. RuleAt(Append(P, row), a) = IF row.pc <= a THEN row.rule ELSE RuleAt(P, a)
        BY RuleAtAppend
    <2> QED
        BY <1>2, <2>1, <2>2
<1> QED
    BY <1>1, <1>3, <1>4, <1>5

\* remove_unnecesary_markers (convert.rs) keeps what the rows say, and leaves
\* one row for an address.
LEMMA MarkersRemoved ==
    ASSUME NEW s \in Seq(TableRow), Ordered(s)
    PROVE  SameRules(remove_unnecesary_markers(s), s)
<1>1. PICK kept \in [0..Len(s) -> Seq(TableRow)] :
          /\ kept[0] = <<>>
          /\ \A n \in 1..Len(s) : kept[n] = WithoutMarkers(kept[n - 1], Before(s, n), s[n])
          /\ remove_unnecesary_markers(s) = kept[Len(s)]
    BY MarkersLoop
<1>2. Len(s) \in Nat /\ \A n \in 1..Len(s) : s[n] \in TableRow
    BY LenProperties
<1> DEFINE Good(n) == /\ Increasing(kept[n])
                      /\ n = 0 => kept[n] = <<>>
                      /\ n # 0 => kept[n] # <<>> /\ kept[n][Len(kept[n])] = s[n]
                      /\ \A a \in Nat : RuleAt(kept[n], a) = RuleAt(Prefix(s, n), a)
           G == {n \in 0..Len(s) : Good(n)}
<1>3. 0 \in G
    <2>1. Increasing(<<>>)
        BY DEF Increasing
    <2>2. Prefix(s, 0) = <<>> /\ kept[0] = <<>>
        BY <1>1, PrefixStep
    <2>3. Good(0)
        BY <2>1, <2>2
    <2>4. 0 \in 0..Len(s)
        BY <1>2
    <2> HIDE DEF Good
    <2> QED
        BY <2>3, <2>4
<1>4. ASSUME NEW n \in 1..Len(s), n - 1 \in G PROVE n \in G
    <2>1. /\ Good(n - 1) /\ kept[n - 1] \in Seq(TableRow) /\ n \in 0..Len(s) /\ s[n] \in TableRow
          /\ Prefix(s, n - 1) \in Seq(TableRow)
          /\ Prefix(s, n) = Append(Prefix(s, n - 1), s[n])
        <3> HIDE DEF Good
        <3>1. n - 1 \in 0..Len(s) /\ n \in 0..Len(s)
            BY <1>2
        <3>2. kept[n - 1] \in Seq(TableRow)
            BY <1>1, <3>1
        <3> QED
            BY <1>2, <1>4, <3>1, <3>2, PrefixStep
    <2>2. Follows(kept[n - 1], Before(s, n), s[n])
        <3>1. CASE n = 1
            <4>1. kept[n - 1] = <<>>
                BY <1>1, <3>1
            <4>2. Before(s, n).pc = NoAddress /\ s[n].pc \in Nat
                BY <2>1, <3>1 DEF Before, Row, TableRow
            <4> QED
                BY <4>1, <4>2 DEF Follows, NoAddress
        <3>2. CASE n # 1
            <4>1. n \in 2..Len(s) /\ n - 1 # 0
                BY <1>2, <3>2
            <4>2. Before(s, n) = s[n - 1]
                BY <3>2 DEF Before
            <4>3. kept[n - 1] # <<>> /\ kept[n - 1][Len(kept[n - 1])] = s[n - 1]
                BY <2>1, <4>1
            <4> HIDE DEF Good
            <4> QED
                BY <4>1, <4>2, <4>3 DEF Follows, Ordered
        <3> QED
            BY <3>1, <3>2
    <2>3. kept[n] = WithoutMarkers(kept[n - 1], Before(s, n), s[n])
        BY <1>1
    <2>4. Increasing(kept[n - 1]) /\ \A a \in Nat : RuleAt(kept[n - 1], a) = RuleAt(Prefix(s, n - 1), a)
        BY <2>1
    <2>5. /\ Increasing(kept[n]) /\ kept[n] # <<>> /\ kept[n][Len(kept[n])] = s[n]
          /\ \A a \in Nat : RuleAt(kept[n], a) = RuleAt(Append(Prefix(s, n - 1), s[n]), a)
        <3> HIDE DEF Good, G
        <3> DEFINE K == kept[n - 1]
                   B == Before(s, n)
                   R == s[n]
                   P == Prefix(s, n - 1)
                   L == kept[n]
        <3>1. /\ K \in Seq(TableRow) /\ R \in TableRow /\ P \in Seq(TableRow)
              /\ Increasing(K) /\ Follows(K, B, R) /\ L = WithoutMarkers(K, B, R)
              /\ \A a \in Nat : RuleAt(K, a) = RuleAt(P, a)
            BY <2>1, <2>2, <2>3, <2>4
        <3>2. /\ Increasing(L) /\ L # <<>> /\ L[Len(L)] = R
              /\ \A a \in Nat : RuleAt(L, a) = RuleAt(Append(P, R), a)
            <4> HIDE DEF K, B, R, P, L
            <4> QED
                BY <3>1, MarkersStep
        <3> QED
            BY <3>2
    <2>6. Good(n)
        BY <2>1, <2>5
    <2> HIDE DEF Good
    <2> QED
        BY <2>1, <2>6
<1>5. \A n \in 0..Len(s) : n \in G
    <2> HIDE DEF G
    <2> QED
        BY <1>2, <1>3, <1>4, Induction, Zenon
<1>6. s # <<>> => Len(s) # 0
    BY EmptySeq
<1>7. Good(Len(s)) /\ kept[Len(s)] \in Seq(TableRow)
    <2>1. Len(s) \in 0..Len(s)
        BY <1>2
    <2> HIDE DEF Good
    <2> QED
        BY <1>1, <1>5, <2>1
<1> QED
    BY <1>1, <1>6, <1>7, PrefixStep DEF SameRules

-----------------------------------------------------------------------------
(* The rows of the functions, in order.                                    *)

FdeRow == [pc : Nat, rule : Rule]

IsFde(f) ==
    /\ f.start \in Nat /\ f.end \in Nat /\ f.start < f.end
    /\ f.rows \in Seq(FdeRow) /\ f.rows # <<>> /\ f.rows[1].pc = f.start
    /\ \A k \in 1..Len(f.rows) : f.start <= f.rows[k].pc /\ f.rows[k].pc < f.end
    /\ \A k \in 2..Len(f.rows) : f.rows[k - 1].pc < f.rows[k].pc

\* Functions that do not overlap, in order.
Sorted(F) ==
    /\ Len(F) \in Nat \ {0} /\ DOMAIN F = 1..Len(F)
    /\ \A n \in 1..Len(F) : IsFde(F[n])
    /\ \A n \in 2..Len(F) : F[n - 1].end <= F[n].start

LEMMA Apart ==
    ASSUME NEW F, Sorted(F), NEW j \in 1..Len(F), NEW k \in 1..Len(F), j < k
    PROVE  F[j].end <= F[k].start
<1> DEFINE N == Len(F)
           G == {n \in 0..N : n \in 1..N /\ j < n => F[j].end <= F[n].start}
<1>1. N \in Nat /\ \A n \in 1..N : F[n].start \in Nat /\ F[n].end \in Nat /\ F[n].start < F[n].end
    BY DEF Sorted, IsFde
<1>2. 0 \in G
    BY <1>1
<1>3. ASSUME NEW n \in 1..N, n - 1 \in G PROVE n \in G
    <2> SUFFICES ASSUME j < n PROVE F[j].end <= F[n].start
        BY <1>1
    <2>1. n \in 2..N /\ n - 1 \in 1..N
        BY <1>1
    <2>2. F[n - 1].end <= F[n].start
        BY <2>1 DEF Sorted
    <2>3. CASE j = n - 1
        BY <2>2, <2>3
    <2>4. CASE j < n - 1
        <3>1. F[j].end <= F[n - 1].start
            BY <1>3, <2>1, <2>4
        <3> QED
            BY <1>1, <2>1, <2>2, <3>1
    <2> QED
        BY <1>1, <2>3, <2>4
<1>4. \A n \in 0..N : n \in G
    <2> HIDE DEF G, N
    <2> QED
        BY <1>1, <1>2, <1>3, Induction, Zenon
<1> QED
    BY <1>1, <1>4

\* The rows of a function as they go into the table.
RowsOf(f, o) == [k \in DOMAIN f.rows |-> Overridden(f.rows[k], o)]

LEMMA RowsOfFacts ==
    ASSUME NEW f, IsFde(f), NEW o
    PROVE  /\ RowsOf(f, o) \in Seq(TableRow) /\ Len(RowsOf(f, o)) = Len(f.rows)
           /\ Len(f.rows) \in Nat \ {0} /\ DOMAIN RowsOf(f, o) = 1..Len(f.rows)
           /\ Increasing(RowsOf(f, o))
           /\ RowsOf(f, o)[1].pc = f.start
           /\ RowsOf(f, o)[1].rule = EndFdeMarker => f.start = o
           /\ \A k \in 1..Len(f.rows) : f.start <= RowsOf(f, o)[k].pc /\ RowsOf(f, o)[k].pc < f.end
<1> DEFINE N == Len(f.rows)
           R == RowsOf(f, o)
<1>1. N \in Nat \ {0} /\ DOMAIN f.rows = 1..N /\ \A k \in 1..N : f.rows[k] \in FdeRow
    BY LenProperties, EmptySeq DEF IsFde
<1>2. ASSUME NEW k \in 1..N
      PROVE  /\ R[k] \in TableRow /\ R[k].pc = f.rows[k].pc
             /\ R[k].rule = EndFdeMarker => f.rows[k].pc = o
    <2>1. R[k] = Overridden(f.rows[k], o)
        BY <1>1 DEF RowsOf
    <2>2. /\ f.rows[k].pc \in Nat /\ f.rows[k].rule \in Rule
          /\ f.rows[k] = [pc |-> f.rows[k].pc, rule |-> f.rows[k].rule]
        BY <1>1, Zenon DEF FdeRow
    <2>3. CASE f.rows[k].pc = o
        <3>1. R[k] = [pc |-> f.rows[k].pc, rule |-> EndFdeMarker]
            BY <2>1, <2>3, Zenon DEF Overridden, stop_unwinding, Row
        <3> QED
            BY <2>2, <2>3, <3>1 DEF TableRow
    <2>4. CASE f.rows[k].pc # o
        <3>1. R[k] = f.rows[k]
            BY <2>1, <2>4 DEF Overridden
        <3>2. f.rows[k] \in TableRow
            BY <1>1 DEF FdeRow, TableRow
        <3>3. f.rows[k].rule # EndFdeMarker
            BY <2>2, UnwindInfoAssumption, Zenon
        <3> QED
            BY <3>1, <3>2, <3>3
    <2> QED
        BY <2>3, <2>4, Zenon
<1>3. DOMAIN R = 1..N
    BY <1>1 DEF RowsOf
<1>4. R \in Seq(TableRow) /\ Len(R) = N
    <2>1. R = [k \in 1..N |-> R[k]]
        BY <1>1 DEF RowsOf
    <2> HIDE DEF R
    <2>2. R \in [1..N -> TableRow]
        BY <1>2, <2>1
    <2> QED
        BY <1>1, <2>2, IsASeq, LenProperties
<1> HIDE DEF R, N
<1>5. Increasing(R)
    <2>1. ASSUME NEW k \in 2..N PROVE R[k - 1].pc < R[k].pc
        <3>1. k \in 1..N /\ k - 1 \in 1..N
            BY <1>1
        <3> QED
            BY <1>2, <3>1 DEF IsFde, N
    <2> QED
        BY <1>4, <2>1 DEF Increasing
<1>6. 1 \in 1..N
    BY <1>1
<1> QED
    BY <1>1, <1>2, <1>3, <1>4, <1>5, <1>6, Zenon DEF IsFde, R, N

Marker(a) == <<stop_unwinding(a)>>

LEMMA MarkerFacts ==
    ASSUME NEW a \in Nat
    PROVE  /\ EndMarker(a) = Marker(a) /\ EndMarker(NoAddress) = <<>>
           /\ Marker(a) \in Seq(TableRow) /\ Len(Marker(a)) = 1
           /\ Marker(a)[1] \in TableRow /\ Marker(a)[1].pc = a /\ Marker(a)[1].rule = EndFdeMarker
<1>1. stop_unwinding(a) \in TableRow /\ stop_unwinding(a).pc = a /\ stop_unwinding(a).rule = EndFdeMarker
    BY DEF stop_unwinding, Row, TableRow
<1>2. EndMarker(a) = Marker(a) /\ EndMarker(NoAddress) = <<>>
    BY DEF EndMarker, Marker, NoAddress
<1> QED
    BY <1>1, <1>2 DEF Marker

\* Rows that are in order, and rows that follow them.
LEMMA OrderedConcat ==
    ASSUME NEW s \in Seq(TableRow), NEW t \in Seq(TableRow), Ordered(s), Ordered(t), s # <<>>, t # <<>>,
           \/ s[Len(s)].pc < t[1].pc
           \/ s[Len(s)].pc = t[1].pc /\ s[Len(s)].rule = EndFdeMarker /\ t[1].rule # EndFdeMarker
    PROVE  /\ s \o t \in Seq(TableRow) /\ Ordered(s \o t) /\ s \o t # <<>>
           /\ (s \o t)[Len(s \o t)] = t[Len(t)]
<1> DEFINE u == s \o t
<1>1. /\ Len(s) \in Nat \ {0} /\ Len(t) \in Nat \ {0}
      /\ u \in Seq(TableRow) /\ Len(u) = Len(s) + Len(t)
      /\ \A k \in 1..Len(s) : u[k] = s[k]
      /\ \A k \in 1..Len(t) : u[Len(s) + k] = t[k]
    BY ConcatProperties, LenProperties, EmptySeq
<1> HIDE DEF u
<1>2. \A k \in Len(s) + 1..Len(u) : k - Len(s) \in 1..Len(t) /\ u[k] = t[k - Len(s)]
    <2> TAKE k \in Len(s) + 1..Len(u)
    <2>1. k - Len(s) \in 1..Len(t) /\ Len(s) + (k - Len(s)) = k
        BY <1>1
    <2> QED
        BY <1>1, <2>1
<1>3. ASSUME NEW k \in 2..Len(u)
      PROVE  \/ u[k - 1].pc < u[k].pc
             \/ u[k - 1].pc = u[k].pc /\ u[k - 1].rule = EndFdeMarker /\ u[k].rule # EndFdeMarker
    <2>1. CASE k <= Len(s)
        <3>1. k \in 2..Len(s) /\ k \in 1..Len(s) /\ k - 1 \in 1..Len(s)
            BY <1>1, <2>1
        <3> QED
            BY <1>1, <3>1, Zenon DEF Ordered
    <2>2. CASE k = Len(s) + 1
        <3>1. k - 1 = Len(s) /\ Len(s) \in 1..Len(s) /\ 1 \in 1..Len(t)
            BY <1>1, <2>2
        <3>2. u[k - 1] = s[Len(s)] /\ u[k] = t[1]
            BY <1>1, <2>2, <3>1
        <3> QED
            BY <3>2
    <2>3. CASE k > Len(s) + 1
        <3> DEFINE m == k - Len(s)
        <3>1. m \in 2..Len(t) /\ k \in Len(s) + 1..Len(u) /\ k - 1 \in Len(s) + 1..Len(u) /\ k - 1 - Len(s) = m - 1
            BY <1>1, <2>3
        <3>2. u[k] = t[m] /\ u[k - 1] = t[m - 1]
            BY <1>2, <3>1
        <3> QED
            BY <3>1, <3>2, Zenon DEF Ordered
    <2>4. k <= Len(s) \/ k = Len(s) + 1 \/ k > Len(s) + 1
        <3>1. Len(s) \in Nat /\ Len(u) \in Nat
            BY <1>1
        <3> QED
            BY <3>1
    <2> QED
        BY <2>1, <2>2, <2>3, <2>4
<1>4. u # <<>> /\ u[Len(u)] = t[Len(t)]
    <2>1. Len(t) \in 1..Len(t) /\ Len(u) # 0
        BY <1>1
    <2>2. u[Len(u)] = t[Len(t)]
        BY <1>1, <2>1
    <2>3. u # <<>>
        BY <2>1
    <2> QED
        BY <2>2, <2>3
<1> QED
    BY <1>1, <1>3, <1>4, Zenon DEF Ordered, u

LEMMA IncreasingIsOrdered ==
    ASSUME NEW s, Increasing(s)
    PROVE  Ordered(s)
BY DEF Increasing, Ordered

\* Rows s end before end, where the function before f ends.
EndsBefore(s, end, f, o) ==
    /\ s \in Seq(TableRow) /\ s # <<>> /\ Ordered(s) /\ end \in Nat /\ s[Len(s)].pc < end
    /\ IsFde(f) /\ end <= f.start /\ end # o

\* Rows u say what s says, and f from where it starts on.
SaysMore(u, s, end, f, o) ==
    /\ u \in Seq(TableRow) /\ u # <<>> /\ Ordered(u) /\ u[Len(u)].pc < f.end
    /\ \A a \in Nat : RuleAt(u, a) = IF f.start <= a THEN RuleAt(RowsOf(f, o), a)
                                     ELSE IF end <= a THEN EndFdeMarker ELSE RuleAt(s, a)

\* The rows of one more function, behind the marker where the one before ends.
LEMMA ProcessStep ==
    ASSUME NEW s, NEW end, NEW f, NEW o, EndsBefore(s, end, f, o),
           NEW u, u = s \o Marker(end) \o RowsOf(f, o)
    PROVE  SaysMore(u, s, end, f, o)
<1> /\ s \in Seq(TableRow) /\ s # <<>> /\ Ordered(s) /\ end \in Nat /\ s[Len(s)].pc < end
    /\ IsFde(f) /\ end <= f.start /\ end # o
    BY Zenon DEF EndsBefore
<1> DEFINE M == Marker(end)
           T == RowsOf(f, o)
           v == s \o M
<1>1. M \in Seq(TableRow) /\ Len(M) = 1 /\ M[1] \in TableRow /\ M[1].pc = end /\ M[1].rule = EndFdeMarker
    BY MarkerFacts
<1>2. /\ T \in Seq(TableRow) /\ Len(T) \in Nat \ {0} /\ DOMAIN T = 1..Len(T)
      /\ Increasing(T) /\ T[1].pc = f.start
      /\ T[1].rule = EndFdeMarker => f.start = o
      /\ \A k \in 1..Len(T) : f.start <= T[k].pc /\ T[k].pc < f.end
    BY RowsOfFacts, Zenon
<1>3. f.start \in Nat
    BY DEF IsFde
<1>4. u = v \o T
    OBVIOUS
<1> HIDE DEF M, T
<1>5. /\ v \in Seq(TableRow) /\ Ordered(v) /\ v # <<>> /\ v[Len(v)] = M[1]
    <2>1. Ordered(M)
        <3>1. 2..Len(M) = {}
            BY <1>1
        <3> QED
            BY <3>1 DEF Ordered
    <2>2. M # <<>>
        <3>1. Len(M) # 0
            BY <1>1
        <3> QED
            BY <3>1
    <2> QED
        BY <1>1, <2>1, <2>2, OrderedConcat
<1> HIDE DEF v
<1>6. /\ u \in Seq(TableRow) /\ Ordered(u) /\ u # <<>> /\ u[Len(u)] = T[Len(T)]
    <2>1. Ordered(T) /\ T # <<>>
        BY <1>2, IncreasingIsOrdered
    <2>2. \/ v[Len(v)].pc < T[1].pc
          \/ v[Len(v)].pc = T[1].pc /\ v[Len(v)].rule = EndFdeMarker /\ T[1].rule # EndFdeMarker
        <3>1. v[Len(v)].pc = end /\ v[Len(v)].rule = EndFdeMarker /\ T[1].pc = f.start
            BY <1>1, <1>2, <1>5
        <3>2. T[1].rule = EndFdeMarker => f.start = o
            BY <1>2
        <3>3. end < f.start \/ end = f.start
            BY <1>3
        <3>4. CASE end < f.start
            BY <1>3, <3>1, <3>4
        <3>5. CASE end = f.start
            <4>1. T[1].rule # EndFdeMarker
                BY <3>2, <3>5
            <4> QED
                BY <3>1, <3>5, <4>1
        <3> QED
            BY <3>3, <3>4, <3>5
    <2> QED
        <3>1. LET w == v \o T
              IN  w \in Seq(TableRow) /\ Ordered(w) /\ w # <<>> /\ w[Len(w)] = T[Len(T)]
            BY <1>2, <1>5, <2>1, <2>2, OrderedConcat
        <3> QED
            BY <1>4, <3>1, Zenon
<1>7. u[Len(u)].pc < f.end
    <2>1. Len(T) \in 1..Len(T)
        BY <1>2
    <2> QED
        BY <1>2, <1>6, <2>1
<1>8. ASSUME NEW a \in Nat
      PROVE  RuleAt(u, a) = IF f.start <= a THEN RuleAt(T, a) ELSE IF end <= a THEN EndFdeMarker ELSE RuleAt(s, a)
    <2>1. (\E k \in DOMAIN T : T[k].pc <= a) <=> f.start <= a
        <3>1. ASSUME NEW k \in DOMAIN T, T[k].pc <= a PROVE f.start <= a
            <4>1. T[k] \in TableRow /\ f.start <= T[k].pc
                BY <1>2
            <4>2. T[k].pc \in Nat
                BY <4>1 DEF TableRow
            <4> QED
                BY <1>3, <3>1, <4>1, <4>2
        <3>2. 1 \in DOMAIN T
            BY <1>2
        <3> QED
            BY <1>2, <3>1, <3>2
    <2>2. RuleAt(u, a) = IF \E k \in DOMAIN T : T[k].pc <= a THEN RuleAt(T, a) ELSE RuleAt(v, a)
        <3>1. v \in Seq(TableRow) /\ T \in Seq(TableRow)
            BY <1>2, <1>5, Zenon
        <3>2. RuleAt(v \o T, a) = IF \E k \in DOMAIN T : T[k].pc <= a THEN RuleAt(T, a) ELSE RuleAt(v, a)
            BY <3>1, RuleAtConcat, Zenon
        <3> QED
            BY <1>4, <3>2, Zenon
    <2>3. v = Append(s, M[1])
        <3>1. M = <<M[1]>>
            BY <1>1 DEF M, Marker
        <3> QED
            BY <1>1, <3>1, AppendIsConcat, Zenon DEF v
    <2>4. RuleAt(v, a) = IF end <= a THEN EndFdeMarker ELSE RuleAt(s, a)
        BY <1>1, <2>3, RuleAtAppend
    <2> QED
        BY <2>1, <2>2, <2>4
<1> QED
    BY <1>6, <1>7, <1>8, Zenon DEF SaysMore, T

\* What functions F say of an address, with unwinding made to stop at o.
RuleOf(F, o, a) ==
    LET inside == {k \in DOMAIN F : F[k].start <= a /\ a < F[k].end}
    IN  IF a < F[1].start THEN NoRow
        ELSE IF inside = {} THEN EndFdeMarker
        ELSE RuleAt(RowsOf(F[CHOOSE k \in inside : TRUE], o), a)

LEMMA RuleInside ==
    ASSUME NEW F, Sorted(F), NEW o, NEW n \in 1..Len(F), NEW a \in Nat, F[n].start <= a, a < F[n].end
    PROVE  RuleOf(F, o, a) = RuleAt(RowsOf(F[n], o), a)
<1> DEFINE inside == {k \in DOMAIN F : F[k].start <= a /\ a < F[k].end}
<1>1. /\ DOMAIN F = 1..Len(F) /\ Len(F) \in Nat \ {0} /\ 1 \in 1..Len(F)
      /\ \A k \in 1..Len(F) : F[k].start \in Nat /\ F[k].end \in Nat /\ F[k].start < F[k].end
    BY DEF Sorted, IsFde
<1>2. n \in inside
    BY <1>1
<1>3. ASSUME NEW k \in inside PROVE k = n
    <2>1. k \in 1..Len(F) /\ F[k].start <= a /\ a < F[k].end
        BY <1>1
    <2>2. ~(k < n)
        <3> SUFFICES ASSUME k < n PROVE FALSE
            OBVIOUS
        <3>1. F[k].end <= F[n].start
            BY <2>1, Apart
        <3> QED
            BY <1>1, <2>1, <3>1
    <2>3. ~(n < k)
        <3> SUFFICES ASSUME n < k PROVE FALSE
            OBVIOUS
        <3>1. F[n].end <= F[k].start
            BY <2>1, Apart
        <3> QED
            BY <1>1, <2>1, <3>1
    <2> QED
        BY <1>1, <2>1, <2>2, <2>3
<1>4. ~(a < F[1].start)
    <2>1. CASE n = 1
        BY <1>1, <2>1
    <2>2. CASE 1 < n
        <3>1. F[1].end <= F[n].start
            BY <1>1, <2>2, Apart
        <3> QED
            BY <1>1, <3>1
    <2> QED
        BY <1>1, <2>1, <2>2
<1>5. (CHOOSE k \in inside : TRUE) = n /\ inside # {}
    <2> HIDE DEF inside
    <2> QED
        BY <1>2, <1>3
<1> QED
    BY <1>4, <1>5, Zenon DEF RuleOf

LEMMA RuleBetween ==
    ASSUME NEW F, Sorted(F), NEW o, NEW n \in 1..Len(F), NEW a \in Nat, F[n].end <= a,
           n < Len(F) => a < F[n + 1].start
    PROVE  RuleOf(F, o, a) = EndFdeMarker
<1> DEFINE inside == {k \in DOMAIN F : F[k].start <= a /\ a < F[k].end}
<1>1. /\ DOMAIN F = 1..Len(F) /\ Len(F) \in Nat \ {0} /\ 1 \in 1..Len(F)
      /\ \A k \in 1..Len(F) : F[k].start \in Nat /\ F[k].end \in Nat /\ F[k].start < F[k].end
    <2>1. DOMAIN F = 1..Len(F) /\ Len(F) \in Nat \ {0} /\ \A k \in 1..Len(F) : IsFde(F[k])
        BY Zenon DEF Sorted
    <2>2. 1 \in 1..Len(F)
        BY <2>1
    <2> QED
        BY <2>1, <2>2, Zenon DEF IsFde
<1>2. ASSUME NEW k \in inside PROVE FALSE
    <2>1. k \in 1..Len(F) /\ F[k].start <= a /\ a < F[k].end
        BY <1>1
    <2>2. CASE k = n
        BY <1>1, <2>1, <2>2
    <2>3. CASE k < n
        <3>1. F[k].end <= F[n].start
            BY <2>1, <2>3, Apart
        <3> QED
            BY <1>1, <2>1, <3>1
    <2>4. CASE k = n + 1
        <3>1. n < Len(F)
            BY <1>1, <2>1, <2>4
        <3> QED
            BY <1>1, <2>1, <2>4, <3>1
    <2>5. CASE n + 1 < k
        <3>1. n < Len(F) /\ n + 1 \in 1..Len(F)
            BY <1>1, <2>1, <2>5
        <3>2. F[n + 1].end <= F[k].start
            BY <2>1, <2>5, <3>1, Apart
        <3> QED
            BY <1>1, <2>1, <3>1, <3>2
    <2>6. k = n \/ k < n \/ k = n + 1 \/ n + 1 < k
        BY <1>1, <2>1
    <2> QED
        BY <2>2, <2>3, <2>4, <2>5, <2>6
<1>3. ~(a < F[1].start)
    <2>1. CASE n = 1
        BY <1>1, <2>1
    <2>2. CASE 1 < n
        <3>1. F[1].end <= F[n].start
            BY <1>1, <2>2, Apart
        <3> QED
            BY <1>1, <3>1
    <2> QED
        BY <1>1, <2>1, <2>2
<1> QED
    BY <1>2, <1>3, Zenon DEF RuleOf

\* The loop of process.
LEMMA ProcessLoop ==
    ASSUME NEW F, Sorted(F), NEW o
    PROVE  \E rows \in [0..Len(F) -> Seq(TableRow)] :
               /\ rows[0] = <<>>
               /\ \A n \in 1..Len(F) :
                     rows[n] = rows[n - 1] \o EndMarker(FunctionEndBefore(F, n)) \o RowsOf(F[n], o)
               /\ process(F, o) = rows[Len(F)]
<1> DEFINE N == Len(F)
           Step(n, K) == K \o EndMarker(FunctionEndBefore(F, n)) \o RowsOf(F[n], o)
           S == [p \in (1..N) \X Seq(TableRow) |-> Step(p[1], p[2])]
<1>1. N \in Nat /\ <<>> \in Seq(TableRow)
    BY DEF Sorted
<1>2. ASSUME NEW n \in 1..N, NEW K \in Seq(TableRow) PROVE Step(n, K) \in Seq(TableRow)
    <2>1. RowsOf(F[n], o) \in Seq(TableRow)
        BY RowsOfFacts, Zenon DEF Sorted
    <2>2. EndMarker(FunctionEndBefore(F, n)) \in Seq(TableRow)
        <3>1. CASE n = 1
            BY <1>1, <3>1 DEF FunctionEndBefore, EndMarker
        <3>2. CASE n # 1
            <4>1. n - 1 \in 1..N
                BY <1>1, <3>2
            <4>2. F[n - 1].end \in Nat
                BY <4>1, Zenon DEF Sorted, IsFde
            <4> QED
                BY <3>2, <4>2, MarkerFacts DEF FunctionEndBefore
        <3> QED
            BY <3>1, <3>2
    <2> QED
        BY <2>1, <2>2, ConcatProperties
<1>3. S \in [(1..N) \X Seq(TableRow) -> Seq(TableRow)]
    <2> HIDE DEF Step
    <2> QED
        BY <1>2
<1>4. PICK f : Unfolds(f, N, Seq(TableRow), <<>>, S)
    <2> HIDE DEF S, N
    <2> QED
        BY <1>1, <1>3, Recursion, Zenon
<1>5. \A k \in 1..N : f[k] = Step(k, f[k - 1])
    <2> TAKE k \in 1..N
    <2>1. f[k - 1] \in Seq(TableRow)
        BY <1>1, <1>4 DEF Unfolds
    <2> HIDE DEF Step
    <2> QED
        BY <1>4, <2>1, Zenon DEF Unfolds
<1>6. f = [n \in 0..N |-> IF n = 0 THEN <<>> ELSE Step(n, f[n - 1])]
    <2> HIDE DEF Step
    <2>1. \A n \in 0..N : f[n] = IF n = 0 THEN <<>> ELSE Step(n, f[n - 1])
        BY <1>1, <1>4, <1>5 DEF Unfolds
    <2> QED
        BY <1>4, <2>1 DEF Unfolds
<1>7. PICK g : g = [n \in 0..N |-> IF n = 0 THEN <<>> ELSE Step(n, g[n - 1])] /\ process(F, o) = g[N]
    BY <1>6, Zenon DEF process, RowsOf
<1>8. g = f
    <2> DEFINE G == {n \in 0..N : g[n] = f[n]}
    <2> HIDE DEF Step
    <2>1. 0 \in G
        BY <1>1, <1>4, <1>7 DEF Unfolds
    <2>2. ASSUME NEW n \in 1..N, n - 1 \in G PROVE n \in G
        BY <1>1, <1>6, <1>7, <2>2
    <2>3. \A n \in 0..N : n \in G
        <3> HIDE DEF G
        <3> QED
            BY <1>1, <2>1, <2>2, Induction, Zenon
    <2> QED
        BY <1>6, <1>7, <2>3
<1> HIDE DEF Step
<1> QED
    BY <1>4, <1>5, <1>7, <1>8, Zenon DEF Unfolds, Step

\* The rows of the first n functions say what the functions say, up to where the n-th ends.
SaysUpTo(s, F, o, n) ==
    /\ s \in Seq(TableRow) /\ s # <<>> /\ Ordered(s) /\ s[Len(s)].pc < F[n].end
    /\ \A a \in Nat : a < F[n].end => RuleAt(s, a) = RuleOf(F, o, a)

LEMMA SaysFirst ==
    ASSUME NEW F, Sorted(F), NEW o
    PROVE  SaysUpTo(RowsOf(F[1], o), F, o, 1)
<1> DEFINE f == F[1]
           T == RowsOf(f, o)
<1>1. IsFde(f) /\ 1 \in 1..Len(F)
    BY DEF Sorted
<1>2. /\ T \in Seq(TableRow) /\ Len(T) \in Nat \ {0} /\ DOMAIN T = 1..Len(T)
      /\ Increasing(T)
      /\ \A k \in 1..Len(T) : f.start <= T[k].pc /\ T[k].pc < f.end
    BY <1>1, RowsOfFacts, Zenon
<1>3. f.start \in Nat
    BY <1>1, Zenon DEF IsFde
<1> HIDE DEF T, f
<1>4. T # <<>> /\ Ordered(T) /\ T[Len(T)].pc < f.end
    <2>1. Len(T) \in 1..Len(T) /\ Len(T) # 0
        BY <1>2
    <2>2. T # <<>>
        BY <2>1
    <2> QED
        BY <1>2, <2>1, <2>2, IncreasingIsOrdered, Zenon
<1>5. ASSUME NEW a \in Nat, a < f.end PROVE RuleAt(T, a) = RuleOf(F, o, a)
    <2>1. CASE f.start <= a
        BY <1>1, <1>5, <2>1, RuleInside DEF f, T
    <2>2. CASE a < f.start
        <3>1. ASSUME NEW k \in DOMAIN T PROVE ~(T[k].pc <= a)
            <4>1. T[k] \in TableRow /\ f.start <= T[k].pc
                BY <1>2
            <4>2. T[k].pc \in Nat
                BY <4>1 DEF TableRow
            <4> QED
                BY <1>3, <2>2, <4>1, <4>2
        <3>2. RuleAt(T, a) = NoRow
            BY <3>1, RuleAtNone
        <3> QED
            BY <2>2, <3>2 DEF RuleOf, f
    <2> QED
        BY <1>3, <2>1, <2>2
<1> QED
    BY <1>2, <1>4, <1>5, Zenon DEF SaysUpTo, T, f

LEMMA SaysNext ==
    ASSUME NEW F, Sorted(F), NEW o, NEW n \in 2..Len(F), NEW s, SaysUpTo(s, F, o, n - 1), F[n - 1].end # o
    PROVE  SaysUpTo(s \o Marker(F[n - 1].end) \o RowsOf(F[n], o), F, o, n)
<1> DEFINE e == F[n - 1].end
           f == F[n]
           u == s \o Marker(e) \o RowsOf(f, o)
<1>1. n \in 1..Len(F) /\ n - 1 \in 1..Len(F) /\ n - 1 + 1 = n /\ n - 1 < Len(F)
    BY DEF Sorted
<1>2. e \in Nat /\ IsFde(f) /\ e <= f.start /\ f.start \in Nat
    BY <1>1, Zenon DEF Sorted, IsFde
<1>3. /\ s \in Seq(TableRow) /\ s # <<>> /\ Ordered(s) /\ s[Len(s)].pc < e
      /\ \A a \in Nat : a < e => RuleAt(s, a) = RuleOf(F, o, a)
    BY DEF SaysUpTo
<1>4. /\ u \in Seq(TableRow) /\ u # <<>> /\ Ordered(u) /\ u[Len(u)].pc < f.end
      /\ \A a \in Nat : RuleAt(u, a) = IF f.start <= a THEN RuleAt(RowsOf(f, o), a)
                                       ELSE IF e <= a THEN EndFdeMarker ELSE RuleAt(s, a)
    <2>1. e # o
        OBVIOUS
    <2>2. u = s \o Marker(e) \o RowsOf(f, o)
        OBVIOUS
    <2> HIDE DEF e, f, u
    <2>3. EndsBefore(s, e, f, o)
        BY <1>2, <1>3, <2>1, Zenon DEF EndsBefore
    <2>4. SaysMore(u, s, e, f, o)
        BY <2>2, <2>3, ProcessStep, Zenon
    <2> QED
        BY <2>4, Zenon DEF SaysMore
<1>5. ASSUME NEW a \in Nat, a < f.end PROVE RuleAt(u, a) = RuleOf(F, o, a)
    <2> HIDE DEF u
    <2>1. CASE f.start <= a
        <3>1. RuleOf(F, o, a) = RuleAt(RowsOf(f, o), a)
            BY <1>1, <1>5, <2>1, RuleInside
        <3> QED
            BY <1>4, <2>1, <3>1
    <2>2. CASE ~(f.start <= a) /\ e <= a
        <3>1. RuleOf(F, o, a) = EndFdeMarker
            <4>1. a < F[n - 1 + 1].start
                BY <1>1, <1>2, <2>2
            <4> QED
                BY <1>1, <2>2, <4>1, RuleBetween, Zenon
        <3> QED
            BY <1>4, <2>2, <3>1
    <2>3. CASE ~(f.start <= a) /\ ~(e <= a)
        <3>1. a < e
            BY <1>2, <2>3
        <3> QED
            BY <1>3, <1>4, <2>3, <3>1, Zenon
    <2> QED
        BY <2>1, <2>2, <2>3, Zenon
<1> QED
    BY <1>4, <1>5, Zenon DEF SaysUpTo

\* Where no function ends at the address where unwinding is made to stop.
NoneEndsAt(F, o) == \A n \in 1..Len(F) : F[n].end # o

LEMMA ProcessRules ==
    ASSUME NEW F, Sorted(F), NEW o, NoneEndsAt(F, o)
    PROVE  SaysUpTo(process(F, o), F, o, Len(F))
<1>1. PICK rows \in [0..Len(F) -> Seq(TableRow)] :
          /\ rows[0] = <<>>
          /\ \A n \in 1..Len(F) :
                rows[n] = rows[n - 1] \o EndMarker(FunctionEndBefore(F, n)) \o RowsOf(F[n], o)
          /\ process(F, o) = rows[Len(F)]
    BY ProcessLoop, Zenon
<1>2. Len(F) \in Nat \ {0}
    BY DEF Sorted
<1> DEFINE G == {n \in 0..Len(F) : n # 0 => SaysUpTo(rows[n], F, o, n)}
<1>3. 0 \in G
    BY <1>2
<1>4. ASSUME NEW n \in 1..Len(F), n - 1 \in G PROVE n \in G
    <2>1. rows[n] = rows[n - 1] \o EndMarker(FunctionEndBefore(F, n)) \o RowsOf(F[n], o)
        BY <1>1, Zenon
    <2>2. CASE n = 1
        <3>1. rows[n] = <<>> \o <<>> \o RowsOf(F[1], o)
            <4>1. EndMarker(FunctionEndBefore(F, n)) = <<>>
                BY <2>2, Zenon DEF FunctionEndBefore, EndMarker
            <4>2. rows[n - 1] = <<>>
                BY <1>1, <2>2
            <4> QED
                BY <2>1, <2>2, <4>1, <4>2, Zenon
        <3>2. RowsOf(F[1], o) \in Seq(TableRow)
            BY <2>2, RowsOfFacts, Zenon DEF Sorted
        <3>3. rows[n] = RowsOf(F[1], o)
            BY <3>1, <3>2, ConcatEmpty
        <3>4. SaysUpTo(rows[n], F, o, n)
            BY <2>2, <3>3, SaysFirst, Zenon
        <3> QED
            BY <1>2, <3>4
    <2>3. CASE n # 1
        <3>1. n \in 2..Len(F) /\ n - 1 \in 1..Len(F) /\ n - 1 # 0
            BY <1>2, <2>3
        <3>2. F[n - 1].end \in Nat /\ F[n - 1].end # o
            BY <3>1, Zenon DEF Sorted, IsFde, NoneEndsAt
        <3>3. EndMarker(FunctionEndBefore(F, n)) = Marker(F[n - 1].end)
            BY <2>3, <3>2, MarkerFacts DEF FunctionEndBefore
        <3>4. SaysUpTo(rows[n - 1], F, o, n - 1)
            BY <1>4, <3>1
        <3>5. SaysUpTo(rows[n], F, o, n)
            BY <2>1, <3>1, <3>2, <3>3, <3>4, SaysNext, Zenon
        <3> QED
            BY <1>2, <3>5
    <2> QED
        BY <2>2, <2>3
<1>5. \A n \in 0..Len(F) : n \in G
    <2> HIDE DEF G
    <2> QED
        BY <1>2, <1>3, <1>4, Induction, Zenon
<1> QED
    BY <1>1, <1>2, <1>5

\* The compact table of functions: compact_unwind_info (convert.rs) makes rows at
\* increasing addresses that say of every address what the functions say.
LEMMA CompactRules ==
    ASSUME NEW F, Sorted(F), NEW o, NoneEndsAt(F, o), NEW t, t = compact_unwind_info(F, o)
    PROVE  /\ t \in Seq(TableRow) /\ t # <<>> /\ Increasing(t)
           /\ \A a \in Nat : RuleAt(t, a) = RuleOf(F, o, a)
<1> DEFINE N == Len(F)
           s == process(F, o)
           e == F[N].end
           u == s \o Marker(e)
<1>1. N \in Nat \ {0} /\ N \in 1..N /\ e \in Nat /\ F # <<>>
    <2>1. N \in Nat \ {0}
        BY DEF Sorted
    <2>2. N \in 1..N /\ F # <<>>
        BY <2>1
    <2> QED
        BY <2>1, <2>2, Zenon DEF Sorted, IsFde
<1>2. /\ s \in Seq(TableRow) /\ s # <<>> /\ Ordered(s) /\ s[Len(s)].pc < e
      /\ \A a \in Nat : a < e => RuleAt(s, a) = RuleOf(F, o, a)
    BY ProcessRules, Zenon DEF SaysUpTo
<1>3. t = remove_redundant(remove_unnecesary_markers(u))
    BY <1>1, MarkerFacts DEF compact_unwind_info
<1> HIDE DEF s, N, e
<1>4. Marker(e) \in Seq(TableRow) /\ Len(Marker(e)) = 1 /\ Marker(e)[1] \in TableRow
      /\ Marker(e)[1].pc = e /\ Marker(e)[1].rule = EndFdeMarker
    BY <1>1, MarkerFacts
<1>5. u \in Seq(TableRow) /\ Ordered(u) /\ u # <<>>
    <2> DEFINE M == Marker(e)
    <2>1. Ordered(M) /\ M # <<>>
        <3> HIDE DEF M
        <3>1. 2..Len(M) = {} /\ Len(M) # 0
            BY <1>4 DEF M
        <3>2. Ordered(M)
            BY <3>1 DEF Ordered
        <3>3. M # <<>>
            BY <3>1
        <3> QED
            BY <3>2, <3>3
    <2> QED
        BY <1>2, <1>4, <2>1, OrderedConcat
<1>6. ASSUME NEW a \in Nat PROVE RuleAt(u, a) = RuleOf(F, o, a)
    <2>1. u = Append(s, Marker(e)[1])
        <3>1. Marker(e) = <<Marker(e)[1]>>
            BY DEF Marker
        <3> QED
            BY <1>2, <1>4, <3>1, AppendIsConcat, Zenon
    <2>2. RuleAt(u, a) = IF e <= a THEN EndFdeMarker ELSE RuleAt(s, a)
        BY <1>2, <1>4, <2>1, RuleAtAppend, Zenon
    <2>3. CASE e <= a
        <3>1. RuleOf(F, o, a) = EndFdeMarker
            <4>1. ~(N < N)
                BY <1>1
            <4> QED
                BY <1>1, <2>3, <4>1, RuleBetween, Zenon DEF N, e
        <3> QED
            BY <2>2, <2>3, <3>1
    <2>4. CASE ~(e <= a)
        <3>1. a < e
            BY <1>1, <2>4
        <3> QED
            BY <1>2, <2>2, <2>4, <3>1, Zenon
    <2> QED
        BY <2>3, <2>4
<1> HIDE DEF u
<1>7. SameRules(remove_unnecesary_markers(u), u)
    BY <1>5, MarkersRemoved
<1> DEFINE v == remove_unnecesary_markers(u)
<1>8. v \in Seq(TableRow) /\ Increasing(v) /\ v # <<>> /\ \A a \in Nat : RuleAt(v, a) = RuleAt(u, a)
    BY <1>5, <1>7 DEF SameRules
<1> HIDE DEF v
<1>9. SameRules(remove_redundant(v), v)
    BY <1>8, RedundantRemoved
<1> QED
    BY <1>3, <1>6, <1>8, <1>9 DEF SameRules, v

LEMMA PcsTyped ==
    ASSUME NEW s \in Seq(TableRow)
    PROVE  Len(s) \in Nat /\ \A n \in 1..Len(s) : s[n].pc \in Nat
<1>1. Len(s) \in Nat /\ \A n \in 1..Len(s) : s[n] \in TableRow
    BY LenProperties
<1>2. \A r \in TableRow : r.pc \in Nat
    BY DEF TableRow
<1> QED
    BY <1>1, <1>2

LEMMA IncreasingAll ==
    ASSUME NEW s \in Seq(TableRow), Increasing(s), NEW j \in 1..Len(s), NEW k \in 1..Len(s), j < k
    PROVE  s[j].pc < s[k].pc
<1> DEFINE N == Len(s)
           G == {n \in 0..N : n \in 1..N /\ j < n => s[j].pc < s[n].pc}
<1>1. N \in Nat /\ \A n \in 1..N : s[n].pc \in Nat
    BY PcsTyped
<1>2. 0 \in G
    BY <1>1
<1>3. ASSUME NEW n \in 1..N, n - 1 \in G PROVE n \in G
    <2> SUFFICES ASSUME j < n PROVE s[j].pc < s[n].pc
        BY <1>1
    <2>1. n \in 2..N /\ n - 1 \in 1..N
        BY <1>1
    <2>2. s[n - 1].pc < s[n].pc
        BY <2>1 DEF Increasing
    <2>3. CASE j = n - 1
        BY <2>2, <2>3
    <2>4. CASE j < n - 1
        <3>1. s[j].pc < s[n - 1].pc
            BY <1>3, <2>1, <2>4
        <3> QED
            BY <1>1, <2>1, <2>2, <3>1
    <2> QED
        BY <1>1, <2>3, <2>4
<1>4. \A n \in 0..N : n \in G
    <2> HIDE DEF G, N
    <2> QED
        BY <1>1, <1>2, <1>3, Induction, Zenon
<1> QED
    BY <1>1, <1>4

\* The program counters of rows, from row 0.
TableOf(s) == [k \in 0..Len(s) - 1 |-> s[k + 1].pc]

LEMMA RowsMakeTable ==
    ASSUME NEW s \in Seq(TableRow), s # <<>>, Increasing(s)
    PROVE  IsTable(TableOf(s))
<1> DEFINE N == Len(s)
           t == TableOf(s)
<1>1. N \in Nat \ {0} /\ \A n \in 1..N : s[n].pc \in Nat
    BY PcsTyped, EmptySeq
<1>2. DOMAIN t = 0..N - 1 /\ t = [k \in 0..N - 1 |-> s[k + 1].pc]
    BY DEF TableOf
<1>3. RowCount(t) = N
    <2>1. Cardinality(0..N - 1) = N
        <3> HIDE DEF N
        <3>1. 0 \in Int /\ N - 1 \in Int /\ ~(0 > N - 1) /\ (N - 1) - 0 + 1 = N
            BY ONLY <1>1
        <3> QED
            BY <3>1, FS_Interval, Zenon
    <2> QED
        BY <1>2, <2>1, Zenon DEF RowCount
<1>4. \A k \in 0..N - 1 : k + 1 \in 1..N /\ t[k] = s[k + 1].pc
    BY <1>1, <1>2
<1> HIDE DEF t, N
<1>5. t \in [0..N - 1 -> Nat]
    BY <1>1, <1>2, <1>4
<1>6. ASSUME NEW j \in 0..N - 1, NEW k \in 0..N - 1, j < k PROVE t[j] < t[k]
    <2>1. j + 1 \in 1..N /\ k + 1 \in 1..N /\ j + 1 < k + 1
        BY <1>1, <1>6
    <2>2. s[j + 1].pc < s[k + 1].pc
        BY <2>1, IncreasingAll DEF N
    <2> QED
        BY <1>4, <2>2
<1> QED
    BY <1>1, <1>2, <1>3, <1>5, <1>6, Zenon DEF IsTable, t

\* The functions an executable may have, in the order in which they arrive.
LEMMA FdesSorted ==
    ASSUME NEW F \in FdeLists
    PROVE  Sorted(F)
<1>1. PICK m \in 1..MAX_FDES : F \in [1..m -> Fdes]
    BY DEF FdeLists, NonEmptySeq
<1>2. m \in Nat /\ F \in Seq(Fdes) /\ Len(F) = m /\ DOMAIN F = 1..m
    BY <1>1, UnwindInfoAssumption, IsASeq, LenProperties
<1>3. m # 0
    BY <1>1, UnwindInfoAssumption
<1>4. ASSUME NEW n \in 1..m PROVE IsFde(F[n])
    <2>1. F[n] \in Fdes
        BY <1>1
    <2>2. PICK start \in 0..MAX_PC - 1, end \in 1..MAX_PC :
              F[n] \in [start : {start}, end : {end}, rows : FdeRows(start, end)]
        <3>1. PICK start \in 0..MAX_PC - 1 : F[n] \in FdesFrom(start)
            BY <2>1 DEF Fdes
        <3> QED
            BY <3>1 DEF FdesFrom
    <2> DEFINE f == F[n]
               R == f.rows
    <2>3. f.start = start /\ f.end = end /\ R \in FdeRows(start, end) /\ start \in Nat /\ end \in Nat
        BY <2>2, UnwindTableAssumption
    <2> HIDE DEF f
    <2>4. PICK k \in 1..FDE_ROWS : R \in [1..k -> [pc : start..end - 1, rule : Rule]]
        BY <2>3, Zenon DEF FdeRows, NonEmptySeq
    <2>5. /\ R[1].pc = start
          /\ \A j \in 2..Len(R) : R[j - 1].pc < R[j].pc
        BY <2>3 DEF FdeRows
    <2> HIDE DEF R
    <2>6. [pc : start..end - 1, rule : Rule] \subseteq FdeRow
        BY <2>3 DEF FdeRow
    <2>7. k \in Nat \ {0} /\ R \in Seq(FdeRow) /\ R # <<>> /\ Len(R) = k /\ DOMAIN R = 1..k
        <3>1. R \in [1..k -> FdeRow] /\ k \in Nat \ {0}
            BY <2>4, <2>6, UnwindInfoAssumption
        <3> QED
            BY <3>1, IsASeq, LenProperties, EmptySeq
    <2>8. ASSUME NEW j \in 1..k PROVE start <= R[j].pc /\ R[j].pc < end
        <3>1. R[j].pc \in start..end - 1
            BY <2>4
        <3> QED
            BY <2>3, <3>1
    <2>9. start < end
        <3>1. 1 \in 1..k
            BY <2>7
        <3>2. R[1].pc < end
            BY <2>8, <3>1
        <3> QED
            BY <2>5, <3>2
    <2>10. IsFde(f)
        BY <2>3, <2>5, <2>7, <2>8, <2>9, Zenon DEF IsFde, R
    <2> QED
        BY <2>10 DEF f
<1>5. \A n \in 2..m : F[n - 1].end <= F[n].start
    BY <1>2 DEF FdeLists
<1> QED
    BY <1>2, <1>3, <1>4, <1>5 DEF Sorted

\* What the unwinder unwinds by: the table is that of the compact rows, they say what
\* the functions say, and the lookup is correct.
InfoInv ==
    \/ MarkerLost
    \/ /\ LookupInv
       /\ unwind_info \in Seq(TableRow) /\ table = TableOf(unwind_info)
       /\ \A a \in Nat : RuleAt(unwind_info, a) = RuleOf(fdes, first_frame_override, a)

LEMMA InfoInitial == InfoInit => InfoInv
<1> SUFFICES ASSUME InfoInit, ~MarkerLost PROVE InfoInv
    BY DEF InfoInv
<1>1. Sorted(fdes)
    BY FdesSorted DEF InfoInit
<1>2. NoneEndsAt(fdes, first_frame_override)
    <2>1. DOMAIN fdes = 1..Len(fdes)
        BY <1>1 DEF Sorted
    <2> QED
        BY <2>1 DEF MarkerLost, NoneEndsAt
<1>3. unwind_info = compact_unwind_info(fdes, first_frame_override) /\ table = TableOf(unwind_info) /\ IndexInit
    BY DEF InfoInit, TableOf
<1>4. /\ unwind_info \in Seq(TableRow) /\ unwind_info # <<>> /\ Increasing(unwind_info)
      /\ \A a \in Nat : RuleAt(unwind_info, a) = RuleOf(fdes, first_frame_override, a)
    BY <1>1, <1>2, <1>3, CompactRules
<1>5. LookupInv
    BY <1>3, <1>4, RowsMakeTable, UnindexedInit
<1> QED
    BY <1>3, <1>4, <1>5 DEF InfoInv

LEMMA InfoPreserved == InfoInv /\ [InfoNext]_<<vars, infoVars>> => InfoInv'
<1> SUFFICES ASSUME InfoInv, [InfoNext]_<<vars, infoVars>> PROVE InfoInv'
    OBVIOUS
<1>1. [Next]_vars /\ UNCHANGED infoVars
    BY DEF InfoNext
<1>2. UNCHANGED <<fdes, first_frame_override, unwind_info, table>>
    <2>1. UNCHANGED table
        BY <1>1, Zenon DEF Next, vars, to_pages_row, to_pages_last, find_page, Narrow, Exhausted, SearchDone,
           NextLookup, delete_bpf_pages, load_again, pagingVars, searchVars
    <2> QED
        BY <1>1, <2>1 DEF infoVars
<1>3. CASE MarkerLost
    BY <1>2, <1>3 DEF InfoInv, MarkerLost
<1>4. CASE ~MarkerLost
    <2>1. LookupInv'
        BY <1>1, <1>4, LookupNext DEF InfoInv
    <2>2. (\A a \in Nat : RuleAt(unwind_info, a) = RuleOf(fdes, first_frame_override, a))'
        BY <1>2, <1>4 DEF InfoInv
    <2>3. (unwind_info \in Seq(TableRow) /\ table = TableOf(unwind_info))'
        BY <1>2, <1>4 DEF InfoInv
    <2> QED
        BY <2>1, <2>2, <2>3 DEF InfoInv
<1> QED
    BY <1>3, <1>4

\* For every set of functions, override, page size and search depth: the row the
\* unwinder finds carries the rule of the function around the program counter, through
\* the collection of the rows, the two in-place passes that compact them, paging and
\* the search by low bits (convert.rs:271-320, pages.rs, profiler.bpf.c:76-139).
THEOREM AlwaysUnwindsAsFunctionsSay == InfoSpec => []UnwindsAsFunctionsSay
<1>1. InfoInv => UnwindsAsFunctionsSay
    <2> SUFFICES ASSUME InfoInv, ~MarkerLost, phase = "found", PageHasRows, table_idx \in DOMAIN table
                 PROVE  unwind_info[table_idx + 1].rule = RuleOfFunctions(pc)
        BY DEF UnwindsAsFunctionsSay
    <2> DEFINE s == unwind_info
               r == table_idx
    <2>1. /\ LookupInv /\ s \in Seq(TableRow) /\ table = TableOf(s)
          /\ \A a \in Nat : RuleAt(s, a) = RuleOf(fdes, first_frame_override, a)
        BY DEF InfoInv
    <2>2. pc \in Nat
        BY <2>1, UnwindTableAssumption DEF LookupInv, TypeOK
    <2>3. Len(s) \in Nat /\ \A n \in 1..Len(s) : s[n].pc \in Nat
        BY <2>1, PcsTyped
    <2>4. DOMAIN table = 0..Len(s) - 1 /\ \A k \in 0..Len(s) - 1 : table[k] = s[k + 1].pc
        BY <2>1 DEF TableOf
    <2>5. table[r] <= pc /\ \A k \in DOMAIN table : k > r => pc < table[k]
        <3>1. r \in 0..Len(s) - 1
            BY <2>4
        <3>2. r # BINARY_SEARCH_EXHAUSTED_ITERATIONS /\ r # BINARY_SEARCH_DEFAULT
            BY <2>3, <3>1 DEF BINARY_SEARCH_EXHAUSTED_ITERATIONS, BINARY_SEARCH_DEFAULT
        <3>3. LookupCorrect
            BY <2>1 DEF LookupInv
        <3> QED
            BY <3>2, <3>3, Zenon DEF LookupCorrect, Covers
    <2>6. /\ r + 1 \in DOMAIN s /\ s[r + 1].pc <= pc
          /\ \A j \in DOMAIN s : s[j].pc <= pc => j <= r + 1
        <3>1. r \in 0..Len(s) - 1 /\ DOMAIN s = 1..Len(s)
            BY <2>1, <2>4, LenProperties, Zenon
        <3>2. ASSUME NEW j \in 1..Len(s), s[j].pc <= pc PROVE j <= r + 1
            <4> SUFFICES ASSUME j > r + 1 PROVE FALSE
                BY <2>3, <3>1
            <4>1. j - 1 \in 0..Len(s) - 1 /\ j - 1 > r /\ j - 1 + 1 = j
                BY <2>3, <3>1
            <4>2. pc < table[j - 1] /\ table[j - 1] = s[j].pc
                BY <2>4, <2>5, <4>1
            <4> QED
                BY <2>2, <2>3, <3>2, <4>2
        <3>3. r + 1 \in 1..Len(s) /\ s[r + 1].pc <= pc
            BY <2>3, <2>4, <2>5, <3>1
        <3> QED
            BY <3>1, <3>2, <3>3
    <2>7. RuleAt(s, pc) = s[r + 1].rule
        BY <2>1, <2>2, <2>6, RuleAtLast, Zenon
    <2>8. RuleOf(fdes, first_frame_override, pc) = RuleOfFunctions(pc)
        BY Zenon DEF RuleOf, RuleOfFunctions, RowsOf
    <2> QED
        BY <2>1, <2>2, <2>7, <2>8
<1> QED
    BY <1>1, InfoInitial, InfoPreserved, PTL DEF InfoSpec
=============================================================================
