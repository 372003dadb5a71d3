----------------------------- MODULE PprofProofs -----------------------------
(***************************************************************************)
(* Proofs about Pprof, for any processes, object files, samples and tasks. *)
(***************************************************************************)
EXTENDS Pprof, WellFoundedInduction, TLAPS

-----------------------------------------------------------------------------
(* Sequences.                                                              *)

LEMMA LenProperties ==
    ASSUME NEW S, NEW s \in Seq(S)
    PROVE  Len(s) \in Nat /\ s \in [1..Len(s) -> S] /\ DOMAIN s = 1..Len(s)
OBVIOUS

LEMMA ElementOfSeq ==
    ASSUME NEW S, NEW s \in Seq(S), NEW n \in 1..Len(s)
    PROVE  s[n] \in S
OBVIOUS

LEMMA AppendProperties ==
    ASSUME NEW S, NEW s \in Seq(S), NEW x \in S
    PROVE  /\ Append(s, x) \in Seq(S) /\ Append(s, x) # <<>> /\ Len(Append(s, x)) = Len(s) + 1
           /\ \A i \in 1..Len(s) : Append(s, x)[i] = s[i]
           /\ Append(s, x)[Len(s) + 1] = x
OBVIOUS

LEMMA ConcatProperties ==
    ASSUME NEW S, NEW s \in Seq(S), NEW t \in Seq(S)
    PROVE  /\ s \o t \in Seq(S) /\ Len(s \o t) = Len(s) + Len(t)
           /\ \A i \in 1..Len(s) + Len(t) : (s \o t)[i] = IF i <= Len(s) THEN s[i] ELSE t[i - Len(s)]
OBVIOUS

LEMMA HeadTailProperties ==
    ASSUME NEW S, NEW s \in Seq(S), s # <<>>
    PROVE  /\ Head(s) \in S /\ Tail(s) \in Seq(S) /\ Len(Tail(s)) = Len(s) - 1
           /\ \A i \in 1..Len(Tail(s)) : Tail(s)[i] = s[i + 1]
OBVIOUS

-----------------------------------------------------------------------------
(* Induction, and functions defined by recursion.                          *)

\* A set of numbers that is not empty has a least element.
LEMMA LeastNumber ==
    ASSUME NEW T \in SUBSET Nat, T # {}
    PROVE  \E x \in T : \A y \in T : x <= y
<1> DEFINE R == OpToRel(<, Nat)
<1>1. IsWellFoundedOn(R, Nat)
    BY NatLessThanWellFounded, Zenon
<1>2. \A x, y \in Nat : <<y, x>> \in R <=> y < x
    BY DEF OpToRel
<1> HIDE DEF R
<1>3. PICK x \in T : \A y \in T : ~(<<y, x>> \in R)
    BY <1>1, WFMin, Zenon
<1>4. \A y \in T : x <= y
    <2> TAKE y \in T
    <2>1. x \in Nat /\ y \in Nat /\ ~(y < x)
        BY <1>2, <1>3, Zenon
    <2> QED
        BY <2>1
<1> QED
    BY <1>4

\* What holds of 0, and of k if of k - 1, holds up to n.
LEMMA Induction ==
    ASSUME NEW n \in Nat, NEW G, 0 \in G, \A k \in 1..n : k - 1 \in G => k \in G
    PROVE  \A k \in 0..n : k \in G
<1> DEFINE T == {k \in 0..n : k \notin G}
<1> SUFFICES ASSUME T # {} PROVE FALSE
    OBVIOUS
<1>1. PICK x \in T : \A y \in T : x <= y
    <2>1. T \in SUBSET Nat
        OBVIOUS
    <2> HIDE DEF T
    <2> QED
        BY <2>1, LeastNumber
<1>2. x \in 1..n /\ x - 1 \in 0..n
    OBVIOUS
<1>3. x - 1 \notin T
    BY <1>1, <1>2
<1> QED
    BY <1>2, <1>3

\* A set of numbers up to n has a greatest element.
LEMMA Greatest ==
    ASSUME NEW n \in Nat, NEW T \in SUBSET (1..n), T # {}
    PROVE  \E x \in T : \A y \in T : y <= x
<1> DEFINE D == {n - x : x \in T}
<1>1. D \in SUBSET Nat /\ D # {}
    <2>1. \A x \in T : n - x \in Nat
        OBVIOUS
    <2> QED
        BY <2>1, Zenon
<1>2. PICK d \in D : \A e \in D : d <= e
    BY <1>1, LeastNumber, Zenon
<1>3. PICK x \in T : d = n - x
    OBVIOUS
<1>4. ASSUME NEW y \in T PROVE y <= x
    <2>1. n - x <= n - y
        BY <1>2, <1>3, Zenon
    <2> QED
        BY <2>1
<1> QED
    BY <1>4

\* f is defined by recursion on 0..n: from a, with the step F.
Unfolds(f, n, S, a, F) ==
    f \in [0..n -> S] /\ f[0] = a /\ \A k \in 1..n : f[k] = F[<<k, f[k - 1]>>]

\* A function defined by recursion on an interval exists.
LEMMA Recursion ==
    ASSUME NEW n \in Nat, NEW S, NEW a \in S, NEW F \in [(1..n) \X S -> S]
    PROVE  \E f : Unfolds(f, n, S, a, F)
<1> DEFINE Upto(m) == \E f \in [0..m -> S] : f[0] = a /\ \A k \in 1..m : f[k] = F[<<k, f[k - 1]>>]
           G == {m \in 0..n : Upto(m)}
<1>1. 0 \in G
    <2> DEFINE g == [k \in 0..0 |-> a]
    <2>1. g \in [0..0 -> S] /\ g[0] = a /\ \A k \in 1..0 : g[k] = F[<<k, g[k - 1]>>]
        OBVIOUS
    <2> HIDE DEF g
    <2> QED
        BY <2>1
<1>2. ASSUME NEW m \in 1..n, m - 1 \in G PROVE m \in G
    <2>1. PICK f \in [0..m - 1 -> S] : f[0] = a /\ \A k \in 1..m - 1 : f[k] = F[<<k, f[k - 1]>>]
        BY <1>2
    <2> DEFINE g == [k \in 0..m |-> IF k < m THEN f[k] ELSE F[<<m, f[m - 1]>>]]
    <2>2. F[<<m, f[m - 1]>>] \in S
        OBVIOUS
    <2>3. g \in [0..m -> S] /\ g[0] = a
        BY <2>1, <2>2
    <2>4. ASSUME NEW k \in 1..m PROVE g[k] = F[<<k, g[k - 1]>>]
        <3>1. k - 1 < m /\ k - 1 \in 0..m /\ k \in 0..m
            OBVIOUS
        <3>2. g[k - 1] = f[k - 1]
            BY <3>1
        <3>3. CASE k < m
            BY <2>1, <3>1, <3>2, <3>3
        <3>4. CASE k = m
            BY <3>1, <3>2, <3>4
        <3> QED
            BY <3>3, <3>4
    <2> HIDE DEF g
    <2> QED
        BY <2>3, <2>4
<1> HIDE DEF G
<1>3. n \in G
    BY <1>1, <1>2, Induction
<1> QED
    BY <1>3 DEF G, Unfolds

-----------------------------------------------------------------------------
(* Tables that only grow, and the entries in them.                         *)

Extended(s, t) == Len(s) <= Len(t) /\ \A i \in 1..Len(s) : t[i] = s[i]

LEMMA ExtendedSame ==
    ASSUME NEW S, NEW s \in Seq(S)
    PROVE  Extended(s, s)
BY LenProperties DEF Extended

LEMMA Singleton ==
    ASSUME NEW S, NEW x \in S
    PROVE  <<x>> \in Seq(S) /\ Len(<<x>>) = 1 /\ <<x>>[1] = x
OBVIOUS

LEMMA Appended ==
    ASSUME NEW S, NEW s \in Seq(S), NEW x \in S, NEW t, t = Append(s, x)
    PROVE  /\ t \in Seq(S) /\ Len(t) = Len(s) + 1 /\ t[Len(s) + 1] = x
           /\ \A i \in 1..Len(s) : t[i] = s[i]
BY LenProperties

\* First picks an index of the set.
LEMMA FirstIsOne ==
    ASSUME NEW n \in Nat, NEW places \in SUBSET (1..n), places # {}
    PROVE  First(places) \in places
<1>1. places \in SUBSET Nat
    OBVIOUS
<1>2. \E i \in places : \A j \in places : i <= j
    BY <1>1, LeastNumber
<1> QED
    BY <1>2, Zenon DEF First

\* t is the table with the entry, which known says the places of.
Includes(S, table, t, entry, known) ==
    /\ t \in Seq(S) /\ Extended(table, t) /\ IdOf(table, known) \in 1..Len(t)
    /\ \A i \in 1..Len(t) : t[i] = entry \/ (i \in 1..Len(table) /\ t[i] = table[i])
    /\ known = {} => t[IdOf(table, known)] = entry
    /\ known # {} => t = table /\ IdOf(table, known) \in known

\* With adds an entry only if none is known, and IdOf then finds one that is.
LEMMA WithFacts ==
    ASSUME NEW S, NEW table \in Seq(S), NEW entry \in S, NEW known \in SUBSET (1..Len(table)),
           NEW t, t = With(table, entry, known)
    PROVE  Includes(S, table, t, entry, known)
<1>1. Len(table) \in Nat
    BY LenProperties
<1>2. CASE known = {}
    <2>1. t = Append(table, entry) /\ IdOf(table, known) = Len(table) + 1
        BY <1>2 DEF With, IdOf, NextId
    <2>2. /\ Append(table, entry) \in Seq(S) /\ Len(Append(table, entry)) = Len(table) + 1
          /\ \A i \in 1..Len(table) : Append(table, entry)[i] = table[i]
          /\ Append(table, entry)[Len(table) + 1] = entry
        BY AppendProperties
    <2>3. Extended(table, t)
        BY <1>1, <2>1, <2>2 DEF Extended
    <2>4. Len(table) + 1 \in 1..Len(t)
        BY <1>1, <2>1, <2>2
    <2>5. t \in Seq(S)
        BY <2>1, <2>2, Zenon
    <2>6. t[IdOf(table, known)] = entry /\ IdOf(table, known) \in 1..Len(t)
        BY <2>1, <2>2, <2>4
    <2>7. ASSUME NEW i \in 1..Len(t) PROVE t[i] = entry \/ (i \in 1..Len(table) /\ t[i] = table[i])
        <3>1. i \in 1..Len(table) \/ i = Len(table) + 1
            BY <1>1, <2>1, <2>2
        <3> QED
            BY <2>1, <2>2, <3>1, Zenon
    <2> QED
        BY <1>2, <2>3, <2>5, <2>6, <2>7, Zenon DEF Includes
<1>3. CASE known # {}
    <2>1. t = table /\ IdOf(table, known) = First(known) /\ First(known) \in known
        BY <1>1, <1>3, FirstIsOne, Zenon DEF With, IdOf
    <2>2. Extended(table, table)
        BY ExtendedSame
    <2>3. First(known) \in 1..Len(table)
        BY <2>1, Zenon
    <2> QED
        BY <1>3, <2>1, <2>2, <2>3, Zenon DEF Includes
<1> QED
    BY <1>2, <1>3

\* A table that grows twice has grown.
LEMMA ExtendedTwice ==
    ASSUME NEW S, NEW s \in Seq(S), NEW t \in Seq(S), NEW u \in Seq(S), Extended(s, t), Extended(t, u)
    PROVE  Extended(s, u)
<1>1. Len(s) \in Nat /\ Len(t) \in Nat /\ Len(u) \in Nat
    BY LenProperties, Zenon
<1> QED
    BY <1>1 DEF Extended

-----------------------------------------------------------------------------
(* The tables of the builder refer to each other.                          *)

\* STRING has the strings that the code writes, which the provers are not told.
Words == {"none", "failed to symbolize", "unknown symbol", "not found",
          "samples", "count", "cpu", "nanoseconds", "lightswitch"}
Text == STRING \cup {EmptyString} \cup Words

LEMMA WordsAreText == EmptyString \in Text /\ \A w \in Words : w \in Text
BY Zenon DEF Text

LEMMA StringsAreText == \A s \in STRING : s \in Text
BY Zenon DEF Text

MappingEntry == [id : Nat \ {0}, start : Nat, end : Nat]
FunctionEntry == [name : Nat, file : Nat]
Line == [function : Nat, line : Int]
LocationEntry == [address : Int, mapping : Nat, lines : Seq(Line)]
SampleEntry == [locations : Seq(Nat), count : Nat, label : Nat]

BuilderType ==
    [mappings : Seq(MappingEntry), strings : Seq(Text), locations : Seq(LocationEntry),
     functions : Seq(FunctionEntry), samples : Seq(SampleEntry)]

\* Functions have a name, locations a mapping and functions.
Linked(b) ==
    /\ b \in BuilderType
    /\ \A i \in 1..Len(b.functions) : b.functions[i].name + 1 \in 1..Len(b.strings)
    /\ \A i \in 1..Len(b.locations) :
        /\ b.locations[i].mapping \in 1..Len(b.mappings)
        /\ \A k \in 1..Len(b.locations[i].lines) :
              b.locations[i].lines[k].function \in 1..Len(b.functions)

Grown(b, c) ==
    /\ Extended(b.strings, c.strings) /\ Extended(b.functions, c.functions)
    /\ Extended(b.mappings, c.mappings) /\ Extended(b.locations, c.locations)
    /\ c.samples = b.samples

\* The tables are sequences.
LEMMA BuilderLengths ==
    ASSUME NEW b \in BuilderType
    PROVE  /\ Len(b.strings) \in Nat /\ Len(b.functions) \in Nat
           /\ Len(b.mappings) \in Nat /\ Len(b.locations) \in Nat /\ Len(b.samples) \in Nat
           /\ DOMAIN b.strings = 1..Len(b.strings) /\ DOMAIN b.functions = 1..Len(b.functions)
           /\ DOMAIN b.mappings = 1..Len(b.mappings) /\ DOMAIN b.locations = 1..Len(b.locations)
           /\ DOMAIN b.samples = 1..Len(b.samples)
BY LenProperties DEF BuilderType

LEMMA GrownSame ==
    ASSUME NEW b \in BuilderType
    PROVE  Grown(b, b)
BY ExtendedSame DEF Grown, BuilderType

\* A builder that grows twice has grown.
LEMMA GrownTwice ==
    ASSUME NEW b \in BuilderType, NEW c \in BuilderType, NEW d \in BuilderType, Grown(b, c), Grown(c, d)
    PROVE  Grown(b, d)
BY ExtendedTwice DEF Grown, BuilderType

LEMMA StringsSet ==
    ASSUME NEW b \in BuilderType, NEW t \in Seq(Text), NEW c, c = [b EXCEPT !.strings = t]
    PROVE  /\ c \in BuilderType /\ c.strings = t /\ c.functions = b.functions
           /\ c.mappings = b.mappings /\ c.locations = b.locations /\ c.samples = b.samples
BY Zenon DEF BuilderType

LEMMA FunctionsSet ==
    ASSUME NEW b \in BuilderType, NEW t \in Seq(FunctionEntry), NEW c, c = [b EXCEPT !.functions = t]
    PROVE  /\ c \in BuilderType /\ c.functions = t /\ c.strings = b.strings
           /\ c.mappings = b.mappings /\ c.locations = b.locations /\ c.samples = b.samples
BY Zenon DEF BuilderType

LEMMA MappingsSet ==
    ASSUME NEW b \in BuilderType, NEW t \in Seq(MappingEntry), NEW c, c = [b EXCEPT !.mappings = t]
    PROVE  /\ c \in BuilderType /\ c.mappings = t /\ c.strings = b.strings
           /\ c.functions = b.functions /\ c.locations = b.locations /\ c.samples = b.samples
BY Zenon DEF BuilderType

LEMMA LocationsSet ==
    ASSUME NEW b \in BuilderType, NEW t \in Seq(LocationEntry), NEW c, c = [b EXCEPT !.locations = t]
    PROVE  /\ c \in BuilderType /\ c.locations = t /\ c.strings = b.strings
           /\ c.functions = b.functions /\ c.mappings = b.mappings /\ c.samples = b.samples
BY Zenon DEF BuilderType

\* Adding strings alone keeps the tables linked.
LEMMA LinkedKept ==
    ASSUME NEW b, Linked(b), NEW c \in BuilderType, Extended(b.strings, c.strings),
           Extended(b.mappings, c.mappings), c.functions = b.functions, c.locations = b.locations
    PROVE  Linked(c)
<1>1. /\ Len(b.strings) \in Nat /\ Len(c.strings) \in Nat /\ Len(b.strings) <= Len(c.strings)
      /\ Len(b.mappings) \in Nat /\ Len(c.mappings) \in Nat /\ Len(b.mappings) <= Len(c.mappings)
    BY BuilderLengths DEF Linked, Extended
<1>2. ASSUME NEW i \in 1..Len(c.functions) PROVE c.functions[i].name + 1 \in 1..Len(c.strings)
    BY <1>1 DEF Linked
<1>3. ASSUME NEW i \in 1..Len(c.locations)
      PROVE  /\ c.locations[i].mapping \in 1..Len(c.mappings)
             /\ \A k \in 1..Len(c.locations[i].lines) :
                   c.locations[i].lines[k].function \in 1..Len(c.functions)
    <2>1. /\ c.locations[i].mapping \in 1..Len(b.mappings)
          /\ \A k \in 1..Len(c.locations[i].lines) :
                c.locations[i].lines[k].function \in 1..Len(c.functions)
        BY Zenon DEF Linked
    <2>2. \A x \in 1..Len(b.mappings) : x \in 1..Len(c.mappings)
        BY ONLY <1>1
    <2> QED
        BY <2>1, <2>2, Zenon
<1> QED
    BY <1>2, <1>3, Zenon DEF Linked

\* Builder c is b with the string s.
IncludesString(b, c, s) ==
    /\ Linked(c) /\ Grown(b, c) /\ c.functions = b.functions /\ c.mappings = b.mappings
    /\ c.locations = b.locations /\ \E i \in 1..Len(c.strings) : c.strings[i] = s

\* get_or_insert_string: what was there stays, and the string is there.
LEMMA StringAdded ==
    ASSUME NEW b, Linked(b), NEW s \in Text, NEW c, c = get_or_insert_string(b, s)
    PROVE  IncludesString(b, c, s)
<1> DEFINE strings == IF b.strings = <<>> THEN <<EmptyString>> ELSE b.strings
           known == KnownStrings(strings, s)
           t == With(strings, s, known)
<1>1. b \in BuilderType /\ b.strings \in Seq(Text) /\ Len(b.strings) \in Nat
    BY BuilderLengths DEF Linked, BuilderType
<1>2. strings \in Seq(Text) /\ Extended(b.strings, strings)
    <2>1. CASE b.strings = <<>>
        <3>1. strings = <<EmptyString>> /\ Len(b.strings) = 0
            BY <2>1
        <3>2. <<EmptyString>> \in Seq(Text) /\ Len(<<EmptyString>>) = 1
            <4>1. EmptyString \in Text
                BY WordsAreText
            <4> QED
                BY <4>1, Singleton, Zenon
        <3> HIDE DEF strings
        <3>3. Extended(b.strings, strings)
            <4>1. Len(strings) = 1
                BY <3>1, <3>2, Zenon
            <4> QED
                BY <3>1, <4>1 DEF Extended
        <3> QED
            BY <3>1, <3>2, <3>3, Zenon
    <2>2. CASE b.strings # <<>>
        BY <1>1, <2>2, ExtendedSame
    <2> QED
        BY <2>1, <2>2
<1> HIDE DEF strings
<1>3. known \in SUBSET (1..Len(strings)) /\ \A i \in known : strings[i] = s
    BY <1>2, LenProperties DEF KnownStrings
<1> HIDE DEF known
<1>4. /\ t \in Seq(Text) /\ Extended(strings, t)
      /\ \E i \in 1..Len(t) : t[i] = s
    <2>1. Includes(Text, strings, t, s, known)
        BY <1>2, <1>3, WithFacts
    <2>2. t[IdOf(strings, known)] = s
        BY <1>3, <2>1, Zenon DEF Includes
    <2> QED
        BY <2>1, <2>2, Zenon DEF Includes
<1>5. c = [b EXCEPT !.strings = t]
    BY DEF get_or_insert_string, strings, known
<1> HIDE DEF t
<1>6. Extended(b.strings, t)
    BY <1>1, <1>2, <1>4, ExtendedTwice
<1>7. /\ c \in BuilderType /\ c.strings = t /\ c.functions = b.functions
      /\ c.mappings = b.mappings /\ c.locations = b.locations /\ c.samples = b.samples
    BY <1>1, <1>4, <1>5, StringsSet
<1>8. Grown(b, c)
    <2>1. Extended(b.functions, b.functions) /\ Extended(b.mappings, b.mappings) /\ Extended(b.locations, b.locations)
        BY <1>1, GrownSame, Zenon DEF Grown
    <2> QED
        BY <1>6, <1>7, <2>1, Zenon DEF Grown
<1>9. Linked(c)
    BY <1>7, <1>8, LinkedKept, Zenon DEF Grown
<1> QED
    BY <1>4, <1>7, <1>8, <1>9, Zenon DEF IncludesString

\* string_id finds a string that was inserted.
LEMMA StringFound ==
    ASSUME NEW b \in BuilderType, NEW s, NEW i \in 1..Len(b.strings), b.strings[i] = s
    PROVE  /\ string_id(b, s) \in Nat /\ string_id(b, s) + 1 \in 1..Len(b.strings)
           /\ b.strings[string_id(b, s) + 1] = s
<1> DEFINE known == KnownStrings(b.strings, s)
<1>1. Len(b.strings) \in Nat /\ DOMAIN b.strings = 1..Len(b.strings)
    BY BuilderLengths
<1>2. known \in SUBSET (1..Len(b.strings)) /\ i \in known /\ \A k \in known : b.strings[k] = s
    BY <1>1 DEF KnownStrings
<1>3. string_id(b, s) = IdOf(b.strings, known) - 1
    BY DEF string_id
<1> HIDE DEF known
<1>4. IdOf(b.strings, known) = First(known) /\ First(known) \in known
    BY <1>1, <1>2, FirstIsOne, Zenon DEF IdOf
<1>5. /\ First(known) - 1 \in Nat /\ First(known) \in 1..Len(b.strings)
      /\ First(known) - 1 + 1 = First(known)
    <2>1. First(known) \in 1..Len(b.strings)
        BY <1>2, <1>4, Zenon
    <2> QED
        BY <1>1, <2>1
<1>6. b.strings[First(known)] = s
    BY <1>2, <1>4, Zenon
<1>7. string_id(b, s) = First(known) - 1
    BY <1>3, <1>4, Zenon
<1>8. string_id(b, s) + 1 = First(known)
    BY <1>5, <1>7, Zenon
<1> QED
    BY <1>5, <1>6, <1>7, <1>8, Zenon

IncludesFunction(b, d, name) ==
    /\ Linked(d) /\ Grown(b, d) /\ d.mappings = b.mappings /\ d.locations = b.locations
    /\ function_id(d, name) \in 1..Len(d.functions)

\* add_function: what was there stays, and the function has its name.
LEMMA FunctionAdded ==
    ASSUME NEW b, Linked(b), NEW name \in Text, NEW file \in Text, NEW d, d = add_function(b, name, file)
    PROVE  IncludesFunction(b, d, name)
<1> DEFINE a == get_or_insert_string(b, name)
           c == get_or_insert_string(a, file)
           n == string_id(c, name)
           entry == [name |-> n, file |-> string_id(c, file)]
           known == KnownFunctions(c, n)
           t == With(c.functions, entry, known)
<1>1. d = [c EXCEPT !.functions = t]
    BY DEF add_function
<1>2. a = get_or_insert_string(b, name) /\ c = get_or_insert_string(a, file)
    OBVIOUS
<1>3. t = With(c.functions, entry, known)
    OBVIOUS
<1> HIDE DEF a, c, t
<1>4. IncludesString(b, a, name)
    BY <1>2, StringAdded, Zenon
<1>5. IncludesString(a, c, file)
    <2>1. Linked(a)
        BY <1>4, Zenon DEF IncludesString
    <2> QED
        BY <1>2, <2>1, StringAdded, Zenon
<1>6. b \in BuilderType /\ a \in BuilderType /\ c \in BuilderType
    BY <1>4, <1>5, Zenon DEF Linked, IncludesString
<1>7. \E i \in 1..Len(c.strings) : c.strings[i] = name
    <2>1. PICK i \in 1..Len(a.strings) : a.strings[i] = name
        BY <1>4 DEF IncludesString
    <2>2. Len(a.strings) \in Nat /\ Len(c.strings) \in Nat
        BY <1>6, BuilderLengths
    <2>3. Extended(a.strings, c.strings)
        BY <1>5, Zenon DEF Grown, IncludesString
    <2>4. i \in 1..Len(c.strings)
        BY <2>2, <2>3 DEF Extended
    <2> QED
        BY <2>1, <2>3, <2>4, Zenon DEF Extended
<1>8. n \in Nat /\ n + 1 \in 1..Len(c.strings) /\ string_id(c, file) \in Nat
    BY <1>5, <1>6, <1>7, StringFound, Zenon DEF IncludesString
<1> HIDE DEF n
<1>9. entry \in FunctionEntry /\ entry.name = n
    BY <1>8 DEF FunctionEntry
<1> HIDE DEF entry
<1>10. c.functions \in Seq(FunctionEntry) /\ Len(c.functions) \in Nat /\ DOMAIN c.functions = 1..Len(c.functions)
    BY <1>6, BuilderLengths DEF BuilderType
<1>11. known \in SUBSET (1..Len(c.functions)) /\ \A i \in known : c.functions[i].name = n
    BY <1>10 DEF KnownFunctions
<1> HIDE DEF known
<1>12. Includes(FunctionEntry, c.functions, t, entry, known)
    BY <1>3, <1>9, <1>10, <1>11, WithFacts, Zenon
<1>13. \E i \in 1..Len(t) : t[i].name = n
    BY <1>9, <1>11, <1>12, Zenon DEF Includes
<1>14. /\ d \in BuilderType /\ d.functions = t /\ d.strings = c.strings
       /\ d.mappings = c.mappings /\ d.locations = c.locations /\ d.samples = c.samples
    BY <1>1, <1>6, <1>12, FunctionsSet DEF Includes
<1>15. Grown(c, d)
    <2>1. Extended(c.strings, c.strings) /\ Extended(c.mappings, c.mappings) /\ Extended(c.locations, c.locations)
        BY <1>6, GrownSame, Zenon DEF Grown
    <2> QED
        BY <1>12, <1>14, <2>1, Zenon DEF Grown, Includes
<1>16. Linked(d)
    <2>1. ASSUME NEW i \in 1..Len(d.functions) PROVE d.functions[i].name + 1 \in 1..Len(d.strings)
        <3>1. t[i] = entry \/ (i \in 1..Len(c.functions) /\ t[i] = c.functions[i])
            BY <1>12, <1>14, Zenon DEF Includes
        <3> QED
            BY <1>5, <1>8, <1>9, <1>14, <3>1, Zenon DEF Linked, IncludesString
    <2>2. ASSUME NEW i \in 1..Len(d.locations)
          PROVE  /\ d.locations[i].mapping \in 1..Len(d.mappings)
                 /\ \A k \in 1..Len(d.locations[i].lines) :
                       d.locations[i].lines[k].function \in 1..Len(d.functions)
        <3>1. 1..Len(c.functions) \subseteq 1..Len(t)
            <4>1. Len(t) \in Nat /\ Len(c.functions) <= Len(t)
                BY <1>12, LenProperties DEF Extended, Includes
            <4> QED
                BY <1>10, <4>1
        <3> QED
            BY <1>5, <1>14, <3>1, Zenon DEF Linked, IncludesString
    <2> QED
        BY <1>14, <2>1, <2>2, Zenon DEF Linked
<1>17. function_id(d, name) \in 1..Len(d.functions)
    <2>1. string_id(d, name) = n
        BY <1>14, Zenon DEF string_id, n
    <2>2. function_id(d, name) = IdOf(d.functions, KnownFunctions(d, n))
        BY <2>1, Zenon DEF function_id
    <2> DEFINE found == KnownFunctions(d, n)
    <2>3. Len(d.functions) \in Nat /\ DOMAIN d.functions = 1..Len(d.functions)
        BY <1>14, BuilderLengths, Zenon
    <2>4. found \in SUBSET (1..Len(d.functions)) /\ found # {}
        BY <1>13, <1>14, <2>3 DEF KnownFunctions
    <2> HIDE DEF found
    <2>5. First(found) \in 1..Len(d.functions)
        BY <2>3, <2>4, FirstIsOne, Zenon
    <2> QED
        BY <2>2, <2>4, <2>5 DEF IdOf, found
<1>18. Grown(b, d)
    <2>1. Grown(b, c)
        BY <1>4, <1>5, <1>6, GrownTwice, Zenon DEF IncludesString
    <2> QED
        BY <1>6, <1>14, <1>15, <2>1, GrownTwice, Zenon
<1> QED
    BY <1>4, <1>5, <1>14, <1>16, <1>17, <1>18, Zenon DEF IncludesString, IncludesFunction

IncludesMapping(b, d, m) ==
    /\ Linked(d) /\ Grown(b, d) /\ d.locations = b.locations
    /\ mapping_id(d, m) \in 1..Len(d.mappings) /\ d.mappings[mapping_id(d, m)].id = m.exe

\* add_mapping: what was there stays, and the mapping is that of the executable.
LEMMA MappingAdded ==
    ASSUME NEW b, Linked(b), NEW m \in Mapping, NEW d, d = add_mapping(b, m)
    PROVE  IncludesMapping(b, d, m)
<1> DEFINE c == get_or_insert_string(b, m.file)
           entry == [id |-> m.exe, start |-> m.start, end |-> m.end]
           known == KnownMappings(b, m)
           t == With(c.mappings, entry, known)
<1>1. d = [c EXCEPT !.mappings = t]
    BY DEF add_mapping
<1>2. c = get_or_insert_string(b, m.file) /\ t = With(c.mappings, entry, known)
    OBVIOUS
<1>3. m.file \in Text /\ entry \in MappingEntry /\ entry.id = m.exe
    BY StringsAreText, Zenon DEF Mapping, MappingEntry
<1> HIDE DEF c, t, entry
<1>4. IncludesString(b, c, m.file)
    BY <1>2, <1>3, StringAdded, Zenon
<1>5. b \in BuilderType /\ c \in BuilderType
    BY <1>4, Zenon DEF IncludesString, Linked
<1>6. c.mappings \in Seq(MappingEntry) /\ Len(c.mappings) \in Nat /\ DOMAIN c.mappings = 1..Len(c.mappings)
    BY <1>5, BuilderLengths DEF BuilderType
<1>7. known \in SUBSET (1..Len(c.mappings)) /\ \A i \in known : c.mappings[i].id = m.exe
    <2>1. c.mappings = b.mappings
        BY <1>4, Zenon DEF IncludesString
    <2> QED
        BY <1>6, <2>1 DEF KnownMappings
<1> HIDE DEF known
<1>8. Includes(MappingEntry, c.mappings, t, entry, known)
    BY <1>2, <1>3, <1>6, <1>7, WithFacts, Zenon
<1>9. \E i \in 1..Len(t) : t[i].id = m.exe
    BY <1>3, <1>7, <1>8, Zenon DEF Includes
<1>10. /\ d \in BuilderType /\ d.mappings = t /\ d.strings = c.strings
       /\ d.functions = c.functions /\ d.locations = c.locations /\ d.samples = c.samples
    BY <1>1, <1>5, <1>8, MappingsSet DEF Includes
<1>11. Grown(c, d)
    <2>1. Extended(c.strings, c.strings) /\ Extended(c.functions, c.functions) /\ Extended(c.locations, c.locations)
        BY <1>5, GrownSame, Zenon DEF Grown
    <2> QED
        BY <1>8, <1>10, <2>1, Zenon DEF Grown, Includes
<1>12. Linked(d)
    BY <1>4, <1>10, <1>11, LinkedKept, Zenon DEF IncludesString, Grown
<1>13. mapping_id(d, m) \in 1..Len(d.mappings) /\ d.mappings[mapping_id(d, m)].id = m.exe
    <2> DEFINE found == KnownMappings(d, m)
    <2>1. Len(d.mappings) \in Nat /\ DOMAIN d.mappings = 1..Len(d.mappings)
        BY <1>10, BuilderLengths, Zenon
    <2>2. found \in SUBSET (1..Len(d.mappings)) /\ found # {} /\ \A i \in found : d.mappings[i].id = m.exe
        BY <1>9, <1>10, <2>1 DEF KnownMappings
    <2>3. mapping_id(d, m) = IdOf(d.mappings, found)
        BY DEF mapping_id
    <2> HIDE DEF found
    <2>4. IdOf(d.mappings, found) = First(found) /\ First(found) \in found
        BY <2>1, <2>2, FirstIsOne, Zenon DEF IdOf
    <2>5. mapping_id(d, m) \in found
        BY <2>3, <2>4, Zenon
    <2> QED
        BY <2>2, <2>5, Zenon
<1>14. Grown(b, d)
    BY <1>4, <1>5, <1>10, <1>11, GrownTwice, Zenon DEF IncludesString
<1> QED
    BY <1>4, <1>10, <1>12, <1>13, <1>14, Zenon DEF IncludesString, IncludesMapping

LinesIn(b) == {lines \in Seq(Line) : \A k \in 1..Len(lines) : lines[k].function \in 1..Len(b.functions)}

\* The location at id of d is one of the address in the mapping, and a new one has lines.
IncludesLocation(b, d, id, address, mapping, lines) ==
    /\ Linked(d) /\ Grown(b, d) /\ d.mappings = b.mappings
    /\ id \in 1..Len(d.locations)
    /\ d.locations[id].address = address /\ d.locations[id].mapping = mapping
    /\ \A i \in 1..Len(d.locations) :
        \/ d.locations[i].lines = lines
        \/ i \in 1..Len(b.locations) /\ d.locations[i] = b.locations[i]

\* add_location: what was there stays, and the location has the address and the mapping.
LEMMA LocationAdded ==
    ASSUME NEW b, Linked(b), NEW address \in Int, NEW mapping \in 1..Len(b.mappings),
           NEW lines \in LinesIn(b), NEW d, d = add_location(b, address, mapping, lines)
    PROVE  IncludesLocation(b, d, location_id(b, address, mapping), address, mapping, lines)
<1> DEFINE entry == [address |-> address, mapping |-> mapping, lines |-> lines]
           known == KnownLocations(b, address, mapping)
           t == With(b.locations, entry, known)
           id == IdOf(b.locations, known)
<1>1. d = [b EXCEPT !.locations = t] /\ location_id(b, address, mapping) = id
    BY DEF add_location, location_id
<1>2. t = With(b.locations, entry, known)
    OBVIOUS
<1>3. b \in BuilderType
    BY DEF Linked
<1>4. /\ Len(b.mappings) \in Nat /\ b.locations \in Seq(LocationEntry)
      /\ Len(b.locations) \in Nat /\ DOMAIN b.locations = 1..Len(b.locations)
    BY <1>3, BuilderLengths DEF BuilderType
<1>5. /\ entry \in LocationEntry /\ entry.address = address
      /\ entry.mapping = mapping /\ entry.lines = lines
    BY <1>4 DEF LocationEntry, LinesIn
<1> HIDE DEF t, entry
<1>6. /\ known \in SUBSET (1..Len(b.locations))
      /\ \A i \in known : b.locations[i].address = address /\ b.locations[i].mapping = mapping
    BY <1>4 DEF KnownLocations, SameLocation
<1> HIDE DEF known
<1>7. Includes(LocationEntry, b.locations, t, entry, known)
    BY <1>2, <1>4, <1>5, <1>6, WithFacts, Zenon
<1>8. t[id].address = address /\ t[id].mapping = mapping /\ id \in 1..Len(t)
    BY <1>5, <1>6, <1>7, Zenon DEF Includes
<1>9. /\ d \in BuilderType /\ d.locations = t /\ d.strings = b.strings
      /\ d.functions = b.functions /\ d.mappings = b.mappings /\ d.samples = b.samples
    BY <1>1, <1>3, <1>7, LocationsSet DEF Includes
<1> HIDE DEF id
<1>10. Grown(b, d)
    <2>1. Extended(b.strings, b.strings) /\ Extended(b.functions, b.functions) /\ Extended(b.mappings, b.mappings)
        BY <1>3, GrownSame, Zenon DEF Grown
    <2> QED
        BY <1>7, <1>9, <2>1, Zenon DEF Grown, Includes
<1>11. Linked(d)
    <2>1. ASSUME NEW i \in 1..Len(d.functions) PROVE d.functions[i].name + 1 \in 1..Len(d.strings)
        BY <1>9, Zenon DEF Linked
    <2>2. ASSUME NEW i \in 1..Len(d.locations)
          PROVE  /\ d.locations[i].mapping \in 1..Len(d.mappings)
                 /\ \A k \in 1..Len(d.locations[i].lines) :
                       d.locations[i].lines[k].function \in 1..Len(d.functions)
        <3>1. t[i] = entry \/ (i \in 1..Len(b.locations) /\ t[i] = b.locations[i])
            BY <1>7, <1>9, Zenon DEF Includes
        <3>2. CASE t[i] = entry
            BY <1>5, <1>9, <3>2, Zenon DEF LinesIn
        <3>3. CASE i \in 1..Len(b.locations) /\ t[i] = b.locations[i]
            BY <1>9, <3>3, Zenon DEF Linked
        <3> QED
            BY <3>1, <3>2, <3>3, Zenon
    <2> QED
        BY <1>9, <2>1, <2>2, Zenon DEF Linked
<1>12. ASSUME NEW i \in 1..Len(d.locations)
       PROVE  \/ d.locations[i].lines = lines
              \/ i \in 1..Len(b.locations) /\ d.locations[i] = b.locations[i]
    BY <1>5, <1>7, <1>9, Zenon DEF Includes
<1> QED
    BY <1>1, <1>8, <1>9, <1>10, <1>11, <1>12, Zenon DEF IncludesLocation

-----------------------------------------------------------------------------
(* One frame, and the frames of a stack.                                   *)

SymbolType == [name : Text, line : Int, file : Text]
FrameType == [address : Int, offset : Int, symbol : SymbolType]

\* The mapping of an address is one of the process.
LEMMA MappedTyped ==
    ASSUME NEW pid, NEW a, IsMapped(pid, a)
    PROVE  /\ for_address(pid, a) \in Mapping
           /\ for_address(pid, a).start <= a /\ a < for_address(pid, a).end
<1> DEFINE at == MappingsAt(pid, a)
<1>1. procs[pid] \in Seq(Mapping)
    BY PprofAssumption, Zenon DEF IsMapped
<1>2. /\ Len(procs[pid]) \in Nat /\ DOMAIN procs[pid] = 1..Len(procs[pid])
      /\ \A i \in 1..Len(procs[pid]) : procs[pid][i] \in Mapping
    BY <1>1, LenProperties
<1>3. /\ at \in SUBSET (1..Len(procs[pid])) /\ at # {}
      /\ \A i \in at : procs[pid][i].start <= a /\ a < procs[pid][i].end
    BY <1>2 DEF IsMapped, MappingsAt
<1>4. for_address(pid, a) = procs[pid][First(at)]
    BY DEF for_address
<1> HIDE DEF at
<1>5. First(at) \in at
    BY <1>2, <1>3, FirstIsOne, Zenon
<1> QED
    BY <1>2, <1>3, <1>4, <1>5, Zenon

\* The segment of an offset is the first one that holds it.
LEMMA SegmentFound ==
    ASSUME NEW exe \in DOMAIN objs, NEW offset, FirstSegment(objs[exe], offset) # {}
    PROVE  LET s == objs[exe][First(FirstSegment(objs[exe], offset))]
           IN  /\ s \in Segment /\ s.p_offset <= offset /\ offset < s.p_offset + s.p_filesz
               /\ First(FirstSegment(objs[exe], offset)) \in DOMAIN objs[exe]
<1> DEFINE at == FirstSegment(objs[exe], offset)
           q == objs[exe]
<1>1. q \in Seq(Segment)
    BY PprofAssumption, Zenon
<1>2. /\ Len(q) \in Nat /\ DOMAIN q = 1..Len(q) /\ \A i \in 1..Len(q) : q[i] \in Segment
    BY <1>1, LenProperties
<1>3. /\ at \in SUBSET (1..Len(q)) /\ at # {}
      /\ \A i \in at : q[i].p_offset <= offset /\ offset < q[i].p_offset + q[i].p_filesz
    BY <1>2 DEF FirstSegment
<1> HIDE DEF at, q
<1>4. First(at) \in at
    BY <1>2, <1>3, FirstIsOne, Zenon
<1>5. /\ q[First(at)] \in Segment /\ First(at) \in DOMAIN q
      /\ q[First(at)].p_offset <= offset /\ offset < q[First(at)].p_offset + q[First(at)].p_filesz
    BY <1>2, <1>3, <1>4, Zenon
<1> QED
    BY <1>5, Zenon DEF at, q

\* A normalised address is a number, or none is found.
LEMMA NormalizedTyped ==
    ASSUME NEW a \in Int, NEW m \in Mapping, m.exe \in DOMAIN objs
    PROVE  normalized_address(a, m) \in Int
<1> DEFINE offset == a - m.start + m.offset
           found == FirstSegment(objs[m.exe], offset)
           s == objs[m.exe][First(found)]
<1>1. offset \in Int /\ a - m.offset \in Int
    BY DEF Mapping
<1>2. ASSUME found # {} PROVE offset - s.p_offset + s.p_vaddr \in Int
    <2>1. s \in Segment
        BY <1>2, SegmentFound, Zenon
    <2> HIDE DEF offset, s
    <2> QED
        BY <1>1, <2>1 DEF Segment
<1>3. normalized_address(a, m) = IF m.kind = "Kernel" THEN a - m.offset
                                 ELSE IF found = {} THEN None ELSE offset - s.p_offset + s.p_vaddr
    BY DEF normalized_address
<1> HIDE DEF offset, found, s
<1>4. None \in Int
    BY DEF None
<1> QED
    BY <1>1, <1>2, <1>3, <1>4, Zenon

\* The address under which a frame is stored.
NormalizedOf(pid, f) ==
    IF f.offset = None THEN normalized_address(f.address, for_address(pid, f.address)) ELSE f.offset

Shown(pid, f) ==
    /\ IsMapped(pid, f.address) /\ for_address(pid, f.address).exe \in DOMAIN objs
    /\ NormalizedOf(pid, f) # None

GoodAcc(acc) ==
    /\ acc \in [b : BuilderType, locations : Seq(Nat)]
    /\ Linked(acc.b)
    /\ \A j \in 1..Len(acc.locations) : acc.locations[j] \in 1..Len(acc.b.locations)

\* Locations without functions.
Plain(b) == \A i \in 1..Len(b.locations) : b.locations[i].lines = <<>>

\* A frame without a symbol.
PlainAt(exe, at) == Located(exe, at, NoSymbol)

DecodedPlain(b, id) == PlainAt(b.mappings[b.locations[id].mapping].id, b.locations[id].address)

\* acc with one more location, that of frame f.
IncludesFrame(pid, acc, new, f) ==
    /\ GoodAcc(new) /\ Grown(acc.b, new.b)
    /\ f.symbol = NoSymbol /\ Plain(acc.b) => Plain(new.b)
    /\ IF Shown(pid, f)
       THEN \E id \in 1..Len(new.b.locations) :
              /\ new.locations = Append(acc.locations, id)
              /\ DecodedPlain(new.b, id) = PlainAt(for_address(pid, f.address).exe, NormalizedOf(pid, f))
       ELSE new = acc

\* One frame keeps the tables linked, and adds a location that is in them or nothing.
LEMMA FrameAdded ==
    ASSUME NEW pid, NEW acc, GoodAcc(acc), NEW f \in FrameType, NEW new, new = AddFrame(pid, acc, f)
    PROVE  IncludesFrame(pid, acc, new, f)
<1> DEFINE m == for_address(pid, f.address)
           normalized == NormalizedOf(pid, f)
           mapped == add_mapping(acc.b, m)
           named == IF f.symbol = NoSymbol THEN mapped
                    ELSE add_function(mapped, f.symbol.name, f.symbol.file)
           lines == IF f.symbol = NoSymbol THEN <<>>
                    ELSE <<[function |-> function_id(named, f.symbol.name), line |-> f.symbol.line]>>
           at == mapping_id(mapped, m)
           located == add_location(named, normalized, at, lines)
           id == location_id(named, normalized, at)
<1>1. /\ acc.b \in BuilderType /\ acc.locations \in Seq(Nat) /\ Linked(acc.b)
      /\ \A j \in 1..Len(acc.locations) : acc.locations[j] \in 1..Len(acc.b.locations)
    BY DEF GoodAcc
<1>2. f.address \in Int /\ f.offset \in Int /\ f.symbol \in SymbolType
    BY DEF FrameType
<1>3. CASE ~Shown(pid, f)
    <2>1. new = acc
        BY <1>3, Zenon DEF AddFrame, Shown, NormalizedOf
    <2>2. Grown(acc.b, acc.b)
        BY <1>1, GrownSame, Zenon
    <2> QED
        BY <1>3, <2>1, <2>2, Zenon DEF IncludesFrame
<1>4. CASE Shown(pid, f)
    <2>1. new = [b |-> located, locations |-> Append(acc.locations, id)]
        BY <1>4, Zenon DEF AddFrame, Shown, NormalizedOf
    <2>2. m \in Mapping /\ normalized \in Int
        <3>1. m \in Mapping /\ m.exe \in DOMAIN objs
            BY <1>4, MappedTyped, Zenon DEF Shown
        <3> QED
            BY <1>2, <3>1, NormalizedTyped, Zenon DEF NormalizedOf
    <2>3. /\ mapped = add_mapping(acc.b, m)
          /\ located = add_location(named, normalized, at, lines)
        OBVIOUS
    <2> HIDE DEF m, normalized, mapped, located
    <2>4. IncludesMapping(acc.b, mapped, m)
        BY <1>1, <2>2, <2>3, MappingAdded, Zenon
    <2>5. /\ mapped \in BuilderType /\ Linked(mapped) /\ Grown(acc.b, mapped)
          /\ at \in 1..Len(mapped.mappings) /\ mapped.mappings[at].id = m.exe
          /\ mapped.locations = acc.b.locations
        BY <2>4, Zenon DEF IncludesMapping, Linked
    <2> HIDE DEF at
    <2>6. /\ named \in BuilderType /\ Linked(named) /\ Grown(acc.b, named)
          /\ named.mappings = mapped.mappings /\ named.locations = acc.b.locations
          /\ lines \in LinesIn(named)
        <3>1. CASE f.symbol = NoSymbol
            <4>1. named = mapped /\ lines = <<>>
                BY <3>1
            <4>2. lines \in Seq(Line) /\ Len(lines) = 0
                BY <4>1
            <4> HIDE DEF named, lines
            <4>3. \A k \in 1..Len(lines) : lines[k].function \in 1..Len(named.functions)
                BY <4>2
            <4> QED
                BY <2>5, <4>1, <4>2, <4>3, Zenon DEF LinesIn
        <3>2. CASE f.symbol # NoSymbol
            <4> DEFINE line == [function |-> function_id(named, f.symbol.name), line |-> f.symbol.line]
            <4>1. named = add_function(mapped, f.symbol.name, f.symbol.file) /\ lines = <<line>>
                BY <3>2
            <4>2. f.symbol.name \in Text /\ f.symbol.file \in Text /\ f.symbol.line \in Int
                BY <1>2 DEF SymbolType
            <4> HIDE DEF named, lines
            <4>3. IncludesFunction(mapped, named, f.symbol.name)
                BY <2>5, <4>1, <4>2, FunctionAdded, Zenon
            <4>4. /\ Linked(named) /\ named \in BuilderType /\ Grown(mapped, named)
                  /\ named.mappings = mapped.mappings /\ named.locations = mapped.locations
                  /\ function_id(named, f.symbol.name) \in 1..Len(named.functions)
                BY <4>3, Zenon DEF IncludesFunction, Linked
            <4>5. Grown(acc.b, named)
                BY <1>1, <2>5, <4>4, GrownTwice, Zenon
            <4>6. line \in Line /\ line.function = function_id(named, f.symbol.name)
                <5>1. Len(named.functions) \in Nat
                    BY <4>4, BuilderLengths
                <5> QED
                    BY <4>2, <4>4, <5>1 DEF Line
            <4> HIDE DEF line
            <4>7. <<line>> \in Seq(Line) /\ Len(<<line>>) = 1 /\ <<line>>[1] = line
                BY <4>6, Singleton
            <4>8. ASSUME NEW k \in 1..Len(lines) PROVE lines[k].function \in 1..Len(named.functions)
                <5>1. k = 1
                    BY <4>1, <4>7
                <5> QED
                    BY <4>1, <4>4, <4>6, <4>7, <5>1, Zenon
            <4> QED
                BY <2>5, <4>1, <4>4, <4>5, <4>7, <4>8, Zenon DEF LinesIn
        <3> QED
            BY <3>1, <3>2, Zenon
    <2>7. f.symbol = NoSymbol => lines = <<>>
        OBVIOUS
    <2> HIDE DEF named, lines
    <2>8. IncludesLocation(named, located, id, normalized, at, lines)
        <3>1. at \in 1..Len(named.mappings)
            BY <2>5, <2>6, Zenon
        <3> QED
            BY <2>2, <2>3, <2>6, <3>1, LocationAdded, Zenon
    <2> HIDE DEF id
    <2>9. /\ located \in BuilderType /\ Linked(located) /\ Grown(named, located)
          /\ located.mappings = named.mappings /\ id \in 1..Len(located.locations)
          /\ located.locations[id].address = normalized /\ located.locations[id].mapping = at
        BY <2>8, Zenon DEF IncludesLocation, Linked
    <2>10. new.b = located /\ new.locations = Append(acc.locations, id)
        BY <2>1
    <2>11. Grown(acc.b, located)
        BY <1>1, <2>6, <2>9, GrownTwice, Zenon
    <2>12. /\ Len(acc.b.locations) \in Nat /\ Len(located.locations) \in Nat
           /\ Len(acc.b.locations) <= Len(located.locations)
        BY <1>1, <2>9, <2>11, BuilderLengths DEF Grown, Extended
    <2>13. /\ Append(acc.locations, id) \in Seq(Nat) /\ Len(acc.locations) \in Nat
           /\ Len(Append(acc.locations, id)) = Len(acc.locations) + 1
           /\ \A j \in 1..Len(acc.locations) : Append(acc.locations, id)[j] = acc.locations[j]
           /\ Append(acc.locations, id)[Len(acc.locations) + 1] = id
        <3>1. id \in Nat
            BY <2>9, <2>12
        <3> QED
            BY <1>1, <3>1, AppendProperties, LenProperties
    <2>14. GoodAcc(new)
        <3>1. new \in [b : BuilderType, locations : Seq(Nat)]
            BY <2>1, <2>9, <2>13
        <3>2. ASSUME NEW j \in 1..Len(new.locations) PROVE new.locations[j] \in 1..Len(new.b.locations)
            <4>1. j \in 1..Len(acc.locations) \/ j = Len(acc.locations) + 1
                BY <2>10, <2>13
            <4>2. CASE j \in 1..Len(acc.locations)
                <5>1. new.locations[j] \in 1..Len(acc.b.locations)
                    BY <1>1, <2>10, <2>13, <4>2, Zenon
                <5> QED
                    BY <2>10, <2>12, <5>1
            <4>3. CASE j = Len(acc.locations) + 1
                BY <2>9, <2>10, <2>13, <4>3, Zenon
            <4> QED
                BY <4>1, <4>2, <4>3, Zenon
        <3> QED
            BY <2>9, <2>10, <3>1, <3>2, Zenon DEF GoodAcc
    <2>15. ASSUME f.symbol = NoSymbol, Plain(acc.b) PROVE Plain(new.b)
        <3> SUFFICES ASSUME NEW i \in 1..Len(located.locations) PROVE located.locations[i].lines = <<>>
            BY <2>10, Zenon DEF Plain
        <3>1. \/ located.locations[i].lines = lines
              \/ i \in 1..Len(named.locations) /\ located.locations[i] = named.locations[i]
            BY <2>8, Zenon DEF IncludesLocation
        <3> QED
            BY <2>6, <2>7, <2>15, <3>1, Zenon DEF Plain
    <2>16. DecodedPlain(new.b, id) = PlainAt(m.exe, normalized)
        BY <2>5, <2>6, <2>9, <2>10, Zenon DEF DecodedPlain
    <2>17. \E k \in 1..Len(new.b.locations) :
              /\ new.locations = Append(acc.locations, k)
              /\ DecodedPlain(new.b, k) = PlainAt(for_address(pid, f.address).exe, NormalizedOf(pid, f))
        BY <2>9, <2>10, <2>16, Zenon DEF m, normalized
    <2> QED
        BY <1>4, <2>10, <2>11, <2>14, <2>15, <2>17, Zenon DEF IncludesFrame
<1> QED
    BY <1>3, <1>4, Zenon

Accs == {acc \in [b : BuilderType, locations : Seq(Nat)] : GoodAcc(acc)}

\* r is the loop of AddFrames, and those of Select and Flatten.
FramesBy(r, pid, acc, frames) ==
    /\ r \in [0..Len(frames) -> Accs]
    /\ r[0] = acc
    /\ \A n \in 1..Len(frames) : r[n] = AddFrame(pid, r[n - 1], frames[n])
    /\ AddFrames(pid, acc, frames) = r[Len(frames)]

SelectBy(r, s, places) ==
    /\ r \in [0..Len(s) -> Seq({s[i] : i \in places})]
    /\ r[0] = <<>>
    /\ \A n \in 1..Len(s) : r[n] = IF n \in places THEN Append(r[n - 1], s[n]) ELSE r[n - 1]
    /\ Select(s, places) = r[Len(s)]

FlattenBy(r, s, S) ==
    /\ r \in [0..Len(s) -> Seq(S)]
    /\ r[0] = <<>>
    /\ \A n \in 1..Len(s) : r[n] = r[n - 1] \o s[n]
    /\ Flatten(s) = r[Len(s)]

\* AddFrames is the loop over the frames.
LEMMA FramesLoop ==
    ASSUME NEW pid, NEW acc, GoodAcc(acc), NEW frames \in Seq(FrameType)
    PROVE  \E r : FramesBy(r, pid, acc, frames)
<1> DEFINE N == Len(frames)
           Step(n, x) == AddFrame(pid, x, frames[n])
           F == [p \in (1..N) \X Accs |-> Step(p[1], p[2])]
<1>1. N \in Nat /\ acc \in Accs /\ \A n \in 1..N : frames[n] \in FrameType
    BY LenProperties DEF Accs, GoodAcc
<1>2. ASSUME NEW n \in 1..N, NEW x \in Accs PROVE Step(n, x) \in Accs
    <2>1. GoodAcc(x) /\ frames[n] \in FrameType
        BY <1>1 DEF Accs
    <2>2. GoodAcc(Step(n, x))
        BY <2>1, FrameAdded, Zenon DEF IncludesFrame
    <2> HIDE DEF Step
    <2> QED
        BY <2>2, Zenon DEF Accs, GoodAcc
<1>3. F \in [(1..N) \X Accs -> Accs]
    <2> HIDE DEF Step
    <2> QED
        BY <1>2
<1>4. PICK f : Unfolds(f, N, Accs, acc, F)
    <2> HIDE DEF F, N
    <2> QED
        BY <1>1, <1>3, Recursion, Zenon
<1>5. \A k \in 1..N : f[k] = Step(k, f[k - 1])
    <2> TAKE k \in 1..N
    <2>1. f[k - 1] \in Accs
        <3>1. k - 1 \in 0..N
            BY <1>1
        <3> QED
            BY <1>4, <3>1, Zenon DEF Unfolds
    <2> HIDE DEF Step
    <2> QED
        BY <1>4, <2>1, Zenon DEF Unfolds
<1>6. f = [n \in 0..N |-> IF n = 0 THEN acc ELSE Step(n, f[n - 1])]
    <2> HIDE DEF Step
    <2>1. \A n \in 0..N : f[n] = IF n = 0 THEN acc ELSE Step(n, f[n - 1])
        BY <1>1, <1>4, <1>5 DEF Unfolds
    <2> QED
        BY <1>4, <2>1 DEF Unfolds
<1>7. PICK g : g = [n \in 0..N |-> IF n = 0 THEN acc ELSE Step(n, g[n - 1])] /\ AddFrames(pid, acc, frames) = g[N]
    BY <1>6, Zenon DEF AddFrames
<1>8. g = f
    <2> DEFINE G == {n \in 0..N : g[n] = f[n]}
    <2> HIDE DEF Step
    <2>1. 0 \in G
        <3>1. 0 \in 0..N
            BY <1>1
        <3> QED
            BY <1>4, <1>7, <3>1, Zenon DEF Unfolds
    <2>2. ASSUME NEW n \in 1..N, n - 1 \in G PROVE n \in G
        <3>1. n \in 0..N /\ n # 0
            BY <1>1
        <3>2. g[n] = Step(n, g[n - 1]) /\ f[n] = Step(n, f[n - 1])
            BY <1>5, <1>7, <3>1, Zenon
        <3> QED
            BY <2>2, <3>1, <3>2, Zenon
    <2>3. \A n \in 0..N : n \in G
        <3> HIDE DEF G
        <3> QED
            BY <1>1, <2>1, <2>2, Induction, Zenon
    <2> QED
        BY <1>6, <1>7, <2>3
<1> QED
    BY <1>4, <1>5, <1>7, <1>8, Zenon DEF Unfolds, FramesBy

\* Select is the loop over the elements.
LEMMA SelectLoop ==
    ASSUME NEW S, NEW s \in Seq(S), NEW places \in SUBSET (1..Len(s))
    PROVE  \E r : SelectBy(r, s, places)
<1> DEFINE N == Len(s)
           T == {s[i] : i \in places}
           Step(n, x) == IF n \in places THEN Append(x, s[n]) ELSE x
           F == [p \in (1..N) \X Seq(T) |-> Step(p[1], p[2])]
<1>1. N \in Nat /\ <<>> \in Seq(T) /\ \A n \in places : s[n] \in T
    BY LenProperties
<1> HIDE DEF T
<1>2. \A n \in 1..N, x \in Seq(T) : Step(n, x) \in Seq(T)
    BY <1>1, AppendProperties
<1>3. F \in [(1..N) \X Seq(T) -> Seq(T)]
    <2> HIDE DEF Step
    <2> QED
        BY <1>2
<1>4. PICK f : Unfolds(f, N, Seq(T), <<>>, F)
    <2> HIDE DEF F, N
    <2> QED
        BY <1>1, <1>3, Recursion, Zenon
<1>5. \A k \in 1..N : f[k] = Step(k, f[k - 1])
    <2> TAKE k \in 1..N
    <2>1. f[k - 1] \in Seq(T)
        <3>1. k - 1 \in 0..N
            BY <1>1
        <3> QED
            BY <1>4, <3>1, Zenon DEF Unfolds
    <2> HIDE DEF Step
    <2> QED
        BY <1>4, <2>1, Zenon DEF Unfolds
<1>6. f = [n \in 0..N |-> IF n = 0 THEN <<>> ELSE Step(n, f[n - 1])]
    <2> HIDE DEF Step
    <2>1. \A n \in 0..N : f[n] = IF n = 0 THEN <<>> ELSE Step(n, f[n - 1])
        BY <1>1, <1>4, <1>5 DEF Unfolds
    <2> QED
        BY <1>4, <2>1 DEF Unfolds
<1>7. PICK g : g = [n \in 0..N |-> IF n = 0 THEN <<>> ELSE Step(n, g[n - 1])] /\ Select(s, places) = g[N]
    BY <1>6, Zenon DEF Select
<1>8. g = f
    <2> DEFINE G == {n \in 0..N : g[n] = f[n]}
    <2> HIDE DEF Step
    <2>1. 0 \in G
        <3>1. 0 \in 0..N
            BY <1>1
        <3> QED
            BY <1>4, <1>7, <3>1, Zenon DEF Unfolds
    <2>2. ASSUME NEW n \in 1..N, n - 1 \in G PROVE n \in G
        <3>1. n \in 0..N /\ n # 0
            BY <1>1
        <3>2. g[n] = Step(n, g[n - 1]) /\ f[n] = Step(n, f[n - 1])
            BY <1>5, <1>7, <3>1, Zenon
        <3> QED
            BY <2>2, <3>1, <3>2, Zenon
    <2>3. \A n \in 0..N : n \in G
        <3> HIDE DEF G
        <3> QED
            BY <1>1, <2>1, <2>2, Induction, Zenon
    <2> QED
        BY <1>6, <1>7, <2>3
<1> QED
    BY <1>4, <1>5, <1>7, <1>8, Zenon DEF Unfolds, SelectBy, T

\* Flatten is the loop over the sequences.
LEMMA FlattenLoop ==
    ASSUME NEW S, NEW s \in Seq(Seq(S))
    PROVE  \E r : FlattenBy(r, s, S)
<1> DEFINE N == Len(s)
           Step(n, x) == x \o s[n]
           F == [p \in (1..N) \X Seq(S) |-> Step(p[1], p[2])]
<1>1. N \in Nat /\ <<>> \in Seq(S) /\ \A n \in 1..N : s[n] \in Seq(S)
    BY LenProperties
<1>2. \A n \in 1..N, x \in Seq(S) : Step(n, x) \in Seq(S)
    BY <1>1, ConcatProperties
<1>3. F \in [(1..N) \X Seq(S) -> Seq(S)]
    <2> HIDE DEF Step
    <2> QED
        BY <1>2
<1>4. PICK f : Unfolds(f, N, Seq(S), <<>>, F)
    <2> HIDE DEF F, N
    <2> QED
        BY <1>1, <1>3, Recursion, Zenon
<1>5. \A k \in 1..N : f[k] = Step(k, f[k - 1])
    <2> TAKE k \in 1..N
    <2>1. f[k - 1] \in Seq(S)
        <3>1. k - 1 \in 0..N
            BY <1>1
        <3> QED
            BY <1>4, <3>1, Zenon DEF Unfolds
    <2> HIDE DEF Step
    <2> QED
        BY <1>4, <2>1, Zenon DEF Unfolds
<1>6. f = [n \in 0..N |-> IF n = 0 THEN <<>> ELSE Step(n, f[n - 1])]
    <2> HIDE DEF Step
    <2>1. \A n \in 0..N : f[n] = IF n = 0 THEN <<>> ELSE Step(n, f[n - 1])
        BY <1>1, <1>4, <1>5 DEF Unfolds
    <2> QED
        BY <1>4, <2>1 DEF Unfolds
<1>7. PICK g : g = [n \in 0..N |-> IF n = 0 THEN <<>> ELSE Step(n, g[n - 1])] /\ Flatten(s) = g[N]
    BY <1>6, Zenon DEF Flatten
<1>8. g = f
    <2> DEFINE G == {n \in 0..N : g[n] = f[n]}
    <2> HIDE DEF Step
    <2>1. 0 \in G
        <3>1. 0 \in 0..N
            BY <1>1
        <3> QED
            BY <1>4, <1>7, <3>1, Zenon DEF Unfolds
    <2>2. ASSUME NEW n \in 1..N, n - 1 \in G PROVE n \in G
        <3>1. n \in 0..N /\ n # 0
            BY <1>1
        <3>2. g[n] = Step(n, g[n - 1]) /\ f[n] = Step(n, f[n - 1])
            BY <1>5, <1>7, <3>1, Zenon
        <3> QED
            BY <2>2, <3>1, <3>2, Zenon
    <2>3. \A n \in 0..N : n \in G
        <3> HIDE DEF G
        <3> QED
            BY <1>1, <2>1, <2>2, Induction, Zenon
    <2> QED
        BY <1>6, <1>7, <2>3
<1> QED
    BY <1>4, <1>5, <1>7, <1>8, Zenon DEF Unfolds, FlattenBy

\* The frames of a stack keep the tables linked, and refer to locations in them.
LEMMA FramesAdded ==
    ASSUME NEW pid, NEW acc, GoodAcc(acc), NEW frames \in Seq(FrameType),
           NEW new, new = AddFrames(pid, acc, frames)
    PROVE  GoodAcc(new) /\ Grown(acc.b, new.b)
<1> DEFINE N == Len(frames)
<1>1. N \in Nat /\ \A n \in 1..N : frames[n] \in FrameType
    BY LenProperties
<1>2. PICK r : FramesBy(r, pid, acc, frames)
    BY FramesLoop, Zenon
<1>3. /\ r \in [0..N -> Accs] /\ r[0] = acc
      /\ \A n \in 1..N : r[n] = AddFrame(pid, r[n - 1], frames[n])
      /\ new = r[N]
    BY <1>2, Zenon DEF FramesBy
<1>4. ASSUME NEW n \in 0..N PROVE GoodAcc(r[n]) /\ r[n].b \in BuilderType
    <2>1. r[n] \in Accs
        BY <1>3, Zenon
    <2> QED
        BY <2>1 DEF Accs
<1> DEFINE G == {n \in 0..N : Grown(acc.b, r[n].b)}
<1>5. 0 \in G
    <2>1. 0 \in 0..N
        BY <1>1
    <2>2. Grown(acc.b, acc.b)
        BY <1>3, <1>4, <2>1, GrownSame, Zenon
    <2> QED
        BY <1>3, <2>1, <2>2, Zenon
<1>6. ASSUME NEW n \in 1..N, n - 1 \in G PROVE n \in G
    <2>1. n \in 0..N /\ n - 1 \in 0..N /\ 0 \in 0..N
        BY <1>1
    <2>2. IncludesFrame(pid, r[n - 1], r[n], frames[n])
        BY <1>1, <1>3, <1>4, <2>1, FrameAdded, Zenon
    <2>3. Grown(r[n - 1].b, r[n].b) /\ Grown(acc.b, r[n - 1].b)
        BY <1>6, <2>2, Zenon DEF IncludesFrame
    <2>4. Grown(acc.b, r[n].b)
        BY <1>3, <1>4, <2>1, <2>3, GrownTwice, Zenon
    <2> QED
        BY <2>1, <2>4, Zenon
<1>7. \A n \in 0..N : n \in G
    <2> HIDE DEF G, N
    <2> QED
        BY <1>1, <1>5, <1>6, Induction, Zenon
<1>8. N \in 0..N
    BY <1>1
<1> QED
    BY <1>3, <1>4, <1>7, <1>8, Zenon

\* What is selected are elements.
LEMMA SelectTyped ==
    ASSUME NEW S, NEW s \in Seq(S), NEW places \in SUBSET (1..Len(s))
    PROVE  /\ Select(s, places) \in Seq(S)
           /\ \A i \in 1..Len(Select(s, places)) : \E k \in places : Select(s, places)[i] = s[k]
<1> DEFINE T == {s[i] : i \in places}
           t == Select(s, places)
<1>1. Len(s) \in Nat /\ Len(s) \in 0..Len(s)
    BY LenProperties
<1>2. t \in Seq(T)
    <2>1. PICK r : SelectBy(r, s, places)
        BY SelectLoop, Zenon
    <2> QED
        BY <1>1, <2>1, Zenon DEF SelectBy
<1>3. T \subseteq S
    BY LenProperties
<1> HIDE DEF t
<1>4. \A i \in 1..Len(t) : t[i] \in T
    <2> HIDE DEF T
    <2> QED
        BY <1>2, LenProperties
<1>5. t \in Seq(S)
    <2> HIDE DEF T
    <2> QED
        BY <1>2, <1>3
<1> QED
    BY <1>4, <1>5, Zenon DEF t

\* What is flattened are elements.
LEMMA FlattenTyped ==
    ASSUME NEW S, NEW s \in Seq(Seq(S))
    PROVE  Flatten(s) \in Seq(S)
<1>1. Len(s) \in Nat /\ Len(s) \in 0..Len(s)
    BY LenProperties
<1>2. PICK r : FlattenBy(r, s, S)
    BY FlattenLoop, Zenon
<1> QED
    BY <1>1, <1>2, Zenon DEF FlattenBy

\* MapFrames keeps places.
LEMMA Mapped ==
    ASSUME NEW S, NEW T, NEW s \in Seq(S), NEW t, t = [i \in DOMAIN s |-> t[i]],
           \A i \in 1..Len(s) : t[i] \in T
    PROVE  t \in Seq(T) /\ Len(t) = Len(s) /\ DOMAIN t = 1..Len(s)
<1>1. Len(s) \in Nat /\ DOMAIN s = 1..Len(s)
    BY LenProperties
<1>2. t \in [1..Len(s) -> T]
    BY <1>1
<1> QED
    BY <1>1, <1>2

-----------------------------------------------------------------------------
(* What processing and symbolising make of a sample.                       *)

ProcessedType ==
    [pid : Nat, tid : Nat, count : Nat, ustack : Seq(FrameType), kstack : Seq(FrameType)]

LEMMA NoSymbolTyped == NoSymbol \in SymbolType
<1>1. None \in Int
    BY DEF None
<1>2. "none" \in Text /\ EmptyString \in Text
    BY WordsAreText, Zenon DEF Words
<1> QED
    BY <1>1, <1>2 DEF NoSymbol, SymbolType

LEMMA ErrorTyped ==
    ASSUME NEW what \in Text
    PROVE  Error(what) \in SymbolType
BY WordsAreText DEF Error, SymbolType

LEMMA FrameTyped ==
    ASSUME NEW a \in Int, NEW offset \in Int, NEW symbol \in SymbolType
    PROVE  Frame(a, offset, symbol) \in FrameType
BY DEF Frame, FrameType

LEMMA OffsetTyped ==
    ASSUME NEW pid, NEW a \in Nat, IsMapped(pid, a)
    PROVE  file_offset(pid, a) \in Int
<1>1. for_address(pid, a) \in Mapping
    BY MappedTyped
<1>2. a \in Int /\ None \in Int
    BY DEF None
<1> QED
    BY <1>1, <1>2, NormalizedTyped, Zenon DEF file_offset

MappedPlaces(pid, stack) == {i \in DOMAIN stack : IsMapped(pid, stack[i])}
MappedPart(pid, stack) == Select(stack, MappedPlaces(pid, stack))

LEMMA MappedPartTyped ==
    ASSUME NEW pid, NEW stack \in Seq(Nat)
    PROVE  /\ MappedPart(pid, stack) \in Seq(Nat)
           /\ \A i \in 1..Len(MappedPart(pid, stack)) : IsMapped(pid, MappedPart(pid, stack)[i])
<1> DEFINE places == MappedPlaces(pid, stack)
<1>1. places \in SUBSET (1..Len(stack)) /\ \A k \in places : IsMapped(pid, stack[k])
    BY LenProperties DEF MappedPlaces
<1> HIDE DEF places
<1>2. /\ Select(stack, places) \in Seq(Nat)
      /\ \A i \in 1..Len(Select(stack, places)) : \E k \in places : Select(stack, places)[i] = stack[k]
    BY <1>1, SelectTyped
<1>3. MappedPart(pid, stack) = Select(stack, places)
    BY DEF MappedPart, places
<1> QED
    BY <1>1, <1>2, <1>3, Zenon

\* Frames makes frames.
LEMMA FramesTyped ==
    ASSUME NEW pid, NEW stack \in Seq(Nat)
    PROVE  /\ Frames(pid, stack) \in Seq(FrameType)
           /\ Frames(pid, stack) = [i \in DOMAIN MappedPart(pid, stack) |->
                                      Frame(MappedPart(pid, stack)[i],
                                            file_offset(pid, MappedPart(pid, stack)[i]), NoSymbol)]
<1> DEFINE q == MappedPart(pid, stack)
           fs == Frames(pid, stack)
<1>1. fs = [i \in DOMAIN q |-> Frame(q[i], file_offset(pid, q[i]), NoSymbol)]
    BY DEF Frames, MapFrames, MappedPart, MappedPlaces
<1>2. q \in Seq(Nat) /\ \A i \in 1..Len(q) : IsMapped(pid, q[i])
    BY MappedPartTyped
<1> HIDE DEF q, fs
<1>3. DOMAIN q = 1..Len(q) /\ \A i \in 1..Len(q) : q[i] \in Nat /\ q[i] \in Int
    BY <1>2, LenProperties
<1>4. ASSUME NEW i \in 1..Len(q) PROVE fs[i] \in FrameType
    <2>1. fs[i] = Frame(q[i], file_offset(pid, q[i]), NoSymbol)
        BY <1>1, <1>3, Zenon
    <2>2. file_offset(pid, q[i]) \in Int
        BY <1>2, <1>3, OffsetTyped, Zenon
    <2> QED
        BY <1>3, <2>1, <2>2, NoSymbolTyped, FrameTyped, Zenon
<1>5. fs = [i \in DOMAIN q |-> fs[i]]
    BY <1>1
<1>6. fs \in Seq(FrameType)
    BY <1>2, <1>4, <1>5, Mapped, Zenon
<1> QED
    BY <1>1, <1>6, Zenon DEF q, fs

\* Processing makes a processed sample.
LEMMA ProcessedTyped ==
    ASSUME NEW s \in RawSample
    PROVE  Processed(s) \in ProcessedType /\ Processed(s).pid = s.pid /\ Processed(s).tid = s.tid
<1>1. /\ s.pid \in Nat /\ s.tid \in Nat /\ s.count \in Nat
      /\ s.ustack \in Seq(Nat) /\ s.kstack \in Seq(Nat)
    BY DEF RawSample
<1>2. Frames(s.pid, s.ustack) \in Seq(FrameType) /\ Frames(KERNEL_PID, s.kstack) \in Seq(FrameType)
    BY <1>1, FramesTyped, Zenon
<1> QED
    BY <1>1, <1>2 DEF Processed, ProcessedType

LEMMA StartTyped ==
    ASSUME NEW at \in DOMAIN Symbols
    PROVE  Symbols[at].start \in Int /\ Symbols[at].frames \in Seq(Symbol)
<1>1. Symbols[at].start \in Nat /\ Symbols[at].frames \in Seq(Symbol)
    BY PprofAssumption, Zenon
<1> QED
    BY <1>1

LEMMA SymbolTyped ==
    ASSUME NEW s \in Symbol
    PROVE  s \in SymbolType
BY StringsAreText, Zenon DEF Symbol, SymbolType

\* Symbolising an address of a file makes frames.
LEMMA SymbolisedTyped ==
    ASSUME NEW a \in Int, NEW exe, NEW offset, <<exe, offset>> \in DOMAIN Symbols
    PROVE  Symbolised(a, exe, offset) \in Seq(FrameType)
<1> DEFINE found == Symbols[<<exe, offset>>]
           q == found.frames
           start == found.start
           fs == Symbolised(a, exe, offset)
<1>1. fs = [i \in DOMAIN q |-> Frame(a, start, q[i])]
    BY DEF Symbolised, MapFrames
<1>2. q \in Seq(Symbol) /\ start \in Int
    BY StartTyped, Zenon
<1> HIDE DEF q, start, fs
<1>3. DOMAIN q = 1..Len(q) /\ \A i \in 1..Len(q) : q[i] \in Symbol
    BY <1>2, LenProperties
<1>4. ASSUME NEW i \in 1..Len(q) PROVE fs[i] \in FrameType
    <2>1. fs[i] = Frame(a, start, q[i])
        BY <1>1, <1>3, Zenon
    <2> QED
        BY <1>2, <1>3, <2>1, SymbolTyped, FrameTyped, Zenon
<1>5. fs = [i \in DOMAIN q |-> fs[i]]
    BY <1>1
<1>6. fs \in Seq(FrameType)
    BY <1>2, <1>4, <1>5, Mapped, Zenon
<1> QED
    BY <1>6, Zenon DEF fs

LEMMA SingleFrame ==
    ASSUME NEW f \in FrameType
    PROVE  <<f>> \in Seq(FrameType)
OBVIOUS

LEMMA NativeTyped ==
    ASSUME NEW a \in Int, NEW exe, NEW offset
    PROVE  symbolize_native_stack_blaze(a, exe, offset) \in Seq(FrameType)
<1>1. BAD \in Int /\ None \in Int
    BY DEF BAD, None
<1>2. "failed to symbolize" \in Text /\ "unknown symbol" \in Text
    BY WordsAreText, Zenon DEF Words
<1>3. /\ Frame(BAD, None, Error("failed to symbolize")) \in FrameType
      /\ Frame(a, None, Error("unknown symbol")) \in FrameType
    BY <1>1, <1>2, ErrorTyped, FrameTyped, Zenon
<1>4. /\ <<Frame(BAD, None, Error("failed to symbolize"))>> \in Seq(FrameType)
      /\ <<Frame(a, None, Error("unknown symbol"))>> \in Seq(FrameType)
    BY <1>3, SingleFrame, Zenon
<1>5. <<exe, offset>> \in DOMAIN Symbols => Symbolised(a, exe, offset) \in Seq(FrameType)
    BY SymbolisedTyped, Zenon
<1> QED
    BY <1>4, <1>5, Zenon DEF symbolize_native_stack_blaze

SymbolizedFrame(pid, f) ==
    LET m == for_address(pid, f.address)
    IN  IF f.offset = None \/ m.exe \notin DOMAIN objs THEN <<>>
        ELSE symbolize_native_stack_blaze(f.address, m.exe, f.offset)

\* Symbolising a user stack makes frames.
LEMMA UserStackTyped ==
    ASSUME NEW pid, NEW stack \in Seq(FrameType)
    PROVE  symbolize_user_stack(pid, stack) \in Seq(FrameType)
<1> DEFINE fs == [i \in DOMAIN stack |-> SymbolizedFrame(pid, stack[i])]
<1>1. symbolize_user_stack(pid, stack) = Flatten(fs)
    BY DEF symbolize_user_stack, MapFrames, SymbolizedFrame
<1>2. DOMAIN stack = 1..Len(stack) /\ \A i \in 1..Len(stack) : stack[i] \in FrameType
    BY LenProperties
<1>3. ASSUME NEW i \in 1..Len(stack) PROVE fs[i] \in Seq(FrameType)
    <2>1. fs[i] = SymbolizedFrame(pid, stack[i])
        BY <1>2, Zenon
    <2>2. stack[i].address \in Int
        BY <1>2 DEF FrameType
    <2>3. <<>> \in Seq(FrameType)
        OBVIOUS
    <2> QED
        BY <2>1, <2>2, <2>3, NativeTyped, Zenon DEF SymbolizedFrame
<1>4. fs = [i \in DOMAIN stack |-> fs[i]]
    OBVIOUS
<1> HIDE DEF fs
<1>5. fs \in Seq(Seq(FrameType))
    BY <1>3, <1>4, Mapped, Zenon
<1> QED
    BY <1>1, <1>5, FlattenTyped, Zenon

\* The kernel symbol of an address is a name.
LEMMA KsymTyped ==
    ASSUME NEW a
    PROVE  KsymAt(a) \in Text
<1> DEFINE below == {i \in DOMAIN ksyms : ksyms[i].start <= a}
           R == [start : Nat, name : STRING]
<1>1. ksyms \in Seq(R)
    BY PprofAssumption, Zenon
<1>0. \A x \in R : x.name \in STRING
    OBVIOUS
<1> HIDE DEF R
<1>2. /\ Len(ksyms) \in Nat /\ DOMAIN ksyms = 1..Len(ksyms)
      /\ \A i \in 1..Len(ksyms) : ksyms[i].name \in STRING
    <2>1. /\ Len(ksyms) \in Nat /\ DOMAIN ksyms = 1..Len(ksyms)
          /\ \A i \in 1..Len(ksyms) : ksyms[i] \in R
        BY <1>1, LenProperties
    <2> QED
        BY <1>0, <2>1, Zenon
<1>3. below \in SUBSET (1..Len(ksyms))
    BY <1>2
<1>4. KsymAt(a) = IF below = {} THEN "not found" ELSE ksyms[Last(below)].name
    BY DEF KsymAt
<1> HIDE DEF below
<1>5. "not found" \in Text
    BY WordsAreText, Zenon DEF Words
<1>6. ASSUME below # {} PROVE ksyms[Last(below)].name \in Text
    <2>1. \E x \in below : \A y \in below : y <= x
        BY <1>2, <1>3, <1>6, Greatest, Zenon
    <2>2. Last(below) \in below
        BY <2>1, Zenon DEF Last
    <2> QED
        BY <1>2, <1>3, <2>2, StringsAreText, Zenon
<1> QED
    BY <1>4, <1>5, <1>6, Zenon

\* Symbolising a kernel stack makes frames.
LEMMA KernelStackTyped ==
    ASSUME NEW stack \in Seq(FrameType)
    PROVE  symbolize_kernel_stack(stack) \in Seq(FrameType)
<1> DEFINE fs == symbolize_kernel_stack(stack)
<1>1. fs = [i \in DOMAIN stack |-> Frame(stack[i].address, None, Error(KsymAt(stack[i].address)))]
    BY DEF symbolize_kernel_stack, MapFrames
<1> HIDE DEF fs
<1>2. DOMAIN stack = 1..Len(stack) /\ \A i \in 1..Len(stack) : stack[i] \in FrameType
    BY LenProperties
<1>3. ASSUME NEW i \in 1..Len(stack) PROVE fs[i] \in FrameType
    <2>1. fs[i] = Frame(stack[i].address, None, Error(KsymAt(stack[i].address)))
        BY <1>1, <1>2, Zenon
    <2>2. stack[i].address \in Int /\ None \in Int
        BY <1>2 DEF FrameType, None
    <2> QED
        BY <2>1, <2>2, KsymTyped, ErrorTyped, FrameTyped, Zenon
<1>4. fs = [i \in DOMAIN stack |-> fs[i]]
    BY <1>1
<1>5. fs \in Seq(FrameType)
    BY <1>3, <1>4, Mapped, Zenon
<1> QED
    BY <1>5, Zenon DEF fs

SymbolizedSample(s) ==
    [s EXCEPT !.ustack = symbolize_user_stack(s.pid, s.ustack),
              !.kstack = symbolize_kernel_stack(s.kstack)]

\* Symbolising makes a processed sample.
LEMMA SymbolizedTyped ==
    ASSUME NEW s \in ProcessedType
    PROVE  /\ SymbolizedSample(s) \in ProcessedType
           /\ SymbolizedSample(s).pid = s.pid /\ SymbolizedSample(s).tid = s.tid
<1>1. s.ustack \in Seq(FrameType) /\ s.kstack \in Seq(FrameType)
    BY DEF ProcessedType
<1>2. /\ symbolize_user_stack(s.pid, s.ustack) \in Seq(FrameType)
      /\ symbolize_kernel_stack(s.kstack) \in Seq(FrameType)
    BY <1>1, UserStackTyped, KernelStackTyped, Zenon
<1> QED
    BY <1>2, Zenon DEF SymbolizedSample, ProcessedType

-----------------------------------------------------------------------------
(* A sample added to the builder.                                          *)

\* What the samples refer to is there.
Sound(b) ==
    /\ Linked(b)
    /\ \A i \in 1..Len(b.samples) :
        /\ \A j \in 1..Len(b.samples[i].locations) :
              b.samples[i].locations[j] \in 1..Len(b.locations)
        /\ b.samples[i].label + 1 \in 1..Len(b.strings)

Has(b, s) == \E i \in 1..Len(b.strings) : b.strings[i] = s

\* A string that is there stays.
LEMMA HasGrown ==
    ASSUME NEW b \in BuilderType, NEW c \in BuilderType, Grown(b, c), NEW s, Has(b, s)
    PROVE  Has(c, s)
<1>1. Len(b.strings) \in Nat /\ Len(c.strings) \in Nat
    BY BuilderLengths
<1> QED
    BY <1>1 DEF Has, Grown, Extended

\* Samples stay sound while the tables grow.
LEMMA SoundGrown ==
    ASSUME NEW b, Sound(b), NEW c, Linked(c), Grown(b, c)
    PROVE  Sound(c)
<1>1. /\ Len(b.strings) \in Nat /\ Len(c.strings) \in Nat /\ Len(b.strings) <= Len(c.strings)
      /\ Len(b.locations) \in Nat /\ Len(c.locations) \in Nat /\ Len(b.locations) <= Len(c.locations)
    BY BuilderLengths DEF Sound, Linked, Grown, Extended
<1>2. c.samples = b.samples
    BY DEF Grown
<1>3. ASSUME NEW i \in 1..Len(c.samples)
      PROVE  /\ \A j \in 1..Len(c.samples[i].locations) :
                  c.samples[i].locations[j] \in 1..Len(c.locations)
             /\ c.samples[i].label + 1 \in 1..Len(c.strings)
    <2>1. /\ \A j \in 1..Len(c.samples[i].locations) :
                c.samples[i].locations[j] \in 1..Len(b.locations)
          /\ c.samples[i].label + 1 \in 1..Len(b.strings)
        BY <1>2, Zenon DEF Sound
    <2>2. \A x \in 1..Len(b.locations) : x \in 1..Len(c.locations)
        BY <1>1
    <2>3. \A x \in 1..Len(b.strings) : x \in 1..Len(c.strings)
        BY <1>1
    <2> QED
        BY <2>1, <2>2, <2>3, Zenon
<1> QED
    BY <1>3, Zenon DEF Sound

\* Builder c is b with one more sample.
IncludesSample(b, c, s) ==
    /\ Sound(c) /\ c.strings = b.strings /\ c.functions = b.functions /\ c.mappings = b.mappings
    /\ c.locations = b.locations /\ c.samples = Append(b.samples, s)

\* A sample of locations that are there keeps the builder sound.
LEMMA SampleAdded ==
    ASSUME NEW b, Sound(b), NEW s \in SampleEntry, NEW c, c = add_sample(b, s),
           \A j \in 1..Len(s.locations) : s.locations[j] \in 1..Len(b.locations),
           s.label + 1 \in 1..Len(b.strings)
    PROVE  IncludesSample(b, c, s)
<1>1. b \in BuilderType /\ b.samples \in Seq(SampleEntry) /\ Len(b.samples) \in Nat
    BY BuilderLengths, Zenon DEF Sound, Linked, BuilderType
<1>2. Append(b.samples, s) \in Seq(SampleEntry)
    BY <1>1
<1>3. /\ c \in BuilderType /\ c.strings = b.strings /\ c.functions = b.functions
      /\ c.mappings = b.mappings /\ c.locations = b.locations /\ c.samples = Append(b.samples, s)
    BY <1>1, <1>2, Zenon DEF add_sample, BuilderType
<1>4. Linked(c)
    BY <1>3 DEF Sound, Linked
<1>5. ASSUME NEW i \in 1..Len(c.samples)
      PROVE  /\ \A j \in 1..Len(c.samples[i].locations) :
                  c.samples[i].locations[j] \in 1..Len(c.locations)
             /\ c.samples[i].label + 1 \in 1..Len(c.strings)
    <2>1. (i \in 1..Len(b.samples) /\ c.samples[i] = b.samples[i]) \/ c.samples[i] = s
        BY <1>1, <1>3
    <2> QED
        BY <1>3, <2>1 DEF Sound
<1> QED
    BY <1>3, <1>4, <1>5 DEF IncludesSample, Sound

\* validate finds nothing wrong with a sound builder.
LEMMA SoundIsValid ==
    ASSUME NEW b, Sound(b)
    PROVE  validate(b)
<1>1. b \in BuilderType
    BY DEF Sound, Linked
<1>2. SUFFICES ASSUME NEW i \in 1..Len(b.samples), NEW j \in DOMAIN b.samples[i].locations,
                      NEW id, id = b.samples[i].locations[j], NEW l, l = b.locations[id]
               PROVE  /\ id \in 1..Len(b.locations)
                      /\ l.mapping \in 1..Len(b.mappings)
                      /\ b.mappings[l.mapping].id # 0
                      /\ \A k \in DOMAIN l.lines :
                           /\ l.lines[k].function \in 1..Len(b.functions)
                           /\ b.functions[l.lines[k].function].name + 1 \in 1..Len(b.strings)
    BY <1>1, BuilderLengths, Zenon DEF validate
<1>3. b.samples[i] \in SampleEntry
    BY <1>1, ElementOfSeq DEF BuilderType
<1>4. j \in 1..Len(b.samples[i].locations)
    BY <1>3, LenProperties DEF SampleEntry
<1>5. id \in 1..Len(b.locations)
    BY <1>2, <1>4, Zenon DEF Sound
<1>6. l \in LocationEntry
    BY <1>1, <1>2, <1>5, ElementOfSeq DEF BuilderType
<1>7. DOMAIN l.lines = 1..Len(l.lines)
    BY <1>6, LenProperties DEF LocationEntry
<1>8. /\ l.mapping \in 1..Len(b.mappings)
      /\ \A k \in 1..Len(l.lines) : l.lines[k].function \in 1..Len(b.functions)
    BY <1>2, <1>5, Zenon DEF Sound, Linked
<1>9. b.mappings[l.mapping] \in MappingEntry
    BY <1>1, <1>8, ElementOfSeq DEF BuilderType
<1>10. b.mappings[l.mapping].id # 0
    BY <1>9 DEF MappingEntry
<1>11. \A k \in 1..Len(l.lines) : b.functions[l.lines[k].function].name + 1 \in 1..Len(b.strings)
    BY <1>8, Zenon DEF Sound, Linked
<1> QED
    BY <1>5, <1>7, <1>8, <1>10, <1>11, Zenon

LEMMA StringAddedToo ==
    ASSUME NEW b, Linked(b), NEW s, NEW c, IncludesString(b, c, s), NEW t \in Text,
           NEW d, d = get_or_insert_string(c, t)
    PROVE  IncludesString(b, d, t)
<1>0. Linked(c) /\ Grown(b, c)
    BY Zenon DEF IncludesString
<1>1. IncludesString(c, d, t) /\ Linked(c) /\ Grown(b, c)
    BY <1>0, StringAdded, Zenon
<1>2. b \in BuilderType /\ c \in BuilderType /\ d \in BuilderType
    BY <1>1, Zenon DEF IncludesString, Linked
<1>3. Grown(b, d)
    BY <1>1, <1>2, GrownTwice, Zenon DEF IncludesString
<1> QED
    BY <1>1, <1>3 DEF IncludesString

\* The strings of a label are added.
LEMMA LabelAdded ==
    ASSUME NEW b, Linked(b), NEW label \in Label, NEW c, c = new_label(b, label)
    PROVE  IncludesString(b, c, label.value)
<1>1. label.key \in Text /\ label.value \in Text
    BY StringsAreText, Zenon DEF Label
<1> DEFINE d == get_or_insert_string(b, label.key)
<1>2. IncludesString(b, d, label.key)
    BY <1>1, StringAdded, Zenon
<1>3. c = get_or_insert_string(d, label.value)
    BY DEF new_label
<1> HIDE DEF d
<1> QED
    BY <1>1, <1>2, <1>3, StringAddedToo, Zenon

SameTables(b, c) == c.locations = b.locations /\ c.mappings = b.mappings

\* build adds strings, and nothing else.
LEMMA Built ==
    ASSUME NEW b, Linked(b), NEW c, c = build(b)
    PROVE  Linked(c) /\ Grown(b, c) /\ SameTables(b, c)
<1> DEFINE b1 == get_or_insert_string(b, "samples")
           b2 == get_or_insert_string(b1, "count")
           b3 == get_or_insert_string(b2, "cpu")
           b4 == get_or_insert_string(b3, "nanoseconds")
           b5 == get_or_insert_string(b4, "lightswitch")
<1>1. c = b5
    BY Zenon DEF build
<1>2. /\ "samples" \in Text /\ "count" \in Text /\ "cpu" \in Text /\ "nanoseconds" \in Text
      /\ "lightswitch" \in Text
    BY WordsAreText, Zenon DEF Words
<1>3. IncludesString(b, b1, "samples")
    BY <1>2, StringAdded, Zenon
<1> HIDE DEF b1
<1>4. IncludesString(b, b2, "count")
    BY <1>2, <1>3, StringAddedToo, Zenon
<1> HIDE DEF b2
<1>5. IncludesString(b, b3, "cpu")
    BY <1>2, <1>4, StringAddedToo, Zenon
<1> HIDE DEF b3
<1>6. IncludesString(b, b4, "nanoseconds")
    BY <1>2, <1>5, StringAddedToo, Zenon
<1> HIDE DEF b4
<1>7. IncludesString(b, b5, "lightswitch")
    BY <1>2, <1>6, StringAddedToo, Zenon
<1> QED
    BY <1>1, <1>7, Zenon DEF IncludesString, SameTables

\* The frames of a sample that is converted.
KernelAcc(b, s) == AddFrames(KERNEL_PID, [b |-> b, locations |-> <<>>], s.kstack)
UserAcc(b, s) == AddFrames(s.pid, KernelAcc(b, s), s.ustack)

\* A stack is built from no locations.
LEMMA EmptyAcc ==
    ASSUME NEW b, Linked(b), NEW acc, acc = [b |-> b, locations |-> <<>>]
    PROVE  GoodAcc(acc)
<1>1. acc \in [b : BuilderType, locations : Seq(Nat)] /\ acc.b = b /\ acc.locations = <<>>
    BY DEF Linked
<1>2. 1..Len(acc.locations) = {}
    BY <1>1
<1> QED
    BY <1>1, <1>2, Zenon DEF GoodAcc

\* The two stacks of a sample keep the tables linked.
LEMMA StacksAdded ==
    ASSUME NEW b, Linked(b), NEW s \in ProcessedType, NEW u, u = UserAcc(b, s)
    PROVE  GoodAcc(u) /\ Grown(b, u.b)
<1> DEFINE e == [b |-> b, locations |-> <<>>]
           k == KernelAcc(b, s)
<1>1. s.kstack \in Seq(FrameType) /\ s.ustack \in Seq(FrameType)
    BY DEF ProcessedType
<1>2. GoodAcc(e) /\ e.b = b
    BY EmptyAcc
<1>3. k = AddFrames(KERNEL_PID, e, s.kstack) /\ u = AddFrames(s.pid, k, s.ustack)
    BY Zenon DEF KernelAcc, UserAcc
<1> HIDE DEF e, k
<1>4. GoodAcc(k) /\ Grown(b, k.b)
    BY <1>1, <1>2, <1>3, FramesAdded, Zenon
<1>5. GoodAcc(u) /\ Grown(k.b, u.b)
    BY <1>1, <1>3, <1>4, FramesAdded, Zenon
<1>6. b \in BuilderType /\ k.b \in BuilderType /\ u.b \in BuilderType
    BY <1>4, <1>5, Zenon DEF GoodAcc, Linked
<1> QED
    BY <1>4, <1>5, <1>6, GrownTwice, Zenon

-----------------------------------------------------------------------------
(* The labels of a sample.                                                 *)

\* A label that a task with these numbers has had when life is lf.
Fits(lf, t, label) == label = LabelOf[t]["first"] \/ label = LabelOf[t][lf[t]]

\* The labels of the samples of the builder, those in the order of kept.
ReusedIn(kept, i) == \E j \in 1 .. i - 1 : kept[j].tid = kept[i].tid /\ kept[j].pid # kept[i].pid

LabelFits(kept, lf, b, i) ==
    \/ ReusedIn(kept, i)
    \/ \E label \in Label : /\ Fits(lf, TaskOf(kept[i]), label)
                            /\ b.strings[b.samples[i].label + 1] = label.value

Labelled(kept, lf, b) == \A i \in 1..Len(b.samples) : LabelFits(kept, lf, b, i)

\* The labels that were looked up, for one of the samples.
AskedFor(kept, lf, b, tid, label) ==
    /\ label \in Label /\ Has(b, label.value)
    /\ \E j \in 1..Len(b.samples) : kept[j].tid = tid /\ Fits(lf, TaskOf(kept[j]), label)

Asked(kept, lf, b, labels) == \A tid \in DOMAIN labels : AskedFor(kept, lf, b, tid, labels[tid])

\* Labels stay those of the task while strings are added.
LEMMA LabelledGrown ==
    ASSUME NEW kept, NEW lf, NEW b, Sound(b), Labelled(kept, lf, b), NEW c, Grown(b, c)
    PROVE  Labelled(kept, lf, c)
<1>1. c.samples = b.samples /\ Extended(b.strings, c.strings)
    BY DEF Grown
<1>2. \A i \in 1..Len(b.samples) :
         c.strings[c.samples[i].label + 1] = b.strings[b.samples[i].label + 1]
    <2>1. \A i \in 1..Len(b.samples) : b.samples[i].label + 1 \in 1..Len(b.strings)
        BY Zenon DEF Sound
    <2>2. \A x \in 1..Len(b.strings) : c.strings[x] = b.strings[x]
        BY <1>1, Zenon DEF Extended
    <2> QED
        BY <1>1, <2>1, <2>2
<1> QED
    BY <1>1, <1>2, Zenon DEF Labelled, LabelFits

\* Labels that were asked for stay in the strings.
LEMMA AskedGrown ==
    ASSUME NEW kept, NEW lf, NEW b \in BuilderType, NEW labels, Asked(kept, lf, b, labels),
           NEW c \in BuilderType, Grown(b, c)
    PROVE  Asked(kept, lf, c, labels)
<1>1. c.samples = b.samples
    BY DEF Grown
<1>2. \A tid \in DOMAIN labels : Has(c, labels[tid].value)
    BY HasGrown, Zenon DEF Asked, AskedFor
<1> QED
    BY <1>1, <1>2, Zenon DEF Asked, AskedFor

\* A sample whose label fits keeps all labelled.
LEMMA LabelledMore ==
    ASSUME NEW kept, NEW lf, NEW b, Sound(b), Labelled(kept, lf, b), NEW s, NEW c,
           IncludesSample(b, c, s), LabelFits(kept, lf, c, Len(b.samples) + 1)
    PROVE  Labelled(kept, lf, c)
<1>1. b.samples \in Seq(SampleEntry) /\ Len(b.samples) \in Nat
    BY BuilderLengths DEF Sound, Linked, BuilderType
<1>2. c.samples = Append(b.samples, s) /\ c.strings = b.strings
    BY DEF IncludesSample
<1>3. /\ Len(c.samples) = Len(b.samples) + 1
      /\ \A i \in 1..Len(b.samples) : c.samples[i] = b.samples[i]
    BY <1>1, <1>2
<1>4. \A i \in 1..Len(c.samples) : i \in 1..Len(b.samples) \/ i = Len(b.samples) + 1
    BY <1>1, <1>3
<1>5. \A i \in 1..Len(b.samples) : LabelFits(kept, lf, c, i)
    BY <1>2, <1>3, Zenon DEF Labelled, LabelFits
<1> QED
    BY <1>4, <1>5, Zenon DEF Labelled

\* A label that is asked for is kept for the tid.
LEMMA AskedMore ==
    ASSUME NEW kept, NEW lf, NEW b, Sound(b), NEW labels, Asked(kept, lf, b, labels), NEW s, NEW c,
           IncludesSample(b, c, s)
    PROVE  Asked(kept, lf, c, labels)
<1>1. b.samples \in Seq(SampleEntry) /\ Len(b.samples) \in Nat
    BY BuilderLengths DEF Sound, Linked, BuilderType
<1>2. c.samples = Append(b.samples, s) /\ c.strings = b.strings
    BY DEF IncludesSample
<1>3. 1..Len(b.samples) \subseteq 1..Len(c.samples)
    BY <1>1, <1>2
<1> QED
    BY <1>2, <1>3, Zenon DEF Asked, AskedFor, Has

\* The label of one more sample, and the builder with what it needs.
NextLabel(kept, lf, labels, tid, i, label) ==
    IF tid \in DOMAIN labels THEN label = labels[tid]
    ELSE label \in Label /\ Fits(lf, TaskOf(kept[i]), label)

WithLabel(b, labels, tid, label) == IF tid \notin DOMAIN labels THEN new_label(b, label) ELSE b

SampleOf(u, d, count, label) ==
    [locations |-> u.locations, count |-> count, label |-> string_id(d, label.value)]

LabelsWith(labels, tid, label) ==
    [t \in DOMAIN labels \cup {tid} |-> IF t = tid THEN label ELSE labels[t]]

\* The label of the next sample fits, whether it was asked for or is kept for the tid.
LEMMA LabelFitsNext ==
    ASSUME NEW kept \in Seq(RawSample), NEW lf, NEW b, Sound(b), NEW labels, Asked(kept, lf, b, labels),
           Len(b.samples) + 1 \in 1..Len(kept), NEW tid, tid = kept[Len(b.samples) + 1].tid,
           NEW label, NextLabel(kept, lf, labels, tid, Len(b.samples) + 1, label)
    PROVE  /\ label \in Label
           /\ \/ ReusedIn(kept, Len(b.samples) + 1)
              \/ Fits(lf, TaskOf(kept[Len(b.samples) + 1]), label)
<1> DEFINE n == Len(b.samples)
<1>1. n \in Nat /\ 1 .. (n + 1) - 1 = 1..n
    BY BuilderLengths DEF Sound, Linked
<1>2. CASE tid \notin DOMAIN labels
    BY <1>2, Zenon DEF NextLabel
<1>3. CASE tid \in DOMAIN labels
    <2>1. label = labels[tid] /\ AskedFor(kept, lf, b, tid, label)
        BY <1>3, Zenon DEF NextLabel, Asked
    <2>2. PICK j \in 1..n : kept[j].tid = tid /\ Fits(lf, TaskOf(kept[j]), label)
        BY <2>1, Zenon DEF AskedFor
    <2>3. CASE kept[j].pid = kept[n + 1].pid
        <3>1. TaskOf(kept[j]) = TaskOf(kept[n + 1])
            BY <2>2, <2>3, Zenon DEF TaskOf
        <3> QED
            BY <2>1, <2>2, <3>1, Zenon DEF AskedFor
    <2>4. CASE kept[j].pid # kept[n + 1].pid
        <3>1. ReusedIn(kept, n + 1)
            BY <1>1, <2>2, <2>4, Zenon DEF ReusedIn
        <3> QED
            BY <2>1, <3>1, Zenon DEF AskedFor
    <2> QED
        BY <2>3, <2>4
<1> QED
    BY <1>2, <1>3

IncludesNext(kept, lf, b, c, more) ==
    /\ Sound(c) /\ Labelled(kept, lf, c) /\ Asked(kept, lf, c, more)
    /\ Len(c.samples) = Len(b.samples) + 1

\* c is b with a sample that has the locations of u.
IncludesLocations(b, u, count, c) ==
    /\ SameTables(u.b, c)
    /\ \E new \in SampleEntry : /\ c.samples = Append(b.samples, new)
                                /\ new.locations = u.locations /\ new.count = count

\* One step of the conversion keeps the builder sound and all labelled.
LEMMA NextAdded ==
    ASSUME NEW kept \in Seq(RawSample), NEW lf, NEW b, Sound(b),
           NEW labels, Labelled(kept, lf, b), Asked(kept, lf, b, labels),
           Len(b.samples) + 1 \in 1..Len(kept), NEW s \in ProcessedType,
           s.tid = kept[Len(b.samples) + 1].tid, s.pid = kept[Len(b.samples) + 1].pid,
           NEW label, NextLabel(kept, lf, labels, s.tid, Len(b.samples) + 1, label),
           NEW u, u = UserAcc(b, s), NEW d, d = WithLabel(u.b, labels, s.tid, label),
           NEW c, c = add_sample(d, SampleOf(u, d, s.count, label)),
           NEW more, more = LabelsWith(labels, s.tid, label)
    PROVE  IncludesNext(kept, lf, b, c, more) /\ IncludesLocations(b, u, s.count, c)
<1> DEFINE n == Len(b.samples)
           new == SampleOf(u, d, s.count, label)
<1>1. /\ label \in Label
      /\ ReusedIn(kept, n + 1) \/ Fits(lf, TaskOf(kept[n + 1]), label)
    BY LabelFitsNext, Zenon
<1>2. GoodAcc(u) /\ Grown(b, u.b) /\ Linked(u.b)
    BY StacksAdded, Zenon DEF Sound, GoodAcc
<1>3. b \in BuilderType /\ u.b \in BuilderType
    BY <1>2, Zenon DEF Linked, Sound
<1>4. Linked(d) /\ Grown(u.b, d) /\ Has(d, label.value) /\ SameTables(u.b, d)
    <2>1. CASE s.tid \notin DOMAIN labels
        <3>1. d = new_label(u.b, label)
            BY <2>1, Zenon DEF WithLabel
        <3>2. IncludesString(u.b, d, label.value)
            BY <1>1, <1>2, <3>1, LabelAdded, Zenon
        <3> QED
            BY <3>2, Zenon DEF IncludesString, Has, SameTables
    <2>2. CASE s.tid \in DOMAIN labels
        <3>1. d = u.b /\ label = labels[s.tid]
            BY <2>2, Zenon DEF WithLabel, NextLabel
        <3>2. Has(b, label.value)
            BY <2>2, <3>1, Zenon DEF Asked, AskedFor
        <3> QED
            BY <1>2, <1>3, <3>1, <3>2, HasGrown, GrownSame, Zenon DEF SameTables
    <2> QED
        BY <2>1, <2>2, Zenon
<1>5. d \in BuilderType /\ Grown(b, d)
    BY <1>2, <1>3, <1>4, GrownTwice, Zenon DEF Linked
<1>6. Sound(d) /\ Labelled(kept, lf, d) /\ Asked(kept, lf, d, labels)
    BY <1>3, <1>4, <1>5, SoundGrown, LabelledGrown, AskedGrown, Zenon
<1>7. /\ string_id(d, label.value) \in Nat /\ string_id(d, label.value) + 1 \in 1..Len(d.strings)
      /\ d.strings[string_id(d, label.value) + 1] = label.value
    BY <1>4, <1>5, StringFound, Zenon DEF Has
<1>8. /\ new \in SampleEntry /\ new.locations = u.locations /\ new.count = s.count
      /\ new.label = string_id(d, label.value)
    BY <1>2, <1>7, Zenon DEF SampleEntry, SampleOf, GoodAcc, ProcessedType
<1> HIDE DEF new
<1>9. \A j \in 1..Len(new.locations) : new.locations[j] \in 1..Len(d.locations)
    <2>1. /\ Len(u.b.locations) \in Nat /\ Len(d.locations) \in Nat
          /\ Len(u.b.locations) <= Len(d.locations)
        BY <1>3, <1>4, <1>5, BuilderLengths, Zenon DEF Grown, Extended
    <2>2. \A x \in 1..Len(u.b.locations) : x \in 1..Len(d.locations)
        BY ONLY <2>1
    <2> QED
        BY <1>2, <1>8, <2>2, Zenon DEF GoodAcc
<1>10. new.label + 1 \in 1..Len(d.strings)
    BY <1>7, <1>8, Zenon
<1>11. c = add_sample(d, new)
    BY Zenon DEF new
<1>12. IncludesSample(d, c, new)
    BY <1>6, <1>8, <1>9, <1>10, <1>11, SampleAdded, Zenon
<1>13. d.samples = b.samples /\ Len(d.samples) = n /\ n \in Nat /\ b.samples \in Seq(SampleEntry)
    BY <1>3, <1>5, BuilderLengths, Zenon DEF Grown, BuilderType
<1>14. c.samples = Append(b.samples, new) /\ c.strings = d.strings /\ Sound(c)
    BY <1>12, <1>13, Zenon DEF IncludesSample
<1>15. Len(c.samples) = n + 1 /\ c.samples[n + 1] = new
    <2>1. b.samples \in Seq(SampleEntry) /\ new \in SampleEntry
        BY <1>8, <1>13, Zenon
    <2>2. /\ Len(Append(b.samples, new)) = Len(b.samples) + 1
          /\ Append(b.samples, new)[Len(b.samples) + 1] = new
        BY ONLY <2>1, Appended
    <2> QED
        BY <1>14, <2>2, Zenon
<1>16. LabelFits(kept, lf, c, n + 1)
    BY <1>1, <1>7, <1>8, <1>14, <1>15, Zenon DEF LabelFits
<1>17. Labelled(kept, lf, c) /\ Asked(kept, lf, c, labels)
    BY <1>6, <1>12, <1>13, <1>16, LabelledMore, AskedMore, Zenon
<1>18. Has(c, label.value)
    BY <1>4, <1>14, Zenon DEF Has
<1>19. Asked(kept, lf, c, more)
    <2>1. SUFFICES ASSUME NEW t \in DOMAIN more PROVE AskedFor(kept, lf, c, t, more[t])
        BY Zenon DEF Asked
    <2>2. (t \in DOMAIN labels \/ t = s.tid) /\ more[t] = IF t = s.tid THEN label ELSE labels[t]
        BY <2>1, Zenon DEF LabelsWith
    <2>3. CASE t \in DOMAIN labels
        <3>1. more[t] = labels[t]
            BY <2>2, <2>3, Zenon DEF NextLabel
        <3> QED
            BY <1>17, <2>3, <3>1, Zenon DEF Asked
    <2>4. CASE t \notin DOMAIN labels
        <3>1. t = s.tid /\ more[t] = label /\ Fits(lf, TaskOf(kept[n + 1]), label)
            BY <2>2, <2>4, Zenon DEF NextLabel
        <3>2. n + 1 \in 1..Len(c.samples)
            BY ONLY <1>13, <1>15
        <3>3. kept[n + 1].tid = t
            BY <3>1, Zenon
        <3> QED
            BY <1>1, <1>18, <3>1, <3>2, <3>3, Zenon DEF AskedFor
    <2> QED
        BY <2>3, <2>4, Zenon
<1>20. SameTables(u.b, c)
    BY <1>4, <1>12, Zenon DEF SameTables, IncludesSample
<1>21. IncludesLocations(b, u, s.count, c)
    BY <1>8, <1>14, <1>20, Zenon DEF IncludesLocations
<1> QED
    BY <1>14, <1>15, <1>17, <1>19, <1>21, Zenon DEF IncludesNext

-----------------------------------------------------------------------------
(* The metadata cache.                                                     *)

\* What the cache may have: while tasks end, nothing that says that one is gone.
Fitting(lf, ph) ==
    {e \in [task : DOMAIN LabelOf, label : Label] :
        \/ e.label = LabelOf[e.task]["first"]
        \/ e.label = LabelOf[e.task][lf[e.task]] /\ (ph = "raw" => lf[e.task] # "gone")}

LEMMA SeqOfMore ==
    ASSUME NEW S, NEW T, S \subseteq T, NEW s \in Seq(S)
    PROVE  s \in Seq(T)
OBVIOUS

LEMMA LabelTyped ==
    ASSUME NEW t \in DOMAIN LabelOf, NEW l \in Life
    PROVE  LabelOf[t][l] \in Label
<1>1. LabelOf[t] \in [Life -> Label]
    BY PprofAssumption, Zenon
<1> QED
    BY <1>1, Zenon

\* get_labels gives the labels of the task that runs, or none.
LEMMA LabelsGot ==
    ASSUME life \in [DOMAIN LabelOf -> Life], NEW t \in DOMAIN LabelOf
    PROVE  get_labels(t) \in Label /\ get_labels(t) = LabelOf[t][life[t]]
BY LabelTyped, Zenon DEF get_labels

\* get_metadata gives labels that fit, and keeps the cache fitting.
LEMMA MetadataGot ==
    ASSUME life \in [DOMAIN LabelOf -> Life], process_label_cache \in Seq(Fitting(life, phase)),
           NEW t \in DOMAIN LabelOf
    PROVE  get_metadata(t) \in Label /\ Fits(life, t, get_metadata(t))
<1> DEFINE known == Cached(t)
           e == process_label_cache[First(known)]
<1>1. CASE known = {}
    BY <1>1, LabelsGot, Zenon DEF get_metadata, Fits
<1>2. CASE known # {}
    <2>1. Len(process_label_cache) \in Nat /\ DOMAIN process_label_cache = 1..Len(process_label_cache)
        BY LenProperties
    <2>2. known \in SUBSET (1..Len(process_label_cache))
        BY <2>1, Zenon DEF Cached
    <2>3. First(known) \in known
        BY <1>2, <2>1, <2>2, FirstIsOne, Zenon
    <2>4. e.task = t
        BY <2>3, Zenon DEF Cached
    <2>5. e \in Fitting(life, phase)
        BY <2>2, <2>3, ElementOfSeq
    <2>6. e.label \in Label /\ Fits(life, t, e.label)
        BY <2>4, <2>5 DEF Fitting, Fits
    <2>7. get_metadata(t) = e.label
        BY <1>2, Zenon DEF get_metadata
    <2> QED
        BY <2>6, <2>7, Zenon
<1> QED
    BY <1>1, <1>2

\* push keeps entries that fit, or adds one that does.
LEMMA Pushed ==
    ASSUME NEW S, process_label_cache \in Seq(S), NEW t, NEW label, [task |-> t, label |-> label] \in S
    PROVE  push(t, label) \in Seq(S)
<1> DEFINE places == DOMAIN process_label_cache \ Cached(t)
<1>1. places \in SUBSET (1..Len(process_label_cache))
    BY LenProperties
<1> HIDE DEF places
<1>2. Select(process_label_cache, places) \in Seq(S)
    BY <1>1, SelectTyped
<1>3. push(t, label) = Append(Select(process_label_cache, places), [task |-> t, label |-> label])
    BY DEF push, places
<1> QED
    BY <1>2, <1>3, AppendProperties, Zenon

LEMMA EntryFits ==
    ASSUME NEW lf, NEW ph, NEW t \in DOMAIN LabelOf, NEW label \in Label, Fits(lf, t, label),
           label # LabelOf[t]["first"] => (ph = "raw" => lf[t] # "gone")
    PROVE  [task |-> t, label |-> label] \in Fitting(lf, ph)
BY DEF Fitting, Fits

\* Tasks turn: what fits still does.
LEMMA FitsWhenTurned ==
    ASSUME NEW lf \in [DOMAIN LabelOf -> Life], NEW t \in DOMAIN LabelOf, lf[t] # "second",
           NEW new, new = [lf EXCEPT ![t] = IF @ = "first" THEN "gone" ELSE "second"]
    PROVE  /\ new \in [DOMAIN LabelOf -> Life]
           /\ Fitting(lf, "raw") \subseteq Fitting(new, "raw")
<1>1. new \in [DOMAIN LabelOf -> Life]
    BY DEF Life
<1>2. ASSUME NEW e \in Fitting(lf, "raw") PROVE e \in Fitting(new, "raw")
    <2>1. CASE e.task = t
        <3>1. lf[t] = "first" \/ lf[t] = "gone"
            BY DEF Life
        <3> QED
            BY <2>1, <3>1 DEF Fitting
    <2>2. CASE e.task # t
        <3>1. e.task \in DOMAIN LabelOf
            BY DEF Fitting
        <3>2. new[e.task] = lf[e.task]
            BY <2>2, <3>1
        <3> QED
            BY <3>2 DEF Fitting
    <2> QED
        BY <2>1, <2>2
<1> QED
    BY <1>1, <1>2, Zenon

-----------------------------------------------------------------------------
(* The samples that are kept.                                              *)

LEMMA KeptFacts ==
    ASSUME raw \in Seq(RawSamples)
    PROVE  /\ Kept \in Seq(RawSample) /\ Kept \in Seq(RawSamples)
           /\ \A i \in 1..Len(Kept) : TaskOf(Kept[i]) \in DOMAIN LabelOf
<1> DEFINE places == {i \in DOMAIN raw : IsProcessed(raw[i])}
<1>1. places \in SUBSET (1..Len(raw)) /\ \A k \in places : IsProcessed(raw[k]) /\ raw[k] \in RawSamples
    BY LenProperties
<1> HIDE DEF places
<1>2. /\ Select(raw, places) \in Seq(RawSamples)
      /\ \A i \in 1..Len(Select(raw, places)) : \E k \in places : Select(raw, places)[i] = raw[k]
    BY <1>1, SelectTyped
<1>3. Kept = Select(raw, places)
    BY Zenon DEF Kept, places
<1>4. ASSUME NEW i \in 1..Len(Kept) PROVE TaskOf(Kept[i]) \in DOMAIN LabelOf
    <2>1. PICK k \in places : Kept[i] = raw[k]
        BY <1>2, <1>3, Zenon
    <2>2. Kept[i] \in RawSamples /\ Kept[i].pid \in DOMAIN procs
        BY <1>1, <2>1, Zenon DEF IsProcessed
    <2> QED
        BY <2>2, PprofAssumption, Zenon
<1>5. RawSamples \subseteq RawSample
    BY PprofAssumption, Zenon
<1> QED
    BY <1>2, <1>3, <1>4, <1>5, SeqOfMore, Zenon

-----------------------------------------------------------------------------
(* The invariant.                                                          *)

\* The rest of the profile is the rest of the kept samples.
InStep(kept, ph, b, rest, labels) ==
    /\ ph \in {"raw", "processed", "converting", "built"}
    /\ ph = "raw" => Len(b.samples) = 0 /\ DOMAIN labels = {}
    /\ ph = "built" => rest = <<>>
    /\ ph # "raw" =>
        /\ Len(b.samples) + Len(rest) = Len(kept)
        /\ \A i \in 1..Len(rest) : /\ rest[i].pid = kept[Len(b.samples) + i].pid
                                   /\ rest[i].tid = kept[Len(b.samples) + i].tid

\* The profile, of samples of the right type, is what is left to convert of the kept
\* samples; the tables are linked and the samples refer to them; and the labels,
\* those asked for in this profile and those in the cache included, are of a task with
\* the pid and the tid.
PprofInv ==
    /\ raw \in Seq(RawSamples)
    /\ life \in [DOMAIN LabelOf -> Life]
    /\ process_label_cache \in Seq(Fitting(life, phase))
    /\ profile \in Seq(ProcessedType)
    /\ Sound(pprof)
    /\ InStep(Kept, phase, pprof, profile, task_to_labels)
    /\ Asked(Kept, life, pprof, task_to_labels)
    /\ Labelled(Kept, life, pprof)

LEMMA KeptStays ==
    ASSUME raw' = raw
    PROVE  Kept' = Kept
BY DEF Kept

\* A new builder is sound.
LEMMA StartIsSound == Sound(Builder) /\ Len(Builder.samples) = 0
<1>1. /\ Builder.strings = <<>> /\ Builder.functions = <<>> /\ Builder.mappings = <<>>
      /\ Builder.locations = <<>> /\ Builder.samples = <<>>
    BY DEF Builder
<1>2. Builder \in BuilderType
    BY DEF Builder, BuilderType
<1>3. Len(<<>>) = 0 /\ 1..0 = {}
    OBVIOUS
<1> QED
    BY <1>1, <1>2, <1>3, Zenon DEF Sound, Linked

LEMMA StartHasNone ==
    ASSUME NEW kept, NEW lf, NEW labels, DOMAIN labels = {}, NEW b, Len(b.samples) = 0
    PROVE  Asked(kept, lf, b, labels) /\ Labelled(kept, lf, b)
<1>1. 1..0 = {}
    OBVIOUS
<1> QED
    BY <1>1, Zenon DEF Asked, Labelled

\* Initially the invariant holds.
LEMMA PprofStarts == PprofInit => PprofInv
<1> SUFFICES ASSUME PprofInit PROVE PprofInv
    OBVIOUS
<1>1. raw \in Seq(RawSamples)
    <2>1. PICK n \in 0..MAX_SAMPLES : raw \in [1..n -> RawSamples]
        BY Zenon DEF PprofInit
    <2>2. n \in Nat
        BY PprofAssumption
    <2> QED
        BY <2>1, <2>2
<1>2. life \in [DOMAIN LabelOf -> Life]
    BY DEF PprofInit, Life
<1>3. process_label_cache \in Seq(Fitting(life, phase)) /\ profile \in Seq(ProcessedType)
    BY DEF PprofInit
<1>4. Sound(pprof) /\ Len(pprof.samples) = 0
    BY StartIsSound, Zenon DEF PprofInit
<1>5. DOMAIN task_to_labels = {} /\ phase = "raw"
    BY DEF PprofInit
<1>6. InStep(Kept, phase, pprof, profile, task_to_labels)
    BY <1>4, <1>5 DEF InStep
<1>7. Asked(Kept, life, pprof, task_to_labels) /\ Labelled(Kept, life, pprof)
    BY <1>4, <1>5, StartHasNone, Zenon
<1> QED
    BY <1>1, <1>2, <1>3, <1>4, <1>6, <1>7, Zenon DEF PprofInv

\* While samples are raw, tasks are registered, end and start.
LEMMA MetadataKeeps ==
    ASSUME PprofInv, Metadata
    PROVE  PprofInv'
<1>1. /\ raw' = raw /\ profile' = profile /\ phase' = phase /\ phase = "raw"
      /\ task_to_labels' = task_to_labels /\ pprof' = pprof
    BY DEF Metadata, register_task, task_turns, other_task_pushed
<1>2. Kept' = Kept
    BY <1>1, KeptStays
<1>3. Len(pprof.samples) = 0 /\ DOMAIN task_to_labels = {}
    BY <1>1, Zenon DEF PprofInv, InStep
<1>4. /\ raw' \in Seq(RawSamples) /\ profile' \in Seq(ProcessedType) /\ Sound(pprof)'
      /\ InStep(Kept, phase, pprof, profile, task_to_labels)'
    BY <1>1, <1>2 DEF PprofInv
<1>5. Asked(Kept, life, pprof, task_to_labels)' /\ Labelled(Kept, life, pprof)'
    BY <1>1, <1>3, StartHasNone
<1>6. life' \in [DOMAIN LabelOf -> Life] /\ process_label_cache' \in Seq(Fitting(life, phase)')
    <2>1. ASSUME NEW t \in SampledTasks, register_task(t)
          PROVE  life' \in [DOMAIN LabelOf -> Life] /\ process_label_cache' \in Seq(Fitting(life, phase)')
        <3>1. t \in DOMAIN LabelOf
            BY PprofAssumption, Zenon DEF SampledTasks
        <3>2. life' = life /\ life[t] # "gone" /\ process_label_cache' = push(t, get_labels(t))
            BY <2>1, Zenon DEF register_task
        <3>3. get_labels(t) \in Label /\ Fits(life, t, get_labels(t))
            BY <3>1, LabelsGot, Zenon DEF PprofInv, Fits
        <3>4. [task |-> t, label |-> get_labels(t)] \in Fitting(life, phase)
            BY <3>1, <3>2, <3>3, EntryFits, Zenon
        <3>5. push(t, get_labels(t)) \in Seq(Fitting(life, phase))
            BY <3>4, Pushed, Zenon DEF PprofInv
        <3> QED
            BY <1>1, <3>2, <3>5 DEF PprofInv
    <2>2. ASSUME NEW t \in SampledTasks, task_turns(t)
          PROVE  life' \in [DOMAIN LabelOf -> Life] /\ process_label_cache' \in Seq(Fitting(life, phase)')
        <3>1. t \in DOMAIN LabelOf
            BY PprofAssumption, Zenon DEF SampledTasks
        <3>2. /\ life' = [life EXCEPT ![t] = IF @ = "first" THEN "gone" ELSE "second"]
              /\ life[t] # "second" /\ process_label_cache' = process_label_cache
            BY <2>2, Zenon DEF task_turns
        <3>3. /\ life' \in [DOMAIN LabelOf -> Life]
              /\ Fitting(life, "raw") \subseteq Fitting(life', "raw")
            BY <3>1, <3>2, FitsWhenTurned, Zenon DEF PprofInv
        <3>4. process_label_cache \in Seq(Fitting(life, "raw"))
            BY <1>1, Zenon DEF PprofInv
        <3>5. process_label_cache \in Seq(Fitting(life', "raw"))
            BY <3>3, <3>4, SeqOfMore, Zenon
        <3> QED
            BY <1>1, <3>2, <3>3, <3>5
    <2>3. ASSUME other_task_pushed
          PROVE  life' \in [DOMAIN LabelOf -> Life] /\ process_label_cache' \in Seq(Fitting(life, phase)')
        <3>1. /\ life' = life /\ process_label_cache # <<>>
              /\ process_label_cache' = Tail(process_label_cache)
            BY <2>3, Zenon DEF other_task_pushed
        <3>2. process_label_cache \in Seq(Fitting(life, phase))
            BY Zenon DEF PprofInv
        <3>3. Tail(process_label_cache) \in Seq(Fitting(life, phase))
            BY <3>1, <3>2, HeadTailProperties, Zenon
        <3> QED
            BY <1>1, <3>1, <3>3 DEF PprofInv
    <2> QED
        BY <2>1, <2>2, <2>3, Zenon DEF Metadata
<1> QED
    BY <1>4, <1>5, <1>6 DEF PprofInv

\* The rest of a profile after its first sample.
LEMMA RestFacts ==
    ASSUME NEW S, NEW rest \in Seq(S), rest # <<>>
    PROVE  /\ Head(rest) \in S /\ Head(rest) = rest[1] /\ Tail(rest) \in Seq(S)
           /\ Len(rest) \in Nat /\ 1 \in 1..Len(rest) /\ Len(Tail(rest)) = Len(rest) - 1
           /\ \A i \in 1..Len(Tail(rest)) : i + 1 \in 1..Len(rest) /\ Tail(rest)[i] = rest[i + 1]
BY HeadTailProperties, LenProperties

SameShape(T, s, t) == t \in Seq(T) /\ Len(t) = Len(s)

\* MapFrames keeps the length.
LEMMA MappedShape ==
    ASSUME NEW S, NEW T, NEW s \in Seq(S), NEW t, t = [i \in DOMAIN s |-> t[i]],
           \A i \in 1..Len(s) : t[i] \in T
    PROVE  SameShape(T, s, t)
<1>1. Len(s) \in Nat /\ DOMAIN s = 1..Len(s)
    BY LenProperties
<1>2. t \in [1..Len(s) -> T]
    BY <1>1
<1> QED
    BY <1>1, <1>2 DEF SameShape

\* The processed profile is in step with the kept samples.
LEMMA ProfileProcessed ==
    ASSUME NEW kept \in Seq(RawSample), NEW t, t = [i \in DOMAIN kept |-> Processed(kept[i])]
    PROVE  /\ t \in Seq(ProcessedType) /\ Len(t) = Len(kept)
           /\ \A i \in 1..Len(kept) : t[i].pid = kept[i].pid /\ t[i].tid = kept[i].tid
<1>1. DOMAIN kept = 1..Len(kept) /\ \A i \in 1..Len(kept) : kept[i] \in RawSample
    BY LenProperties
<1>2. \A i \in 1..Len(kept) : t[i] = Processed(kept[i])
    BY <1>1, Zenon
<1>3. \A i \in 1..Len(kept) :
        t[i] \in ProcessedType /\ t[i].pid = kept[i].pid /\ t[i].tid = kept[i].tid
    BY <1>1, <1>2, ProcessedTyped, Zenon
<1>4. t = [i \in DOMAIN kept |-> t[i]]
    OBVIOUS
<1>5. \A i \in 1..Len(kept) : t[i] \in ProcessedType
    BY <1>3, Zenon
<1>6. t \in Seq(ProcessedType) /\ Len(t) = Len(kept)
    <2>1. kept \in Seq(RawSample)
        OBVIOUS
    <2>2. SameShape(ProcessedType, kept, t)
        BY ONLY <1>4, <1>5, <2>1, MappedShape, Zenon
    <2> QED
        BY <2>2, Zenon DEF SameShape
<1> QED
    BY <1>3, <1>6, Zenon

\* The symbolised profile is in step with the processed one.
LEMMA ProfileSymbolized ==
    ASSUME NEW s \in Seq(ProcessedType), NEW t, t = [i \in DOMAIN s |-> SymbolizedSample(s[i])]
    PROVE  /\ t \in Seq(ProcessedType) /\ Len(t) = Len(s)
           /\ \A i \in 1..Len(s) : t[i].pid = s[i].pid /\ t[i].tid = s[i].tid
<1>1. DOMAIN s = 1..Len(s) /\ \A i \in 1..Len(s) : s[i] \in ProcessedType
    BY LenProperties
<1>2. \A i \in 1..Len(s) : t[i] = SymbolizedSample(s[i])
    BY <1>1, Zenon
<1>3. \A i \in 1..Len(s) :
        t[i] \in ProcessedType /\ t[i].pid = s[i].pid /\ t[i].tid = s[i].tid
    BY <1>1, <1>2, SymbolizedTyped, Zenon
<1>4. t = [i \in DOMAIN s |-> t[i]]
    OBVIOUS
<1>5. \A i \in 1..Len(s) : t[i] \in ProcessedType
    BY <1>3, Zenon
<1>6. t \in Seq(ProcessedType) /\ Len(t) = Len(s)
    <2>1. s \in Seq(ProcessedType)
        OBVIOUS
    <2>2. SameShape(ProcessedType, s, t)
        BY ONLY <1>4, <1>5, <2>1, MappedShape, Zenon
    <2> QED
        BY <2>2, Zenon DEF SameShape
<1> QED
    BY <1>3, <1>6, Zenon

\* raw_to_processed keeps the invariant.
LEMMA ProcessedKeeps ==
    ASSUME PprofInv, raw_to_processed
    PROVE  PprofInv'
<1>1. /\ raw' = raw /\ phase = "raw" /\ phase' = "processed" /\ task_to_labels' = task_to_labels
      /\ pprof' = pprof /\ life' = life /\ process_label_cache' = process_label_cache
      /\ profile' = [i \in DOMAIN Kept |-> Processed(Kept[i])]
    BY DEF raw_to_processed, metadataVars, MapFrames
<1>2. Kept' = Kept
    BY <1>1, KeptStays
<1>3. Kept \in Seq(RawSample)
    BY KeptFacts DEF PprofInv
<1>4. Len(Kept) \in Nat
    BY <1>3, LenProperties
<1>7. /\ profile' \in Seq(ProcessedType) /\ Len(profile') = Len(Kept)
      /\ \A i \in 1..Len(Kept) : profile'[i].pid = Kept[i].pid /\ profile'[i].tid = Kept[i].tid
    BY <1>1, <1>3, ProfileProcessed, Zenon
<1>8. Len(pprof.samples) = 0 /\ DOMAIN task_to_labels = {}
    BY <1>1, Zenon DEF PprofInv, InStep
<1>9. InStep(Kept, "processed", pprof, profile', task_to_labels)
    BY <1>4, <1>7, <1>8 DEF InStep
<1>10. Fitting(life, phase) \subseteq Fitting(life, "processed")
    BY DEF Fitting
<1>11. process_label_cache \in Seq(Fitting(life, "processed"))
    BY <1>10, SeqOfMore, Zenon DEF PprofInv
<1> QED
    BY <1>1, <1>2, <1>7, <1>9, <1>11, Zenon DEF PprofInv

LEMMA InStepSymbolized ==
    ASSUME NEW kept, NEW ph, ph # "built", NEW b, NEW rest, NEW labels, InStep(kept, ph, b, rest, labels),
           NEW new, Len(new) = Len(rest),
           \A i \in 1..Len(rest) : new[i].pid = rest[i].pid /\ new[i].tid = rest[i].tid
    PROVE  InStep(kept, ph, b, new, labels)
BY Zenon DEF InStep

\* symbolize_profile keeps the invariant.
LEMMA SymbolizedKeeps ==
    ASSUME PprofInv, symbolize_profile
    PROVE  PprofInv'
<1>1. /\ raw' = raw /\ phase = "processed" /\ phase' = phase /\ task_to_labels' = task_to_labels
      /\ pprof' = pprof /\ life' = life /\ process_label_cache' = process_label_cache
      /\ profile' = [i \in DOMAIN profile |-> SymbolizedSample(profile[i])]
    BY Zenon DEF symbolize_profile, metadataVars, MapFrames, SymbolizedSample
<1>2. Kept' = Kept
    BY <1>1, KeptStays
<1>3. profile \in Seq(ProcessedType)
    BY Zenon DEF PprofInv
<1>7. /\ profile' \in Seq(ProcessedType) /\ Len(profile') = Len(profile)
      /\ \A i \in 1..Len(profile) :
            profile'[i].pid = profile[i].pid /\ profile'[i].tid = profile[i].tid
    BY <1>1, <1>3, ProfileSymbolized, Zenon
<1>8. InStep(Kept, phase, pprof, profile, task_to_labels)
    BY Zenon DEF PprofInv
<1>9. InStep(Kept, phase, pprof, profile', task_to_labels)
    <2>1. phase # "built"
        BY <1>1
    <2> QED
        BY <1>7, <1>8, <2>1, InStepSymbolized, Zenon
<1> QED
    BY <1>1, <1>2, <1>7, <1>9 DEF PprofInv

\* The end of to_pprof keeps the invariant.
LEMMA BuiltKeeps ==
    ASSUME PprofInv, built
    PROVE  PprofInv'
<1>1. /\ raw' = raw /\ phase # "raw" /\ phase' = "built" /\ task_to_labels' = task_to_labels
      /\ life' = life /\ process_label_cache' = process_label_cache
      /\ profile = <<>> /\ profile' = profile /\ pprof' = build(pprof)
    BY DEF built, metadataVars
<1>2. Kept' = Kept
    BY <1>1, KeptStays
<1>3. Sound(pprof) /\ Linked(pprof) /\ pprof \in BuilderType
    BY Zenon DEF PprofInv, Sound, Linked
<1>4. Linked(pprof') /\ Grown(pprof, pprof') /\ pprof' \in BuilderType
    BY <1>1, <1>3, Built, Zenon DEF Linked
<1>5. /\ Sound(pprof') /\ Labelled(Kept, life, pprof')
      /\ Asked(Kept, life, pprof', task_to_labels)
    BY <1>3, <1>4, SoundGrown, LabelledGrown, AskedGrown, Zenon DEF PprofInv
<1>6. InStep(Kept, phase, pprof, profile, task_to_labels) /\ pprof'.samples = pprof.samples
    BY <1>4, Zenon DEF PprofInv, Grown
<1>7. InStep(Kept, "built", pprof', profile, task_to_labels)
    BY <1>1, <1>6, Zenon DEF InStep
<1>8. Fitting(life, phase) \subseteq Fitting(life, "built")
    BY DEF Fitting
<1>9. process_label_cache \in Seq(Fitting(life, "built"))
    BY <1>8, SeqOfMore, Zenon DEF PprofInv
<1> QED
    BY <1>1, <1>2, <1>5, <1>7, <1>9 DEF PprofInv

LEMMA OneFurther ==
    ASSUME NEW k, NEW n \in Nat, k = n + 1, NEW i \in Int
    PROVE  k + i = n + (i + 1)
OBVIOUS

\* A sample that to_pprof converts keeps the invariant, and has the locations of its stacks.
LEMMA ConvertedKeeps ==
    ASSUME PprofInv, to_pprof
    PROVE  /\ PprofInv'
           /\ IncludesLocations(pprof, UserAcc(pprof, Head(profile)), Head(profile).count, pprof')
<1> DEFINE s == Head(profile)
           n == Len(pprof.samples)
           u == UserAcc(pprof, s)
           label == IF s.tid \notin DOMAIN task_to_labels THEN get_metadata(TaskOf(s))
                    ELSE task_to_labels[s.tid]
           d == WithLabel(u.b, task_to_labels, s.tid, label)
           c == add_sample(d, SampleOf(u, d, s.count, label))
           more == LabelsWith(task_to_labels, s.tid, label)
<1>1. /\ raw' = raw /\ life' = life /\ phase \in {"processed", "converting"}
      /\ phase' = "converting" /\ profile # <<>> /\ profile' = Tail(profile)
    BY Zenon DEF to_pprof
<1>2. /\ pprof' = c /\ task_to_labels' = more
      /\ process_label_cache' = IF s.tid \notin DOMAIN task_to_labels THEN push(TaskOf(s), label)
                                ELSE process_label_cache
    BY Zenon DEF to_pprof, WithLabel, SampleOf, LabelsWith, UserAcc, KernelAcc
<1>3. Kept' = Kept
    BY <1>1, KeptStays
<1>4. /\ Kept \in Seq(RawSample) /\ Len(Kept) \in Nat
      /\ \A i \in 1..Len(Kept) : TaskOf(Kept[i]) \in DOMAIN LabelOf
    BY KeptFacts, LenProperties DEF PprofInv
<1>5. Sound(pprof) /\ n \in Nat
    BY BuilderLengths, Zenon DEF PprofInv, Sound, Linked
<1>6. profile \in Seq(ProcessedType)
    BY Zenon DEF PprofInv
<1>7. /\ s \in ProcessedType /\ s = profile[1] /\ Tail(profile) \in Seq(ProcessedType)
      /\ Len(profile) \in Nat /\ 1 \in 1..Len(profile) /\ Len(Tail(profile)) = Len(profile) - 1
      /\ \A i \in 1..Len(Tail(profile)) :
            i + 1 \in 1..Len(profile) /\ Tail(profile)[i] = profile[i + 1]
    BY <1>1, <1>6, RestFacts, Zenon
<1>8. InStep(Kept, phase, pprof, profile, task_to_labels) /\ phase # "raw"
    BY <1>1 DEF PprofInv
<1>9. /\ n + Len(profile) = Len(Kept)
      /\ \A i \in 1..Len(profile) : profile[i].pid = Kept[n + i].pid /\ profile[i].tid = Kept[n + i].tid
    BY <1>8, Zenon DEF InStep
<1> HIDE DEF s
<1>10. n + 1 \in 1..Len(Kept) /\ s.pid = Kept[n + 1].pid /\ s.tid = Kept[n + 1].tid
    <2>1. n + 1 \in 1..Len(Kept)
        BY <1>4, <1>5, <1>7, <1>9
    <2> QED
        BY <1>7, <1>9, <2>1, Zenon
<1>11. TaskOf(s) = TaskOf(Kept[n + 1]) /\ TaskOf(s) \in DOMAIN LabelOf
    BY <1>4, <1>10, Zenon DEF TaskOf
<1>12. /\ get_metadata(TaskOf(s)) \in Label
       /\ Fits(life, TaskOf(s), get_metadata(TaskOf(s)))
    BY <1>11, MetadataGot, Zenon DEF PprofInv
<1>13. NextLabel(Kept, life, task_to_labels, s.tid, n + 1, label)
    BY <1>11, <1>12, Zenon DEF NextLabel
<1>14. Labelled(Kept, life, pprof) /\ Asked(Kept, life, pprof, task_to_labels)
    BY Zenon DEF PprofInv
<1> HIDE DEF u, d, c, more, label
<1>15. IncludesNext(Kept, life, pprof, c, more) /\ IncludesLocations(pprof, u, s.count, c)
    <2>1. u = UserAcc(pprof, s) /\ d = WithLabel(u.b, task_to_labels, s.tid, label)
        BY Zenon DEF u, d
    <2>2. /\ c = add_sample(d, SampleOf(u, d, s.count, label))
          /\ more = LabelsWith(task_to_labels, s.tid, label)
        BY Zenon DEF c, more
    <2> QED
        BY <1>4, <1>5, <1>7, <1>10, <1>13, <1>14, <2>1, <2>2, NextAdded, Zenon
<1>16. /\ Sound(c) /\ Labelled(Kept, life, c) /\ Asked(Kept, life, c, more) /\ Len(c.samples) = n + 1
    BY <1>15, Zenon DEF IncludesNext
<1>17. InStep(Kept, "converting", c, Tail(profile), more)
    <2>1. Len(c.samples) + Len(Tail(profile)) = Len(Kept)
        BY <1>4, <1>5, <1>7, <1>9, <1>16
    <2>2. ASSUME NEW i \in 1..Len(Tail(profile))
          PROVE  /\ Tail(profile)[i].pid = Kept[Len(c.samples) + i].pid
                 /\ Tail(profile)[i].tid = Kept[Len(c.samples) + i].tid
        <3>1. Len(c.samples) + i = n + (i + 1) /\ i + 1 \in 1..Len(profile)
            <4>1. i \in Int
                OBVIOUS
            <4>2. i + 1 \in 1..Len(profile)
                BY <1>7, Zenon
            <4>3. Len(c.samples) + i = n + (i + 1)
                BY <1>5, <1>16, <4>1, OneFurther, Zenon
            <4> QED
                BY <4>2, <4>3, Zenon
        <3> QED
            BY <1>7, <1>9, <3>1, Zenon
    <2> QED
        BY <2>1, <2>2, Zenon DEF InStep
<1>18. process_label_cache' \in Seq(Fitting(life, "converting"))
    <2>1. process_label_cache \in Seq(Fitting(life, "converting"))
        <3>1. Fitting(life, phase) \subseteq Fitting(life, "converting")
            BY DEF Fitting
        <3> QED
            BY <3>1, SeqOfMore, Zenon DEF PprofInv
    <2>2. CASE s.tid \notin DOMAIN task_to_labels
        <3>1. label = get_metadata(TaskOf(s)) /\ process_label_cache' = push(TaskOf(s), label)
            BY <1>2, <2>2, Zenon DEF label
        <3>2. "converting" # "raw"
            OBVIOUS
        <3>3. [task |-> TaskOf(s), label |-> label] \in Fitting(life, "converting")
            BY <1>11, <1>12, <3>1, <3>2, EntryFits, Zenon
        <3> QED
            BY <2>1, <3>1, <3>3, Pushed, Zenon
    <2>3. CASE s.tid \in DOMAIN task_to_labels
        BY <1>2, <2>1, <2>3, Zenon
    <2> QED
        BY <2>2, <2>3
<1>19. PprofInv'
    BY <1>1, <1>2, <1>3, <1>7, <1>16, <1>17, <1>18, Zenon DEF PprofInv
<1>20. IncludesLocations(pprof, UserAcc(pprof, Head(profile)), Head(profile).count, pprof')
    BY <1>2, <1>15, Zenon DEF u, s
<1> QED
    BY <1>19, <1>20, Zenon

LEMMA PprofStutters ==
    ASSUME PprofInv, UNCHANGED pprofVars
    PROVE  PprofInv'
BY KeptStays DEF PprofInv, pprofVars

\* Every step keeps the invariant.
LEMMA PprofKeeps == PprofInv /\ [PprofNext]_pprofVars => PprofInv'
BY MetadataKeeps, ProcessedKeeps, SymbolizedKeeps, ConvertedKeeps, BuiltKeeps, PprofStutters, Zenon
   DEF PprofNext

LEMMA PprofInvHolds == PprofSpec => []PprofInv
BY PprofStarts, PprofKeeps, PTL DEF PprofSpec

\* The references of the pprof resolve in every state, not only in the end: locations of
\* samples, mappings and functions of locations and names of functions (pprof.rs:96-137).
THEOREM AlwaysValid == PprofSpec => []validate(pprof)
<1>1. PprofInv => validate(pprof)
    BY SoundIsValid, Zenon DEF PprofInv
<1> QED
    BY <1>1, PprofInvHolds, PTL

\* LabelsAreOfTask, for any processes, object files, caches and samples.
THEOREM LabelsAlwaysOfTask == PprofSpec => []LabelsAreOfTask
<1>1. ASSUME PprofInv PROVE LabelsAreOfTask
    <2>1. SUFFICES ASSUME phase = "built", NEW i \in DOMAIN Kept, ~ReusedIn(Kept, i)
                   PROVE  \E l \in {"first", life[TaskOf(Kept[i])]} :
                             pprof.strings[pprof.samples[i].label + 1] = LabelOf[TaskOf(Kept[i])][l].value
        BY Zenon DEF LabelsAreOfTask, ReusedIn
    <2>2. Kept \in Seq(RawSample) /\ Len(Kept) \in Nat /\ i \in 1..Len(Kept)
        BY <1>1, KeptFacts, LenProperties DEF PprofInv
    <2>3. profile = <<>> /\ Len(pprof.samples) + Len(profile) = Len(Kept) /\ Len(pprof.samples) \in Nat
        BY <1>1, <2>1, BuilderLengths, Zenon DEF PprofInv, InStep, Sound, Linked
    <2>4. i \in 1..Len(pprof.samples)
        BY <2>2, <2>3
    <2>5. LabelFits(Kept, life, pprof, i)
        BY <1>1, <2>4, Zenon DEF PprofInv, Labelled
    <2> QED
        BY <2>1, <2>5, Zenon DEF LabelFits, Fits
<1> QED
    BY <1>1, PprofInvHolds, PTL
=============================================================================
