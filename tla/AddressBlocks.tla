--------------------------- MODULE AddressBlocks ---------------------------
(***************************************************************************)
(* Memory mappings in a longest-prefix-match trie: summarize_address_range *)
(* splits a mapping into blocks, each the addresses with a common prefix,  *)
(* the mapping is added or deleted block by block (add_bpf_mappings,       *)
(* delete_bpf_mappings), and the unwinder looks an address up by the       *)
(* longest prefix that matches it.  Addresses have W bits.                 *)
(*                                                                         *)
(* Two mappings are added, the first one is deleted and then added again,  *)
(* as when a file is unmapped and mapped at the same place.                *)
(***************************************************************************)
EXTENDS Integers, Sequences

CONSTANT W

ASSUME BlocksAssumption == W \in Nat

\* 1 << k
pow2[k \in 0..(W + 1)] == IF k = 0 THEN 1 ELSE 2 * pow2[k - 1]

AddressSpace == 0..(pow2[W] - 1)

VARIABLES
    ranges,      \* the two mappings, [low, high] with both ends included
    op,          \* the operation under way in Operations
    curr,        \* where summarize_address_range is
    trie,        \* [addr, bits, mapping]: bits low bits are free
    live         \* the mappings in the trie before this operation

blockVars == <<ranges, op, curr, trie, live>>

Operations == << <<"add", 1>>, <<"add", 2>>, <<"delete", 1>>, <<"add", 1>> >>
Finished == op > Len(Operations)
Mapping == Operations[op][2]
CurrentRange == ranges[Mapping]

\* Mappings do not overlap.  None is the whole address space, of which the size
\* does not fit an address.
BlockInit ==
    /\ \E l1, h1, l2, h2 \in AddressSpace :
          /\ l1 <= h1 /\ l2 <= h2 /\ (h1 < l2 \/ h2 < l1)
          /\ ranges = << [low |-> l1, high |-> h1], [low |-> l2, high |-> h2] >>
    /\ op = 1
    /\ curr = ranges[1].low
    /\ trie = {}
    /\ live = {}

-----------------------------------------------------------------------------
\* W of 0, as u64::trailing_zeros.
trailing_zeros(n) ==
    CHOOSE k \in 0..W : n % pow2[k] = 0 /\ \A j \in (k + 1)..W : n % pow2[j] # 0
ilog2(n) == CHOOSE k \in 0..W : pow2[k] <= n /\ n < pow2[k + 1]

AlignedBits(addr, high) == trailing_zeros(addr)
\* The largest block that begins at addr and stays within the range.
number_of_bits(addr, high) ==
    IF trailing_zeros(addr) < ilog2(high - addr + 1)
    THEN trailing_zeros(addr) ELSE ilog2(high - addr + 1)

Block ==
    [addr |-> curr, bits |-> number_of_bits(curr, CurrentRange.high), mapping |-> Mapping]

\* bpf_map_update_elem replaces the entry with the block's key, bpf_map_delete_elem
\* removes it whatever its mapping.
Updated(b) ==
    LET others == {c \in trie : c.addr # b.addr \/ c.bits # b.bits}
    IN  IF Operations[op][1] = "add" THEN others \cup {b} ELSE others

BelowTop(next) == next > CurrentRange.high
\* The loop's condition, and its break at the top of the address space.
AtEnd(next) == next = 0 \/ next > CurrentRange.high

\* One iteration of the loop; `curr += 1 << number_of_bits` wraps at the top.
summarize_block ==
    /\ ~Finished
    /\ curr <= CurrentRange.high
    /\ trie' = Updated(Block)
    /\ LET next == (curr + pow2[Block.bits]) % pow2[W]
       IN  IF AtEnd(next)
           THEN /\ op' = op + 1
                /\ curr' = IF Finished' THEN 0 ELSE ranges[Operations[op + 1][2]].low
                /\ live' = IF Operations[op][1] = "add"
                           THEN live \cup {Mapping} ELSE live \ {Mapping}
           ELSE curr' = next /\ UNCHANGED <<op, live>>
    /\ UNCHANGED ranges

BlockSpec == BlockInit /\ [][summarize_block]_blockVars

\* The loop of a running thread goes on.
FairBlockSpec == BlockSpec /\ WF_blockVars(summarize_block)

-----------------------------------------------------------------------------
In(a, r) == r.low <= a /\ a <= r.high

\* bpf_map_lookup_elem on an LPM trie.
Matches(a) == {b \in trie : a \div pow2[b.bits] = b.addr \div pow2[b.bits]}
longest_prefix_match(a) == {b \in Matches(a) : \A c \in Matches(a) : b.bits <= c.bits}

\* "to ensure searching with Longest Prefix Match algorithm returns the precise
\* value we want" (lpm.rs:9-10): between two operations, every address is found in
\* the mapping it belongs to and in no other, and addresses of no mapping are not
\* found; the half-done operation disturbs no address of the other mapping.
LookupExact ==
    \A a \in AddressSpace :
        LET found == {b.mapping : b \in longest_prefix_match(a)}
            expected == {m \in live : In(a, ranges[m])}
        IN  IF ~Finished /\ In(a, CurrentRange) THEN found \subseteq {Mapping} ELSE found = expected

\* The loop ends, at the top of the address space too (lpm.rs:27-29).
Ends == <>Finished
=============================================================================
