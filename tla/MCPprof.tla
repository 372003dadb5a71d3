------------------------------ MODULE MCPprof ------------------------------
(***************************************************************************)
(* Two processes.  The first maps executable 1, with a tail that no load   *)
(* segment covers, executable 2, whose addresses coincide with those of    *)
(* executable 1 and which cannot be opened any more, and executable 3,     *)
(* which has no object file; the second maps executable 1 elsewhere.       *)
(***************************************************************************)
EXTENDS Pprof, TLC

MCMapping(exe, start, end, offset, kind, file) ==
    [exe |-> exe, start |-> start, end |-> end, offset |-> offset, kind |-> kind,
     file |-> file]

MCProcs ==
    (0 :> <<MCMapping(9, 50, 52, 40, "Kernel", "kernel")>>) @@
    (1 :> <<MCMapping(1, 10, 15, 0, "FileBacked", "one"),
            MCMapping(2, 20, 22, 4, "FileBacked", "two"),
            MCMapping(3, 30, 32, 0, "FileBacked", "three")>>) @@
    (2 :> <<MCMapping(1, 60, 65, 0, "FileBacked", "one")>>)

MCSegment(p_offset, p_vaddr, p_filesz) ==
    [p_offset |-> p_offset, p_vaddr |-> p_vaddr, p_filesz |-> p_filesz]
MCObjs ==
    (1 :> <<MCSegment(0, 100, 1), MCSegment(1, 201, 3)>>) @@
    (2 :> <<MCSegment(4, 100, 2)>>) @@ (9 :> <<>>)

MCSymbol(name, line, file) == [name |-> name, line |-> line, file |-> file]

\* A function at two addresses; at one it has inlined another, with the name of a
\* function of the kernel.
MCSymbols ==
    (<<1, 100>> :> [start |-> 100, frames |-> <<MCSymbol("main", 1, "source")>>]) @@
    (<<1, 201>> :> [start |-> 200, frames |-> <<MCSymbol("schedule", 9, "header"),
                                                MCSymbol("callee", 5, "source")>>]) @@
    (<<1, 202>> :> [start |-> 200, frames |-> <<MCSymbol("callee", 6, "source")>>])

MCKsyms == <<[start |-> 45, name |-> "schedule"], [start |-> 51, name |-> "vfs_read"]>>

MCLabel(value) == [key |-> "task", value |-> value]
MCLives(first, second) ==
    [first |-> MCLabel(first), gone |-> MCLabel("errored"), second |-> MCLabel(second)]
MCLabelOf ==
    (<<1, 1>> :> MCLives("p1", "q1")) @@ (<<2, 2>> :> MCLives("p2", "q2")) @@
    (<<2, 1>> :> MCLives("p2t1", "q2t1")) @@ (<<1, 4>> :> MCLives("p1t4", "q1t4")) @@
    (<<2, 4>> :> MCLives("p2t4", "q2t4"))
MCEnding == {<<1, 4>>, <<2, 1>>, <<2, 4>>}

MCRaw(pid, tid, ustack, kstack) ==
    [pid |-> pid, tid |-> tid, ustack |-> ustack, kstack |-> kstack,
     count |-> 1 + Len(ustack)]

MCStacks(addresses, n) == UNION {[1..i -> addresses] : i \in 0..n}

MCRawSamples ==
    {MCRaw(1, 1, u, k) : u \in MCStacks({10, 11, 12, 14, 20, 30}, 2), k \in MCStacks({50}, 1)}
    \cup {MCRaw(2, 2, u, k) : u \in MCStacks({60, 61}, 1), k \in MCStacks({50, 51}, 2)}
    \cup {MCRaw(3, 3, <<10>>, <<50>>), MCRaw(1, 1, <<40, 10>>, <<>>), MCRaw(1, 4, <<12>>, <<50>>),
          MCRaw(2, 1, <<60>>, <<>>), MCRaw(2, 4, <<63>>, <<>>)}
=============================================================================
