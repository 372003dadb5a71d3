----------------------------- MODULE MCProfiler -----------------------------
(***************************************************************************)
(* Small instances of Profiler.                                            *)
(***************************************************************************)
EXTENDS Profiler, TLC

CONSTANTS p1, p2, tool, app, libc, vmlinux, jit

MCPid == {p1, p2}
MCExecutableId == {tool, app, libc, vmlinux}
MCPages == [e \in MCExecutableId |-> IF e = libc THEN 2 ELSE 1]

Tool == Mapping(1, 2, tool, "FileBacked")
App == Mapping(3, 4, app, "FileBacked")
Libc == Mapping(1, 3, libc, "FileBacked")
Jit == Mapping(2, 3, jit, "Anonymous")

\* Both run the program; p2 also uses libc, or generates code.  It removes the end of
\* libc, or the code, and may generate code in its place.
MCRows == [e \in MCExecutableId |-> 1]
MCLayouts == (p1 :> {{App}}) @@ (p2 :> {{App, Libc}, {App, Jit}})
MCDlopened == (p1 :> {}) @@ (p2 :> {Jit})
MCUnmaps == (p1 :> {}) @@ (p2 :> {[start |-> 2, end |-> 3]})

\* One process needs two tables, the other one that is as large as both.
MCRowsLive == [e \in MCExecutableId |-> IF e = libc THEN 2 ELSE 1]
MCLayoutsLive == (p1 :> {{App, Tool}}) @@ (p2 :> {{Libc}})

\* Two processes run the same program.
MCLayoutsShared == [p \in MCPid |-> {{App}}]

\* Mappings stay as they are.
MCNone == [p \in MCPid |-> {}]
=============================================================================
