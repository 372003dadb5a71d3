----------------------------- MODULE MCUnwinder -----------------------------
(***************************************************************************)
(* The unwinder's own limits, with stacks around every one of them.        *)
(***************************************************************************)
EXTENDS Unwinder

MCDepths == 0..1 \cup 6..8 \cup 13..14 \cup 120..142
=============================================================================
