---------------------------- MODULE DrainedPool ----------------------------
(***************************************************************************)
(* What a drained connection pool promises its callers, and nothing about  *)
(* how: resources are lent while the pool is open, the pool is sealed      *)
(* once and for all, and it is shut down only when nothing is lent.        *)
(* AccountedPgPool implements this specification.                          *)
(***************************************************************************)
EXTENDS Naturals

CONSTANT Borrows

VARIABLES lent,    \* the borrows that are still owed a return
          phase    \* "open", "sealed" (no new borrow), "shut"

vars == <<lent, phase>>

TypeOK == /\ lent \subseteq Borrows
          /\ phase \in {"open", "sealed", "shut"}

Init == lent = {} /\ phase = "open"

Lend(b) == /\ phase = "open"
           /\ b \notin lent
           /\ lent' = lent \cup {b}
           /\ UNCHANGED phase

\* Returns may happen in any phase but the last one, several at a time.
Return(S) == /\ phase # "shut"
             /\ S # {} /\ S \subseteq lent
             /\ lent' = lent \ S
             /\ UNCHANGED phase

Seal == /\ phase = "open"
        /\ phase' = "sealed"
        /\ UNCHANGED lent

Shut == /\ phase = "sealed"
        /\ lent' = {}
        /\ phase' = "shut"

Next == \/ \E b \in Borrows : Lend(b)
        \/ \E S \in SUBSET Borrows : Return(S)
        \/ Seal
        \/ Shut

Spec == Init /\ [][Next]_vars
=============================================================================
