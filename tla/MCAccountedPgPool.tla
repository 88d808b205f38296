------------------------- MODULE MCAccountedPgPool -------------------------
(***************************************************************************)
(* Three checkouts of a provider with two slots: one always waits. Two of  *)
(* them may lose their connection, two may throw on return.                *)
(***************************************************************************)
EXTENDS AccountedPgPool

CONSTANTS b1, b2, b3, c1, c2

MCFaulty   == {b1, b2}
MCThrowing == {b2, b3}
=============================================================================
