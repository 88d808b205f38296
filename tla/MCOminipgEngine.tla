-------------------------- MODULE MCOminipgEngine --------------------------
(***************************************************************************)
(* Lanes and subscriptions that compete for two or three pool slots.       *)
(***************************************************************************)
EXTENDS OminipgEngine

CONSTANTS l1, l2, id1, id2
=============================================================================
