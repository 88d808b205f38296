-------------------------- MODULE MCPgListenerHub --------------------------
(***************************************************************************)
(* Two subscriptions, on one channel or on two, and a few faults.          *)
(***************************************************************************)
EXTENDS PgListenerHub

CONSTANTS s1, s2, s3, chA, chB
=============================================================================
