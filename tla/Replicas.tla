------------------------------ MODULE Replicas ------------------------------
(***************************************************************************)
(* What synchronization promises of two copies of a table: each changes    *)
(* only by taking changes somebody made and committed, and a row is never  *)
(* replaced by one with an older last-write-wins value.  A delete carries  *)
(* no such value (SYNC.md: "Deletes have no LWW tombstone conflict         *)
(* strategy"), so a row may come back after one.                           *)
(***************************************************************************)
EXTENDS Naturals

CONSTANTS Keys

VARIABLES
  local,   \* the LWW value of each row of the edge's copy, 0 when there is none
  remote,  \* that of the server's
  made     \* the committed changes: <<key, value>>, value 0 for a delete

vars == <<local, remote, made>>

\* table, changed by changes of M.
Takes(table, M) ==
  {t \in [Keys -> {0} \cup {c[2] : c \in M}] :
     \A k \in Keys : t[k] # table[k] => <<k, t[k]>> \in M /\ (t[k] > table[k] \/ t[k] = 0)}

Init == local = [k \in Keys |-> 0] /\ remote = local /\ made = {}

Next ==
  /\ made \subseteq made'
  /\ \/ local' \in Takes(local, made') /\ UNCHANGED remote
     \/ remote' \in Takes(remote, made') /\ UNCHANGED local

Spec == Init /\ [][Next]_vars
=============================================================================
