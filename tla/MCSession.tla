----------------------------- MODULE MCSession -----------------------------
(***************************************************************************)
(* Five sessions: a transaction that competes with queries for the one     *)
(* client of the pool, a pipelined transaction whose transport may be      *)
(* cancelled, a subscription with a query or withdrawn twice, and PGlite.  *)
(* All but the first are closed at any time.                               *)
(***************************************************************************)
EXTENDS Session, TLC

CONSTANTS l1, s1

Begin(l)    == [op |-> "begin", lane |-> l, sub |-> None, after |-> {}]
Run(l, A)   == [op |-> "run", lane |-> l, sub |-> None, after |-> A]
End(l, A)   == [op |-> "end", lane |-> l, sub |-> None, after |-> A]
Query(A)    == [op |-> "query", lane |-> None, sub |-> None, after |-> A]
Listen      == [op |-> "listen", lane |-> None, sub |-> s1, after |-> {}]
Unlisten    == [op |-> "unlisten", lane |-> None, sub |-> s1, after |-> {}]

Unused      == [op |-> "unused", lane |-> None, sub |-> None, after |-> {}]

Program(calls, pool, postgres, cancelled, midway) ==
  [calls |-> calls, pool |-> pool, concurrent |-> postgres, cancelled |-> cancelled,
   midway |-> midway]

Contention == Program(<<Begin(l1), End(l1, {1}), Query({}), Query({3})>>, 1, TRUE, FALSE, FALSE)
Pipeline   == Program(<<Begin(l1), Run(l1, {}), End(l1, {1}), Unused>>, 1, TRUE, TRUE, TRUE)
Listener   == Program(<<Listen, Unlisten, Query({}), Unused>>, 2, TRUE, FALSE, TRUE)
Withdrawn  == Program(<<Listen, Unlisten, Unlisten, Unused>>, 2, TRUE, FALSE, TRUE)
Exclusive  == Program(<<Query({}), Listen, Query({1}), Unused>>, 1, FALSE, TRUE, TRUE)

AllPrograms == {Contention, Pipeline, Listener, Withdrawn, Exclusive}
=============================================================================
