------------------------- MODULE MCPostgresAdapter -------------------------
(***************************************************************************)
(* Calls of query() on a pool of one or two clients, over the default lane *)
(* and a named one.                                                        *)
(***************************************************************************)
EXTENDS PostgresAdapter, TLC

CONSTANTS c1, c2, dflt, lane1

Shape(start, control, commit, params) ==
  [start |-> start, control |-> control, commit |-> commit, params |-> params]

\* A plain statement of the given kind.
Plain(kind) == Shape(FALSE, kind, FALSE, FALSE)

\* The default lane is controlled by explicit BEGIN, COMMIT or ROLLBACK and
\* AND CHAIN; the named one by begin options on its first statement, with and
\* without parameters, and by statements that carry their COMMIT.
AllCalls ==
  {Plain(k) : k \in {"begin", "other", "end", "chain"}} \X {dflt}
  \cup ( {Shape(TRUE, "other", FALSE, p) : p \in BOOLEAN}
         \cup {Shape(TRUE, k, FALSE, FALSE) : k \in {"end", "reject"}}
         \cup {Shape(TRUE, "other", TRUE, FALSE), Shape(FALSE, "other", TRUE, TRUE)}
         \cup {Plain(k) : k \in {"other", "end"}} ) \X {lane1}

\* Transactions that stay open, what queues behind them, and endings that
\* may overlap.
OpenCalls == {<<Plain("begin"), dflt>>, <<Plain("begin"), lane1>>,
              <<Plain("end"), dflt>>, <<Plain("other"), dflt>>,
              <<Shape(TRUE, "other", TRUE, FALSE), lane1>>}

SwapClients == Permutations({c1, c2})
=============================================================================
