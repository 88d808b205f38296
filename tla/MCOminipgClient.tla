-------------------------- MODULE MCOminipgClient --------------------------
(***************************************************************************)
(* Clients of PGlite and of PostgreSQL, of new workloads and of older      *)
(* ones: a transaction of two statements beside a query, or alone, with a  *)
(* transport that may be lost; two transactions of one statement.          *)
(***************************************************************************)
EXTENDS OminipgClient, TLC

CONSTANTS c1, c2

TwoStatements == <<"first", "second">>

Beside == <<"transaction", "query">>
Both   == <<"transaction", "transaction">>
Alone  == <<"transaction", "unused">>

Client(postgres, flags, kinds) ==
  [concurrent |-> postgres, transactionStart |-> "start" \in flags,
   transactionEnd |-> "end" \in flags, encodes |-> "unencodable" \notin flags,
   lossy |-> "lossy" \in flags, issues |-> IF kinds = Both THEN 1 ELSE 2,
   kind |-> (c1 :> kinds[1]) @@ (c2 :> kinds[2])]

PGlite(flags, kinds)     == Client(FALSE, flags, kinds)
PostgreSQL(flags, kinds) == Client(TRUE, flags, kinds)

AllClients ==
  {PGlite({"start", "end"}, Beside), PGlite({}, Beside), PGlite({"start", "lossy"}, Alone),
   PGlite({"start"}, Both),
   PostgreSQL({"start", "end"}, Beside),
   PostgreSQL({"start", "end", "lossy"}, Alone), PostgreSQL({"start", "unencodable"}, Alone),
   PostgreSQL({}, Alone)}
=============================================================================
