------------------------- MODULE TransactionLedger -------------------------
(***************************************************************************)
(* What query() and transaction() promise of the database: a call is told  *)
(* of its outcome once, it is told of success only when its writes are     *)
(* durable, and a transaction that was told of anything writes no more.  A *)
(* single statement may be told of a failure first: its time-out says      *)
(* nothing of what the database does.  When the transport is lost, so may  *)
(* a transaction.                                                          *)
(***************************************************************************)
CONSTANT Calls

VARIABLES
  transactions,  \* the calls that are transactions
  told,          \* what the caller has been told: "none", "ok", "error"
  writes,        \* calls that have something to keep: their statements wrote, none failed
  durable,       \* calls with writes the database has committed
  reliable       \* the transport is there

ledgerVars == <<transactions, told, writes, durable, reliable>>

LedgerInit ==
  /\ transactions \subseteq Calls
  /\ told = [c \in Calls |-> "none"] /\ writes = {} /\ durable = {} /\ reliable = TRUE

\* The application goes on writing as it likes.
Work == writes' \in SUBSET Calls

Commit(c) ==
  /\ \/ told[c] = "none"
     \/ told[c] = "error" /\ (c \notin transactions \/ ~reliable)
  /\ durable' = durable \cup {c}
  /\ Work /\ UNCHANGED <<transactions, told, reliable>>

Tell(c) ==
  /\ told[c] = "none"
  /\ \/ told' = [told EXCEPT ![c] = "error"]
     \/ (c \in writes => c \in durable) /\ told' = [told EXCEPT ![c] = "ok"]
  /\ UNCHANGED <<transactions, writes, durable, reliable>>

\* Whoever waits for the transport alone is told with it.
Lose ==
  /\ reliable /\ reliable' = FALSE /\ Work /\ UNCHANGED <<transactions, told, durable>>

LedgerNext ==
  \/ \E c \in Calls : Commit(c) \/ Tell(c)
  \/ Work /\ UNCHANGED <<transactions, told, durable, reliable>>
  \/ Lose

LedgerSpec == LedgerInit /\ [][LedgerNext]_ledgerVars
=============================================================================
