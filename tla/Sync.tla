-------------------------------- MODULE Sync --------------------------------
(***************************************************************************)
(* src/src/worker/sync and the outbox trigger of schema.ts: a local PGlite *)
(* table and its copy in a remote PostgreSQL.  Local changes are recorded  *)
(* in an outbox and pushed in batches; remote ones arrive as WAL messages  *)
(* and are applied locally.                                                *)
(*                                                                         *)
(* PGlite is ONE connection: the application, the pushes and the handlers  *)
(* of WAL messages send it their statements one by one, it serves them in  *)
(* order, and what one of them begins the others are in.  An action is a   *)
(* statement with what the code does up to the next.                       *)
(*                                                                         *)
(* A row is its last-write-wins value, 0 when there is none; values are    *)
(* unique and a row's only grow, as SYNC.md asks of the application.       *)
(***************************************************************************)
EXTENDS Naturals, FiniteSets, SequencesExt, Subsequences

CONSTANTS
  Keys,       \* rows of the table
  Pushers,    \* calls of pushBatch() that may run at a time
  Scenarios,  \* what may happen: sets of Features
  TextRank,   \* place of each value among the values, written in decimal
  None,
  MaxValue,   \* bound: last-write-wins values
  MaxChanges, \* bound: rows ever put in _outbox by the application
  MaxWal,     \* bound: messages of the replication slot
  MaxFaults   \* bound: failures of statements, the remote, the process

Features ==
  {"write", "delete", "transaction", "failing transaction", \* of the application
   "foreign write", "foreign delete", \* of others, on the remote
   "autopush",                        \* not disableAutoPush
   "origin",                          \* the replication origin is set up
   "skip initial sync", "missing table", "fault", "crash",
   "concurrent calls",                \* application calls while messages are applied
   "concurrent messages",             \* a message while others are applied
   "bigint", "timestamp"}             \* type of the last-write-wins column, else integer

ASSUME SyncAssumption ==
  /\ Scenarios \subseteq SUBSET Features
  /\ {MaxValue, MaxChanges, MaxWal, MaxFaults} \subseteq Nat
  /\ TextRank \in [1 .. MaxValue -> Nat]
  /\ IsFiniteSet(Keys) /\ IsFiniteSet(Pushers) /\ {"idle", "begun"} \cap Pushers = {}

VARIABLES
  may,        \* the scenario
  phase,      \* of the session: "down", "copied", "running"
  data,       \* local: the table and whether it exists, _outbox, _sync_state.last_push
  saved,      \* local: data when the open transaction began
  tx,         \* local: the connection's transaction: "none", "open", "aborted"
  applying,   \* local: app.sync.is_applying_remote_change
  nextId,     \* local: the sequence of _outbox
  queue,      \* local: whose statements the connection has yet to serve
  signals,    \* outbox_new notifications to be answered
  client,     \* the application: "idle", "begun", or the push its sync() awaits
  push,       \* progress of each push
  meta,       \* state.meta of the table: "absent", "fallback", "known"
  recent,     \* state.recentlyPushed
  expiring,   \* a timer to clear it is set
  slot,       \* remote: the replication slot exists
  remote,     \* remote: the table
  wal,        \* remote: messages the publication has produced
  foreign,    \* changes others have made
  delivered,  \* messages delivered to the session
  handler,    \* progress of their handlers
  faults      \* failures so far

localVars  == <<data, saved, tx, applying, nextId, signals>>
sessionVars == <<meta, recent, expiring>>
remoteVars == <<slot, remote, wal, foreign>>
vars == <<may, phase, localVars, queue, client, push, meta, recent, expiring,
          remoteVars, delivered, handler, faults>>

Change(k, v) == <<k, v>>
Values == 1 .. MaxValue

\* The last-write-wins values a change of k by those who made M, and see v now,
\* may have: used by nobody and greater than those before.  Those of a
\* rolled-back transaction are free again.
Fresh(k, M, v) ==
  {n \in Values : /\ n > v /\ \A c \in data.made \cup foreign : c[2] # n
                  /\ \A c \in M : c[1] = k => n > c[2]}

Committed == IF tx = "none" THEN data ELSE saved

Active(i) == handler[i].pc \notin {"none", "done", "failed"}
Applying  == \E i \in 1 .. MaxWal : Active(i)
\* Those who send statements: a connection serves each one's in its turn.
TheClient  == <<"client", 0>>
Push(p)    == <<"push", p>>
Handler(i) == <<"handler", i>>

Turn(a)  == queue # <<>> /\ Head(queue) = a
Sends(a) == queue' = Append(queue, a)
Goes(a)  == queue' = Append(Tail(queue), a)
Leaves   == queue' = Tail(queue)

Idle      == [pc |-> "idle", from |-> 0, batch |-> <<>>, noted |-> 0, own |-> FALSE]

Unseen    == [pc |-> "none", m |-> "absent", retry |-> FALSE]

SyncInit ==
  /\ may \in Scenarios /\ phase = "down"
  /\ data = [tbl |-> [k \in Keys |-> 0], outbox |-> <<>>, lastPush |-> 0,
             exists |-> "missing table" \notin may, raised |-> FALSE, made |-> {}]
  /\ saved = data /\ tx = "none" /\ applying = FALSE /\ nextId = 1 /\ signals = 0
  /\ queue = <<>>
  /\ client = "idle" /\ push = [p \in Pushers |-> Idle]
  /\ meta = "absent" /\ recent = [k \in Keys |-> None] /\ expiring = FALSE
  /\ slot = FALSE /\ remote = [k \in Keys |-> 0] /\ wal = <<>> /\ foreign = {}
  /\ delivered = 0 /\ handler = [i \in 1 .. MaxWal |-> Unseen]
  /\ faults = 0
-----------------------------------------------------------------------------
(***************************************************************************)
(* The local connection.                                                   *)
(***************************************************************************)
\* A statement leaves d; outside of a transaction it commits at once, and
\* with it the notification its trigger raised.
Executes(d) ==
  IF tx = "none"
  THEN /\ data' = [d EXCEPT !.raised = FALSE] /\ saved' = data'
       /\ signals' = IF d.raised /\ "autopush" \in may THEN signals + 1 ELSE signals
       /\ UNCHANGED <<tx, applying>>
  ELSE data' = d /\ UNCHANGED <<saved, signals, tx, applying>>

\* It reaches another connection.
BeginElsewhere == UNCHANGED localVars

\* Inside a transaction BEGIN is a warning.
Begin ==
  /\ tx' = IF tx = "none" THEN "open" ELSE tx
  /\ UNCHANGED <<data, saved, applying, nextId, signals>>

\* The transaction ends with d, whoever began it; outside of one it is a warning.
EndTx(d) ==
  /\ data' = [d EXCEPT !.raised = FALSE] /\ saved' = data' /\ tx' = "none"
  /\ signals' = IF d.raised /\ "autopush" \in may THEN signals + 1 ELSE signals
  /\ applying' = FALSE
  /\ UNCHANGED nextId

Commit   == EndTx(IF tx = "aborted" THEN saved ELSE data)
Rollback == EndTx(saved)

\* An error aborts the transaction it is in.
StatementFails ==
  /\ tx' = IF tx = "none" THEN "none" ELSE "aborted"
  /\ UNCHANGED <<data, saved, applying, nextId, signals>>

\* A row becomes v, with outbox_trigger_fn.
Row(k, v) ==
  [data EXCEPT !.tbl[k] = v,
     !.raised = @ \/ ~applying,
     !.outbox = IF applying THEN @
                ELSE Append(@, [id |-> nextId, key |-> k, value |-> v,
                                op |-> IF v = 0 THEN "D"
                                       ELSE IF data.tbl[k] = 0 THEN "I" ELSE "U"])]

SetRow(d) ==
  Executes(d) /\ nextId' = IF applying THEN nextId ELSE nextId + 1
-----------------------------------------------------------------------------
(***************************************************************************)
(* The application.                                                        *)
(***************************************************************************)
MayCall == phase = "running" /\ (Applying => "concurrent calls" \in may)

\* The next call of query(), or of a transaction, reaches the connection.
ClientSends ==
  /\ MayCall /\ client \in {"idle", "begun"} /\ TheClient \notin ToSet(queue)
  /\ client = "begun" \/ nextId <= MaxChanges
  /\ Sends(TheClient)
  /\ UNCHANGED <<may, phase, localVars, client, push, sessionVars, remoteVars,
                 delivered, handler, faults>>

ClientChanges(k) ==
  /\ Turn(TheClient) /\ Leaves
  /\ data.exists /\ tx # "aborted" /\ nextId <= MaxChanges
  /\ client = "begun" => "transaction" \in may
  /\ \E v \in Fresh(k, data.made, data.tbl[k]) \cup {0} :
       /\ v # 0 => "write" \in may
       /\ v = 0 => "delete" \in may /\ data.tbl[k] # 0
       /\ SetRow([Row(k, v) EXCEPT !.made = @ \cup {Change(k, v)}])
  /\ UNCHANGED <<may, phase, client, push, sessionVars, remoteVars, delivered,
                 handler, faults>>

\* A statement without effect.
ClientReads ==
  /\ Turn(TheClient) /\ Leaves
  /\ UNCHANGED <<may, phase, localVars, client, push, sessionVars, remoteVars,
                 delivered, handler, faults>>

ClientBegins ==
  /\ Turn(TheClient) /\ Leaves
  /\ client = "idle" /\ may \cap {"transaction", "failing transaction"} # {}
  /\ client' = "begun" /\ Begin
  /\ UNCHANGED <<may, phase, push, sessionVars, remoteVars, delivered, handler,
                 faults>>

\* One of its statements fails in the transaction.
ClientFails ==
  /\ Turn(TheClient) /\ Leaves
  /\ client = "begun" /\ tx = "open"
  /\ "failing transaction" \in may /\ faults < MaxFaults /\ faults' = faults + 1
  /\ StatementFails
  /\ UNCHANGED <<may, phase, client, push, sessionVars, remoteVars, delivered,
                 handler>>

ClientEnds ==
  /\ Turn(TheClient) /\ Leaves
  /\ client = "begun" /\ client' = "idle"
  /\ Commit \/ Rollback
  /\ UNCHANGED <<may, phase, push, sessionVars, remoteVars, delivered, handler,
                 faults>>

\* sync() runs alone among the calls of the application.
ClientSyncs(p) ==
  /\ MayCall /\ client = "idle" /\ TheClient \notin ToSet(queue)
  /\ push[p].pc = "idle" /\ data.outbox # <<>>
  /\ client' = p /\ push' = [push EXCEPT ![p].pc = "cursor"] /\ Sends(Push(p))
  /\ UNCHANGED <<may, phase, localVars, sessionVars, remoteVars, delivered,
                 handler, faults>>
-----------------------------------------------------------------------------
(***************************************************************************)
(* pushBatch.                                                              *)
(***************************************************************************)
AutoPush(p) ==
  /\ phase = "running" /\ signals > 0 /\ push[p].pc = "idle"
  /\ signals' = signals - 1
  /\ push' = [push EXCEPT ![p].pc = "cursor"] /\ Sends(Push(p))
  /\ UNCHANGED <<may, phase, data, saved, tx, applying, nextId, client,
                 sessionVars, remoteVars, delivered, handler, faults>>

PushReturns(p) ==
  /\ push' = [push EXCEPT ![p] = Idle]
  /\ client' = IF client = p THEN "idle" ELSE client

ReadCursor(p) ==
  /\ push[p].pc = "cursor" /\ Turn(Push(p))
  /\ \/ /\ tx # "aborted" /\ Goes(Push(p))
        /\ push' = [push EXCEPT ![p].pc = "outbox", ![p].from = data.lastPush]
        /\ UNCHANGED client
     \/ tx = "aborted" /\ PushReturns(p) /\ Leaves
  /\ UNCHANGED <<may, phase, localVars, sessionVars, remoteVars, delivered,
                 handler, faults>>

\* The entries of an outbox after one of them.
Beyond(outbox, id) == Among(outbox, {e \in ToSet(outbox) : e.id > id})

\* The connection shows it the rows of an open transaction too.  Of two pushes
\* only one gets the replication origin.
ReadOutbox(p) ==
  /\ push[p].pc = "outbox" /\ Turn(Push(p)) /\ Leaves
  /\ LET rows == Beyond(data.outbox, push[p].from)
         own  == "origin" \in may /\ \A q \in Pushers : ~push[q].own
     IN IF tx = "aborted" \/ rows = <<>> THEN PushReturns(p)
        ELSE /\ push' = [push EXCEPT ![p].pc = "rows", ![p].batch = rows, ![p].own = own]
             /\ UNCHANGED client
  /\ UNCHANGED <<may, phase, localVars, sessionVars, remoteVars, delivered, handler, faults>>

MetaRead == IF data.exists THEN "known" ELSE "fallback"

PushNeedsMeta(p) ==
  /\ push[p].pc = "rows" /\ meta = "absent"
  /\ push' = [push EXCEPT ![p].pc = "meta"] /\ Sends(Push(p))
  /\ UNCHANGED <<may, phase, localVars, client, sessionVars, remoteVars, delivered,
                 handler, faults>>

PushReadsMeta(p) ==
  /\ push[p].pc = "meta" /\ Turn(Push(p)) /\ Leaves
  /\ \/ /\ tx # "aborted" /\ meta' = MetaRead
        /\ push' = [push EXCEPT ![p].pc = "rows"] /\ UNCHANGED client
     \/ tx = "aborted" /\ PushReturns(p) /\ UNCHANGED meta
  /\ UNCHANGED <<may, phase, localVars, recent, expiring, remoteVars, delivered, handler,
                 faults>>

\* A row is noted as recently pushed before the remote has it.
PushRow(p) ==
  /\ push[p].pc = "rows" /\ meta # "absent" /\ push[p].noted < Len(push[p].batch)
  /\ LET e == push[p].batch[push[p].noted + 1] IN recent' = [recent EXCEPT ![e.key] = e]
  /\ push' = [push EXCEPT ![p].noted = @ + 1]
  /\ UNCHANGED <<may, phase, localVars, queue, client, meta, expiring, remoteVars,
                 delivered, handler, faults>>

\* remoteUpsert and localUpsert replace an older row only.
NewerAlways(old, new) == TRUE
Newer(old, new) == old < new

\* A row is written over an older one, or deleted if it is there.
Takes(old, v) == IF v = 0 THEN old # 0 ELSE Newer(old, v)

Message(k, old, v, own) ==
  [key |-> k, value |-> v, own |-> own,
   op |-> IF v = 0 THEN "D" ELSE IF old = 0 THEN "I" ELSE "U"]

\* The remote transaction on one row; r is its table and the WAL.
Pushed(r, e, own) ==
  IF Takes(r.tbl[e.key], e.value)
  THEN [tbl |-> [r.tbl EXCEPT ![e.key] = e.value],
        wal |-> Append(r.wal, Message(e.key, r.tbl[e.key], e.value, own))]
  ELSE r

\* after[n]: the remote when the first n rows of the batch are written.
RemoteCommits(p) ==
  LET batch == push[p].batch
      after[n \in 0 .. Len(batch)] ==
        IF n = 0 THEN [tbl |-> remote, wal |-> wal]
        ELSE Pushed(after[n - 1], batch[n], push[p].own)
      r == after[Len(batch)]
  IN /\ push[p].noted = Len(batch) /\ Len(r.wal) <= MaxWal
     /\ remote' = r.tbl /\ wal' = r.wal

PushCommits(p) ==
  /\ push[p].pc = "rows" /\ RemoteCommits(p)
  /\ push' = [push EXCEPT ![p].pc = "advance"] /\ Sends(Push(p))
  /\ UNCHANGED <<may, phase, localVars, client, sessionVars, slot, foreign, delivered,
                 handler, faults>>

\* The error may come after the remote has committed.
PushFails(p) ==
  /\ push[p].pc = "rows" /\ "fault" \in may /\ faults < MaxFaults
  /\ faults' = faults + 1 /\ PushReturns(p)
  /\ RemoteCommits(p) \/ UNCHANGED <<remote, wal>>
  /\ UNCHANGED <<may, phase, localVars, queue, sessionVars, slot, foreign, delivered,
                 handler>>

LastId(p) == push[p].batch[Len(push[p].batch)].id

Advance(p) ==
  /\ push[p].pc = "advance" /\ Turn(Push(p))
  /\ \/ /\ tx # "aborted" /\ Executes([data EXCEPT !.lastPush = LastId(p)])
        /\ push' = [push EXCEPT ![p].pc = "truncate"] /\ Goes(Push(p)) /\ UNCHANGED client
     \/ /\ tx = "aborted" /\ PushReturns(p) /\ Leaves
        /\ UNCHANGED <<data, saved, tx, applying, signals>>
  /\ UNCHANGED <<may, phase, nextId, sessionVars, remoteVars, delivered, handler,
                 faults>>

\* The outbox is emptied, of what came meanwhile too.
TruncateAll(p) ==
  /\ push[p].pc = "truncate" /\ Turn(Push(p)) /\ PushReturns(p) /\ Leaves
  /\ Executes([data EXCEPT !.outbox = <<>>]) /\ expiring' = TRUE
  /\ UNCHANGED <<may, phase, nextId, meta, recent, remoteVars, delivered,
                 handler, faults>>

\* The rows committed are deleted, and a timer will clear recentlyPushed.
Truncate(p) ==
  /\ push[p].pc = "truncate" /\ Turn(Push(p)) /\ PushReturns(p) /\ Leaves
  /\ \/ /\ tx # "aborted" /\ expiring' = TRUE
        /\ Executes([data EXCEPT !.outbox = Beyond(@, LastId(p))])
     \/ tx = "aborted" /\ UNCHANGED <<data, saved, tx, applying, signals, expiring>>
  /\ UNCHANGED <<may, phase, nextId, meta, recent, remoteVars, delivered,
                 handler, faults>>

\* Ten seconds after a push; the timers of other pushes may be left.
Expire ==
  /\ expiring /\ expiring' \in BOOLEAN
  /\ recent' = [k \in Keys |-> None]
  /\ UNCHANGED <<may, phase, localVars, queue, client, push, meta, remoteVars,
                 delivered, handler, faults>>
-----------------------------------------------------------------------------
(***************************************************************************)
(* Others change the remote.                                               *)
(***************************************************************************)
ForeignChanges(k) ==
  /\ Len(wal) < MaxWal
  /\ phase = "copied" => slot
  /\ \E v \in Fresh(k, foreign, remote[k]) \cup {0} :
       /\ v # 0 => "foreign write" \in may
       /\ v = 0 => "foreign delete" \in may /\ remote[k] # 0
       /\ remote' = [remote EXCEPT ![k] = v]
       /\ wal' = Append(wal, Message(k, remote[k], v, FALSE))
       /\ foreign' = foreign \cup {Change(k, v)}
  /\ UNCHANGED <<may, phase, localVars, queue, client, push, sessionVars, slot,
                 delivered, handler, faults>>
-----------------------------------------------------------------------------
(***************************************************************************)
(* handleWalMessage.                                                       *)
(***************************************************************************)
Goto(i, pc) == handler' = [handler EXCEPT ![i].pc = pc]


\* The value of a message against the one in the row_json of a push.  Of a bigint
\* they are a string and a number, and compared as strings; of a timestamp a Date,
\* whose string begins with a letter, and a string that begins with a digit.
IsLessThanOrEqual(left, right) ==
  /\ "timestamp" \notin may
  /\ IF "bigint" \in may THEN TextRank[left] <= TextRank[right] ELSE left <= right

\* recentlyPushed has the same operation, with the same value or a newer one.
IsEcho(e) ==
  /\ recent[e.key] # None /\ recent[e.key].op = e.op
  /\ e.op = "D" \/ IsLessThanOrEqual(e.value, recent[e.key].value)

\* An echo ends the handler; else localUpsert or localDelete starts with m.
CheckEcho(i, m) ==
  IF IsEcho(wal[i]) THEN recent' = [recent EXCEPT ![wal[i].key] = None] /\ Goto(i, "done")
  ELSE /\ handler' = [handler EXCEPT ![i] = [pc |-> "begin", m |-> m, retry |-> FALSE]]
       /\ UNCHANGED recent

Deliver(i) ==
  /\ phase = "running" /\ i = delivered + 1 /\ i <= Len(wal)
  /\ client = "begun" \/ TheClient \in ToSet(queue) => "concurrent calls" \in may
  /\ Applying => "concurrent messages" \in may
  /\ delivered' = i
  /\ IF wal[i].own THEN Goto(i, "done") /\ UNCHANGED recent
     ELSE IF meta = "absent" THEN Goto(i, "meta") /\ UNCHANGED recent
     ELSE CheckEcho(i, meta)
  /\ queue' = IF handler'[i].pc = "done" THEN queue ELSE Append(queue, Handler(i))
  /\ UNCHANGED <<may, phase, localVars, client, push, meta, expiring, remoteVars,
                 faults>>

\* ensureMeta; a table that is missing gets a key "id" and no other column.
ReadMeta(i) ==
  /\ handler[i].pc = "meta" /\ Turn(Handler(i))
  /\ IF tx = "aborted" THEN Goto(i, "failed") /\ UNCHANGED <<meta, recent>>
     ELSE meta' = MetaRead /\ CheckEcho(i, meta')
  /\ IF handler'[i].pc = "begin" THEN Goes(Handler(i)) ELSE Leaves
  /\ UNCHANGED <<may, phase, localVars, client, push, expiring, remoteVars,
                 delivered, faults>>

HandlerBegins(i) ==
  /\ handler[i].pc = "begin" /\ Turn(Handler(i)) /\ Begin
  /\ \/ tx # "aborted" /\ Goto(i, "flag") /\ Goes(Handler(i))
     \/ tx = "aborted" /\ Goto(i, "failed") /\ Leaves
  /\ UNCHANGED <<may, phase, client, push, sessionVars, remoteVars, delivered,
                 faults>>

\* What it does with m comes next: without an entry a TypeError.
Flagged(i) ==
  /\ handler[i].pc = "flag" /\ Turn(Handler(i)) /\ Goes(Handler(i))
  /\ Goto(i, IF tx = "aborted" \/ handler[i].m = "absent" THEN "undo" ELSE "apply")
  /\ UNCHANGED <<may, phase, data, saved, tx, nextId, signals, client, push,
                 sessionVars, remoteVars, delivered, faults>>

\* SET LOCAL: outside of a transaction a warning.
HandlerFlags(i) == Flagged(i) /\ applying' = (applying \/ tx = "open")

\* Without a column to update the statement of localUpsert has a syntax error.
NoColumns(i) == handler[i].m = "fallback" /\ wal[i].op # "D"

HandlerApplies(i) ==
  LET e == wal[i] IN
  /\ handler[i].pc = "apply" /\ Turn(Handler(i)) /\ Goes(Handler(i))
  /\ \/ /\ tx # "aborted" /\ data.exists /\ ~NoColumns(i)
        /\ IF Takes(data.tbl[e.key], e.value) THEN SetRow(Row(e.key, e.value))
                                             ELSE UNCHANGED localVars
        /\ Goto(i, "commit")
     \/ (tx = "aborted" \/ NoColumns(i)) /\ StatementFails /\ Goto(i, "undo")
     \/ /\ tx # "aborted" /\ ~data.exists /\ ~NoColumns(i)
        /\ StatementFails /\ Goto(i, IF handler[i].retry THEN "undo" ELSE "undo, create")
  /\ UNCHANGED <<may, phase, client, push, sessionVars, remoteVars, delivered,
                 faults>>

HandlerCommits(i) ==
  /\ handler[i].pc = "commit" /\ Turn(Handler(i)) /\ Leaves
  /\ Commit /\ Goto(i, "done")
  /\ UNCHANGED <<may, phase, client, push, sessionVars, remoteVars, delivered,
                 faults>>

\* The error is logged and the message forgotten, unless the table was missing.
HandlerUndoes(i) ==
  /\ handler[i].pc \in {"undo", "undo, create"} /\ Turn(Handler(i)) /\ Leaves
  /\ Rollback /\ Goto(i, IF handler[i].pc = "undo" THEN "failed" ELSE "fetch")
  /\ UNCHANGED <<may, phase, client, push, sessionVars, remoteVars, delivered,
                 faults>>

\* createTableFromRemote: the definition comes from the remote.
HandlerFetches(i) ==
  /\ handler[i].pc = "fetch" /\ Goto(i, "create") /\ Sends(Handler(i))
  /\ UNCHANGED <<may, phase, localVars, client, push, sessionVars, remoteVars,
                 delivered, faults>>

\* It invalidates state.meta, and the change is retried; a table that exists by
\* now is an error it ignores.
HandlerCreates(i) ==
  /\ handler[i].pc = "create" /\ Turn(Handler(i))
  /\ \/ /\ tx # "aborted" /\ Goes(Handler(i))
        /\ IF data.exists THEN StatementFails /\ UNCHANGED meta
           ELSE Executes([data EXCEPT !.exists = TRUE]) /\ meta' = "absent" /\ UNCHANGED nextId
        /\ handler' = [handler EXCEPT ![i] = [pc |-> "begin", m |-> meta', retry |-> TRUE]]
     \/ /\ tx = "aborted" /\ Goto(i, "failed") /\ Leaves
        /\ UNCHANGED <<localVars, meta>>
  /\ UNCHANGED <<may, phase, client, push, recent, expiring, remoteVars, delivered, faults>>
-----------------------------------------------------------------------------
(***************************************************************************)
(* Start and crash.                                                        *)
(***************************************************************************)
\* performInitialSync: one SELECT, then upserts with the triggers off.
InitialSync ==
  /\ phase = "down" /\ phase' = "copied"
  /\ IF "skip initial sync" \in may THEN UNCHANGED <<data, saved, meta>>
     ELSE /\ data' = [data EXCEPT !.tbl = [k \in Keys |->
                        IF remote[k] > 0 /\ Newer(data.tbl[k], remote[k])
                        THEN remote[k] ELSE data.tbl[k]], !.exists = TRUE]
          /\ saved' = data' /\ meta' = "known"
  /\ UNCHANGED <<may, tx, applying, nextId, signals, queue, client, push, recent,
                 expiring, remoteVars, delivered, handler, faults>>

\* A new slot starts at the end of the WAL.
StartPuller ==
  /\ phase = "copied" /\ phase' = "running"
  /\ slot' = TRUE /\ delivered' = IF slot THEN delivered ELSE Len(wal)
  /\ UNCHANGED <<may, localVars, queue, client, push, sessionVars, remote, wal,
                 foreign, handler, faults>>

\* What the slot has acknowledged is not delivered again, handled or not.
Crash ==
  /\ phase # "down" /\ "crash" \in may /\ faults < MaxFaults /\ faults' = faults + 1
  /\ phase' = "down"
  /\ data' = saved /\ tx' = "none" /\ applying' = FALSE /\ signals' = 0
  /\ queue' = <<>> /\ UNCHANGED <<saved, nextId>>
  /\ client' = "idle" /\ push' = [p \in Pushers |-> Idle]
  /\ meta' = "absent" /\ recent' = [k \in Keys |-> None] /\ expiring' = FALSE
  /\ delivered' \in 0 .. delivered
  /\ handler' = [i \in 1 .. MaxWal |->
       IF i > delivered' THEN Unseen
       ELSE IF Active(i) THEN [handler[i] EXCEPT !.pc = "failed"] ELSE handler[i]]
  /\ UNCHANGED <<may, remoteVars>>
-----------------------------------------------------------------------------
Application ==
  \/ \E k \in Keys : ClientChanges(k)
  \/ ClientSends \/ ClientReads \/ ClientBegins \/ ClientFails \/ ClientEnds
PushStep(p) ==
  AutoPush(p) \/ ReadCursor(p) \/ ReadOutbox(p) \/ PushNeedsMeta(p) \/ PushReadsMeta(p)
    \/ PushRow(p) \/ PushCommits(p) \/ Advance(p) \/ Truncate(p)
HandlerStep(i) ==
  Deliver(i) \/ ReadMeta(i) \/ HandlerBegins(i) \/ HandlerFlags(i) \/ HandlerApplies(i)
    \/ HandlerCommits(i) \/ HandlerUndoes(i) \/ HandlerFetches(i)
    \/ HandlerCreates(i)

SyncNext ==
  \/ Application
  \/ \E p \in Pushers : ClientSyncs(p) \/ PushStep(p) \/ PushFails(p)
  \/ \E i \in 1 .. MaxWal : HandlerStep(i)
  \/ \E k \in Keys : ForeignChanges(k)
  \/ Expire \/ InitialSync \/ StartPuller \/ Crash

Spec == SyncInit /\ [][SyncNext]_vars

\* Without autopush, and after a failure, the application calls sync() again.
Retries == ("autopush" \notin may \/ faults > 0) /\ \E p \in Pushers : ClientSyncs(p)

Fairness ==
  /\ WF_vars(InitialSync \/ StartPuller)
  /\ WF_vars(ClientReads) /\ SF_vars(ClientEnds) /\ SF_vars(Retries)
  /\ WF_vars(client = "begun" /\ ClientSends)
  /\ WF_vars(\E p \in Pushers : PushStep(p))
  /\ WF_vars(\E i \in 1 .. MaxWal : HandlerStep(i))
  /\ SF_vars(\E i \in 1 .. MaxWal : Deliver(i))

FairSpec == Spec /\ Fairness
-----------------------------------------------------------------------------
\* Deletes have no value to compare: nobody else changes what is deleted.
Mergeable ==
  \/ may \cap {"delete", "foreign delete"} = {}
  \/ may \cap {"foreign write", "foreign delete"} = {}

\* A greater value of others may come before a smaller one of this edge as text.
ComparedAsText == {"bigint", "foreign write"} \subseteq may

SyncTypeOK ==
  /\ phase \in {"down", "copied", "running"} /\ tx \in {"none", "open", "aborted"}
  /\ {data, saved} \subseteq
       [tbl : [Keys -> {0} \cup Values], outbox : Seq([id : Nat \ {0}, key : Keys,
           value : {0} \cup Values, op : {"I", "U", "D"}]),
        lastPush : Nat, exists : BOOLEAN, raised : BOOLEAN,
        made : SUBSET (Keys \X ({0} \cup Values))]
  /\ tx = "none" => data = saved /\ ~data.raised /\ ~applying
  /\ client \in {"idle", "begun"} \cup Pushers
  /\ client \in Pushers => push[client].pc # "idle"
  /\ meta \in {"absent", "fallback", "known"}
  /\ delivered <= Len(wal) /\ \A i \in 1 .. MaxWal : i > delivered => handler[i].pc = "none"

(***************************************************************************)
(* A committed local change the remote does not have is in the outbox,     *)
(* beyond the cursor, through overlapping pushes, lost answers of the      *)
(* remote and crashes (pusher.ts:31-166, schema.ts:134-158).               *)
(***************************************************************************)
NoChangeLost ==
  LET d == Committed
      Differs(k) == d.tbl[k] > remote[k] \/ (d.tbl[k] = 0 /\ remote[k] # 0
                                             /\ "foreign write" \notin may)
  IN Mergeable => \A k \in Keys : Differs(k) =>
       \E e \in ToSet(d.outbox) : e.key = k /\ e.value = d.tbl[k] /\ e.id > d.lastPush


(***************************************************************************)
(* The outbox records only what the application changed, also when a       *)
(* handler fails and tries again: the flag its trigger looks at is set for *)
(* the transaction of a handler and for no other (puller.ts:46-47,         *)
(* schema.ts:134).  Handlers that overlap, with each other or with the     *)
(* application, share a transaction and are excepted.                      *)
(***************************************************************************)
RecordsOwnChanges ==
  may \cap {"concurrent calls", "concurrent messages"} = {} =>
    \A e \in ToSet(data.outbox) : Change(e.key, e.value) \in data.made

Copies == INSTANCE Replicas WITH
  local <- Committed.tbl, made <- Committed.made \cup foreign

(***************************************************************************)
(* Neither copy goes back to an older value, invents a row, or shows what  *)
(* was rolled back: remoteUpsert and localUpsert replace only older rows,  *)
(* and only committed changes travel (pusher.ts:20-25, puller.ts:57-66).   *)
(***************************************************************************)
KeepsReplicas == Copies!Spec
=============================================================================
