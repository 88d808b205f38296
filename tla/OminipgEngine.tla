--------------------------- MODULE OminipgEngine ---------------------------
(***************************************************************************)
(* src/src/worker/engine.ts and bootstrap.ts: the life of one engine, from *)
(* initialize() to close(), over a PostgreSQL main database.               *)
(*                                                                         *)
(* The engine opens three resources: the main database (an adapter and its *)
(* pool), the pool of the sync server, and the replication service.  Its   *)
(* state object refers to them; shutdown() closes what the state refers to *)
(* at that moment.  Transaction lanes and the listener hub compete for the *)
(* slots of the main pool.  PostgresAdapter and PgListenerHub are the      *)
(* detailed models of those two; here a lane is a slot held from BEGIN to  *)
(* its end, and the hub is the state of its one connection.                *)
(***************************************************************************)
EXTENDS Naturals, FiniteSets, SequencesExt

CONSTANTS
  Lanes,       \* transaction lanes
  Ids,         \* subscription ids: one listen() each
  PoolMax,     \* pgPoolMax
  MaxFaults,   \* bound: failures of initialize() and of the hub's connection
  AbortsInit   \* may close() be called while initialize() runs?

ASSUME EngineAssumption ==
  /\ PoolMax \in Nat \ {0} /\ MaxFaults \in Nat /\ AbortsInit \in BOOLEAN
  /\ "hub" \notin Lanes

VARIABLES
  boot,        \* how far initialize() has come
  sync,        \* its configuration has a syncUrl
  initialized, closed,
  syncStarted, \* state.syncStarted
  opened,      \* the resources that exist
  refs,        \* the resources the state object refers to
  shut,        \* how far each run of shutdown() has come
  taken,       \* the resources it found in the state
  closer,      \* how far closeResources() has come
  subs,        \* subscriptions: the map
  listening,   \* ids whose listen() awaits the hub
  used,        \* ids whose listen() was called
  hub,         \* the hub's connection: "none" (no hub), "down", "connecting", "up", "closed"
  pinned,      \* lanes that hold a slot of the main pool
  queue,       \* who waits for a slot, in order
  faults

bootVars  == <<boot, sync, initialized, syncStarted>>
resVars   == <<opened, refs>>
shutVars  == <<shut, taken>>
hubVars   == <<subs, listening, used, hub>>
poolVars  == <<pinned, queue>>
vars == <<bootVars, closed, resVars, shutVars, closer, hubVars, poolVars, faults>>

Resources == {"main", "sync", "replica"}

\* shutdown() is run by a failed initialize() and by closeResources().
Closers == {"init", "close"}

\* opening: the main connection; loading: the pg module; schema: the schema;
\* remote: work on a client of the sync pool; importing: the replication
\* module; starting: the replication service; cleaning: shutdown() after a failure.
BootStates == {"idle", "opening", "loading", "schema", "remote", "importing",
               "starting", "done", "cleaning", "failed"}
Booting == boot \in {"opening", "loading", "schema", "remote", "importing", "starting"}

Ready == initialized /\ ~closed

EngineInit ==
  /\ boot = "idle" /\ sync = FALSE /\ initialized = FALSE /\ closed = FALSE
  /\ syncStarted = FALSE
  /\ opened = {} /\ refs = {}
  /\ shut = [a \in Closers |-> "idle"] /\ taken = [a \in Closers |-> {}]
  /\ closer = "none"
  /\ subs = {} /\ listening = {} /\ used = {} /\ hub = "none"
  /\ pinned = {} /\ queue = <<>>
  /\ faults = 0

-----------------------------------------------------------------------------
\* closeConnections(): takes the handles out of the state, then ends them.
CloseConnections(a) ==
  /\ taken' = [taken EXCEPT ![a] = refs \cap {"main", "sync"}]
  /\ refs' = refs \ {"main", "sync"}
  /\ shut' = [shut EXCEPT ![a] = "ending"]

\* shutdown() is called: stop the replication service first, if sync started.
BeginShutdown(a) ==
  IF syncStarted
  THEN /\ taken' = [taken EXCEPT ![a] = IF "sync" \in refs THEN refs \cap {"replica"} ELSE {}]
       /\ shut' = [shut EXCEPT ![a] = "stopping"]
       /\ UNCHANGED refs
  ELSE CloseConnections(a)

\* stopSyncServices() is done.
PullerStops(a) ==
  /\ shut[a] = "stopping"
  /\ opened' = opened \ taken[a]
  /\ taken' = [taken EXCEPT ![a] = (refs \ taken[a]) \cap {"main", "sync"}]
  /\ refs' = (refs \cap {"replica"}) \ taken[a]
  /\ shut' = [shut EXCEPT ![a] = "ending"]
  /\ syncStarted' = FALSE
  /\ UNCHANGED <<boot, sync, initialized, closed, closer, hubVars, poolVars, faults>>

\* The sync pool ends when its one client is back.
SyncPoolEnds(a) ==
  /\ shut[a] = "ending" /\ "sync" \in taken[a]
  /\ boot # "remote"
  /\ opened' = opened \ {"sync"}
  /\ taken' = [taken EXCEPT ![a] = @ \ {"sync"}]
  /\ UNCHANGED <<bootVars, closed, refs, shut, closer, hubVars, poolVars, faults>>

\* Mutant: the adapter waits for open transactions instead of returning them.
AwaitsPins == pinned = {} /\ UNCHANGED pinned

\* The adapter returns the pinned clients whose transactions are open.
ReturnsPins == pinned' = {}

\* The main pool ends: pins are returned, waiting lanes refused, and the
\* hub's connection, if it is still out, awaited.
MainEnds(a) ==
  /\ shut[a] = "ending" /\ taken[a] = {"main"}
  /\ hub # "up"
  /\ opened' = opened \ {"main"}
  /\ taken' = [taken EXCEPT ![a] = {}]
  /\ ReturnsPins
  /\ queue' = IF "hub" \in ToSet(queue) THEN <<"hub">> ELSE <<>>
  /\ UNCHANGED <<bootVars, closed, refs, shut, closer, hubVars, faults>>

InitCleanedUp ==
  /\ shut["init"] = "ending" /\ taken["init"] = {}
  /\ shut' = [shut EXCEPT !["init"] = "idle"]
  /\ boot' = "failed"
  /\ UNCHANGED <<sync, initialized, syncStarted, closed, resVars, taken, closer,
                 hubVars, poolVars, faults>>

ShutdownStep(a) == PullerStops(a) \/ SyncPoolEnds(a) \/ MainEnds(a)

-----------------------------------------------------------------------------
\* initialize(), which a failed attempt may be followed by.
Initialize(withSync) ==
  /\ ~initialized /\ ~closed
  /\ boot \in {"idle", "failed"}
  /\ boot' = "opening"
  /\ sync' = withSync
  /\ UNCHANGED <<initialized, syncStarted, closed, resVars, shutVars, closer, hubVars,
                 poolVars, faults>>

\* initConnections(): the main database is open.
MainOpens ==
  /\ boot = "opening"
  /\ opened' = opened \cup {"main"} /\ refs' = refs \cup {"main"}
  /\ boot' = IF sync THEN "loading" ELSE "schema"
  /\ UNCHANGED <<sync, initialized, syncStarted, closed, shutVars, closer, hubVars,
                 poolVars, faults>>

SyncPoolOpens ==
  /\ boot = "loading"
  /\ opened' = opened \cup {"sync"} /\ refs' = refs \cup {"sync"}
  /\ boot' = "schema"
  /\ UNCHANGED <<sync, initialized, syncStarted, closed, shutVars, closer, hubVars,
                 poolVars, faults>>

\* The schema is there; boot() starts the sync services or is done.
SchemaReady ==
  /\ boot = "schema"
  /\ "main" \in refs \/ ~sync
  /\ boot' = IF "sync" \in refs THEN "remote" ELSE "done"
  /\ syncStarted' = ("sync" \in refs \/ syncStarted)
  /\ initialized' = ("sync" \notin refs)
  /\ UNCHANGED <<sync, closed, resVars, shutVars, closer, hubVars, poolVars, faults>>

\* The remote schema, initial sync, publication and slot are there.
RemoteReady ==
  /\ boot = "remote"
  /\ boot' = "importing"
  /\ UNCHANGED <<sync, initialized, syncStarted, closed, resVars, shutVars, closer,
                 hubVars, poolVars, faults>>

\* startPuller(): the replication service is created and subscribes.
Subscribes ==
  /\ boot = "importing"
  /\ opened' = opened \cup {"replica"} /\ refs' = refs \cup {"replica"}
  /\ boot' = "starting"
  /\ UNCHANGED <<sync, initialized, syncStarted, closed, shutVars, closer, hubVars,
                 poolVars, faults>>

ReplicationStarts ==
  /\ boot = "starting"
  /\ boot' = "done" /\ initialized' = TRUE
  /\ UNCHANGED <<sync, syncStarted, closed, resVars, shutVars, closer, hubVars,
                 poolVars, faults>>

\* Mutant: a failed initialize() throws without a shutdown().
BootFailsOpen ==
  /\ Booting
  /\ \/ faults < MaxFaults /\ faults' = faults + 1
     \/ boot = "schema" /\ "main" \notin refs /\ UNCHANGED faults
  /\ boot' = "failed"
  /\ UNCHANGED <<sync, initialized, syncStarted, closed, resVars, shutVars, closer,
                 hubVars, poolVars>>

\* initialize() fails: shutdown() what is open, then throw.
BootFails ==
  /\ Booting
  /\ \/ faults < MaxFaults /\ faults' = faults + 1
     \/ boot = "schema" /\ "main" \notin refs /\ UNCHANGED faults
  /\ boot' = "cleaning"
  /\ BeginShutdown("init")
  /\ UNCHANGED <<sync, initialized, syncStarted, closed, opened, closer, hubVars, poolVars>>

-----------------------------------------------------------------------------
\* The hub's connect task joins the queue of the pool.
HubConnects ==
  IF hub \in {"none", "down"} THEN hub' = "connecting" /\ queue' = Append(queue, "hub")
  ELSE UNCHANGED <<hub, queue>>

\* listen(): the hub is made on first use.
Listen(id) ==
  /\ Ready /\ id \notin used
  /\ used' = used \cup {id}
  /\ listening' = listening \cup {id}
  /\ HubConnects
  /\ UNCHANGED <<bootVars, closed, resVars, shutVars, closer, subs, pinned, faults>>

ListenReturns(id) ==
  /\ id \in listening /\ hub = "up"
  /\ listening' = listening \ {id}
  /\ subs' = subs \cup {id}
  /\ UNCHANGED <<bootVars, closed, resVars, shutVars, closer, used, hub, poolVars, faults>>

\* unlisten(), which is not refused while the engine closes.
Unlisten(id) ==
  /\ id \in subs
  /\ subs' = subs \ {id}
  /\ UNCHANGED <<bootVars, closed, resVars, shutVars, closer, listening, used, hub,
                 poolVars, faults>>

\* The hub's connection is lost, or its checkout fails: pending listens fail.
HubFails ==
  /\ hub \in {"up", "connecting"} /\ faults < MaxFaults
  /\ faults' = faults + 1
  /\ hub' = "down"
  /\ queue' = RemoveFirst(queue, "hub")
  /\ listening' = {}
  /\ UNCHANGED <<bootVars, closed, resVars, shutVars, closer, subs, used, pinned>>

\* The hub's timer: reconnect while there are subscriptions.
HubReconnects ==
  /\ hub = "down" /\ subs # {}
  /\ closer # "hub"
  /\ HubConnects
  /\ UNCHANGED <<bootVars, closed, resVars, shutVars, closer, subs, listening, used,
                 pinned, faults>>

InUse == Cardinality(pinned) + (IF hub = "up" THEN 1 ELSE 0)

\* BEGIN of a lane waits for a slot of the pool.
Begin(l) ==
  /\ Ready /\ l \notin pinned /\ l \notin ToSet(queue)
  /\ queue' = Append(queue, l)
  /\ UNCHANGED <<bootVars, closed, resVars, shutVars, closer, hubVars, pinned, faults>>

\* COMMIT or ROLLBACK of a lane.
End(l) ==
  /\ Ready /\ l \in pinned
  /\ pinned' = pinned \ {l}
  /\ UNCHANGED <<bootVars, closed, resVars, shutVars, closer, hubVars, queue, faults>>

\* A free slot goes to the first that waits.  A closing hub gives it back.
Grant ==
  /\ queue # <<>> /\ InUse < PoolMax
  /\ queue' = Tail(queue)
  /\ IF Head(queue) = "hub"
     THEN /\ hub' = IF closer = "hub" THEN "down" ELSE "up"
          /\ listening' = IF closer = "hub" THEN {} ELSE listening
          /\ UNCHANGED pinned
     ELSE pinned' = pinned \cup {Head(queue)} /\ UNCHANGED <<hub, listening>>
  /\ UNCHANGED <<bootVars, closed, resVars, shutVars, closer, subs, used, faults>>

-----------------------------------------------------------------------------
\* close(): closeResources() runs once, one microtask later.
Close ==
  /\ ~closed
  /\ AbortsInit \/ (~Booting /\ boot # "cleaning")
  /\ closed' = TRUE
  /\ closer' = "subs"
  /\ UNCHANGED <<bootVars, resVars, shutVars, hubVars, poolVars, faults>>

\* closeResources(): each subscription closes.
CloseSubscription(id) ==
  /\ closer = "subs" /\ id \in subs
  /\ subs' = subs \ {id}
  /\ UNCHANGED <<bootVars, closed, resVars, shutVars, closer, listening, used, hub,
                 poolVars, faults>>

\* Mutant: closeResources() shuts the databases down before the hub.
ShutdownFirst ==
  /\ closer = "subs" /\ subs = {}
  /\ closer' = "shutdown" /\ BeginShutdown("close")
  /\ UNCHANGED <<bootVars, closed, opened, hubVars, poolVars, faults>>

\* Then the hub closes, if there is one.
CloseHub ==
  /\ closer = "subs" /\ subs = {}
  /\ IF hub = "none" THEN closer' = "shutdown" /\ BeginShutdown("close")
     ELSE closer' = "hub" /\ UNCHANGED <<shutVars, refs>>
  /\ UNCHANGED <<bootVars, closed, opened, hubVars, poolVars, faults>>

\* The hub's close() awaits its connect task, then returns its connection.
HubCloses ==
  /\ closer = "hub" /\ hub # "connecting"
  /\ hub' = "closed" /\ subs' = {} /\ listening' = {}
  /\ closer' = "shutdown"
  /\ BeginShutdown("close")
  /\ UNCHANGED <<bootVars, closed, opened, used, poolVars, faults>>

Closed ==
  /\ shut["close"] = "ending" /\ taken["close"] = {}
  /\ shut' = [shut EXCEPT !["close"] = "idle"]
  /\ closer' = "done"
  /\ initialized' = FALSE
  /\ UNCHANGED <<boot, sync, syncStarted, closed, resVars, taken, hubVars, poolVars, faults>>

-----------------------------------------------------------------------------
BootStep == \/ MainOpens \/ SyncPoolOpens \/ SchemaReady
            \/ RemoteReady \/ Subscribes \/ ReplicationStarts
CloseStep == CloseHub \/ HubCloses \/ Closed

EngineNext ==
  \/ \E withSync \in BOOLEAN : Initialize(withSync)
  \/ BootStep \/ BootFails \/ InitCleanedUp
  \/ \E a \in Closers : ShutdownStep(a)
  \/ \E id \in Ids : Listen(id) \/ ListenReturns(id) \/ Unlisten(id)
  \/ HubFails \/ HubReconnects \/ Grant
  \/ \E l \in Lanes : Begin(l) \/ End(l)
  \/ Close \/ CloseStep
  \/ \E id \in Ids : CloseSubscription(id)

Spec == EngineInit /\ [][EngineNext]_vars

(***************************************************************************)
(* Fairness: what the engine itself awaits goes on: its boot, its          *)
(* shutdowns, a free slot.  A lane need not end, a fault need not happen.  *)
(***************************************************************************)
Fairness ==
  /\ WF_vars(BootStep) /\ WF_vars(InitCleanedUp)
  /\ \A a \in Closers : WF_vars(ShutdownStep(a))
  /\ WF_vars(Grant) /\ WF_vars(CloseStep)
  /\ \A id \in Ids : WF_vars(CloseSubscription(id)) /\ WF_vars(ListenReturns(id))

FairSpec == Spec /\ Fairness
-----------------------------------------------------------------------------
EngineTypeOK ==
  /\ boot \in BootStates
  /\ {sync, initialized, closed, syncStarted} \subseteq BOOLEAN
  /\ {opened, refs} \subseteq SUBSET Resources
  /\ shut \in [Closers -> {"idle", "stopping", "ending"}]
  /\ taken \in [Closers -> SUBSET Resources]
  /\ closer \in {"none", "subs", "hub", "shutdown", "done"}
  /\ subs \subseteq used /\ listening \subseteq used \ subs /\ used \subseteq Ids
  /\ hub \in {"none", "down", "connecting", "up", "closed"}
  /\ pinned \subseteq Lanes /\ ToSet(queue) \subseteq Lanes \cup {"hub"}
  /\ InUse <= PoolMax /\ faults \in 0..MaxFaults

(***************************************************************************)
(* Whatever was opened is closed again: an initialize() that failed and a  *)
(* close() that finished leave no database, pool or replication service    *)
(* open (engine.ts:59-65, 179-198; bootstrap.ts:59-78).                    *)
(***************************************************************************)
NothingLeaks ==
  /\ boot = "failed" \/ (closer = "done" /\ boot \in {"idle", "done"})
  /\ \A a \in Closers : shut[a] = "idle"
  => opened = {}

(***************************************************************************)
(* "db.close() closes subscriptions and the listener hub before ending the *)
(* query pool" (NOTIFICATIONS.md:47-48): when the pool starts to end       *)
(* nothing of the hub is left to hold or to take one of its slots.         *)
(***************************************************************************)
HubBeforePool ==
  "main" \in taken["close"] =>
     hub \in {"none", "closed"} /\ listening = {} /\ "hub" \notin ToSet(queue)

(***************************************************************************)
(* close() ends, whatever transactions are open: "Existing pins are        *)
(* returned before waiting for queued opens, so shutdown cannot deadlock   *)
(* on its own pool capacity" (ARCHITECTURE.md:389-390).                    *)
(***************************************************************************)
EngineCloseTerminates == closed ~> closer = "done"
=============================================================================
