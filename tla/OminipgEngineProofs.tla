------------------------ MODULE OminipgEngineProofs ------------------------
(***************************************************************************)
(* What close() leaves behind, and in which order it gets there, for every *)
(* number of lanes and subscriptions and every size of the pool.           *)
(***************************************************************************)
EXTENDS OminipgEngine, FiniteSetTheorems, SequenceTheorems, TLAPS

\* The states of the hub and who may wait for a slot of the pool.
QueueOK ==
  /\ hub \in {"none", "down", "connecting", "up", "closed"}
  /\ queue \in Seq(Lanes \cup {"hub"})

(***************************************************************************)
(* The control state of close(), the hub and the queue of the pool.        *)
(***************************************************************************)
ControlOK ==
  /\ boot \in BootStates
  /\ closed \in BOOLEAN /\ sync \in BOOLEAN
  /\ shut \in [Closers -> {"idle", "stopping", "ending"}]
  /\ taken \in [Closers -> SUBSET Resources]
  /\ refs \subseteq Resources /\ opened \subseteq Resources
  /\ closer \in {"none", "subs", "hub", "shutdown", "done"}
  /\ QueueOK

\* A shutdown that is not under way has taken nothing, and closeResources()
\* runs one only in its last phase.
CloserOwnsShutdown ==
  /\ \A a \in Closers : shut[a] = "idle" => taken[a] = {}
  /\ shut["close"] # "idle" <=> closer = "shutdown"
  /\ closed <=> closer # "none"

\* The hub waits for a slot once, and only while it connects; a listen()
\* waits only for a hub that is connecting or up.
HubWaitsOnce ==
  /\ \A i, j \in 1..Len(queue) : queue[i] = "hub" /\ queue[j] = "hub" => i = j
  /\ hub # "connecting" => \A i \in 1..Len(queue) : queue[i] # "hub"
  /\ hub \notin {"connecting", "up"} => listening = {}

\* Once the databases are being shut down the hub is gone.
HubGoneFirst ==
  /\ closer \in {"shutdown", "done"} => hub \in {"none", "closed"}
  /\ hub = "closed" => closer \in {"shutdown", "done"}

HubInv == ControlOK /\ CloserOwnsShutdown /\ HubWaitsOnce /\ HubGoneFirst

\* Only one shutdown runs at a time when close() waits for initialize().
OneShutdown ==
  /\ shut["init"] # "idle" <=> boot = "cleaning"
  /\ closed => boot \in {"idle", "done", "failed"}

\* What is open is what the state refers to or a shutdown has taken.
OpenIsHeld ==
  /\ \A a \in Closers : shut[a] = "stopping" =>
       opened = refs /\ taken[a] = refs \cap {"replica"} /\ syncStarted
  /\ \A a \in Closers : shut[a] = "ending" =>
       opened = taken[a] /\ refs = {} /\ ~syncStarted
  /\ (\A a \in Closers : shut[a] = "idle") => opened = refs

\* The replication service exists only beside its pool.
RefsFollowBoot ==
  /\ "replica" \in refs => syncStarted
  /\ syncStarted => "sync" \in refs
  /\ boot \in {"idle", "failed", "opening"} => refs = {} /\ ~syncStarted
  /\ boot \in {"remote", "importing", "starting"} => syncStarted
  /\ closer = "done" => refs = {}

LeakInv == OneShutdown /\ OpenIsHeld /\ RefsFollowBoot

-----------------------------------------------------------------------------
(***************************************************************************)
(* RemoveFirst, by which a failed checkout leaves the queue, keeps the     *)
(* others in their order and leaves no second "hub" behind.                *)
(***************************************************************************)
LEMMA RemoveFirstFacts ==
  ASSUME NEW S, NEW q \in Seq(S), NEW e,
         \A i, j \in 1..Len(q) : q[i] = e /\ q[j] = e => i = j
  PROVE  /\ RemoveFirst(q, e) \in Seq(S)
         /\ \A i \in 1..Len(RemoveFirst(q, e)) : RemoveFirst(q, e)[i] # e
<1>1. CASE ~ \E i \in 1..Len(q) : q[i] = e
  BY <1>1 DEF RemoveFirst
<1>2. CASE \E i \in 1..Len(q) : q[i] = e
  <2> DEFINE I == {i \in 1..Len(q) : q[i] = e}
             k == SelectInSeq(q, LAMBDA v : v = e)
  <2>1. PICK n \in 1..Len(q) : q[n] = e
    BY <1>2
  <2>2. I = {n}
    BY <2>1
  <2>3. k = n
    BY <2>2 DEF SelectInSeq, Min
  <2> DEFINE l == SubSeq(q, 1, n - 1)
             r == SubSeq(q, n + 1, Len(q))
  <2>4. RemoveFirst(q, e) = l \o r
    BY <1>2, <2>3 DEF RemoveFirst, RemoveAt
  <2>5. /\ l \in Seq(S) /\ Len(l) = n - 1
        /\ r \in Seq(S) /\ Len(r) = Len(q) - n
        /\ \A i \in 1..(n - 1) : l[i] = q[i]
        /\ \A i \in 1..(Len(q) - n) : r[i] = q[n + i]
    OBVIOUS
  <2> HIDE DEF l, r
  <2>6. /\ l \o r \in Seq(S) /\ Len(l \o r) = Len(q) - 1
        /\ \A i \in 1..Len(l \o r) : (l \o r)[i] = IF i < n THEN l[i] ELSE r[i - (n - 1)]
    <3>1. /\ l \o r \in Seq(S) /\ Len(l \o r) = Len(l) + Len(r)
          /\ \A i \in 1..(Len(l) + Len(r)) :
               (l \o r)[i] = IF i <= Len(l) THEN l[i] ELSE r[i - Len(l)]
      BY <2>5, ConcatProperties, Zenon
    <3> QED BY <2>5, <3>1
  <2>7. \A i \in 1..(Len(q) - 1) : (l \o r)[i] = IF i < n THEN q[i] ELSE q[i + 1]
    <3> SUFFICES ASSUME NEW i \in 1..(Len(q) - 1)
                 PROVE  (l \o r)[i] = IF i < n THEN q[i] ELSE q[i + 1]
      OBVIOUS
    <3>1. CASE i < n
      BY <2>5, <2>6, <3>1
    <3>2. CASE ~(i < n)
      <4>1. i - (n - 1) \in 1..(Len(q) - n) /\ n + (i - (n - 1)) = i + 1
        BY <3>2
      <4> QED BY <2>5, <2>6, <3>2, <4>1
    <3> QED BY <3>1, <3>2
  <2> QED BY <2>1, <2>4, <2>6, <2>7
<1> QED BY <1>1, <1>2

\* What a shutdown takes, and how it starts, whoever runs it
\* (bootstrap.ts:59-78).
LEMMA BeginShutdownFacts ==
  ASSUME ControlOK, NEW a \in Closers, BeginShutdown(a)
  PROVE  /\ shut' \in [Closers -> {"idle", "stopping", "ending"}]
         /\ taken' \in [Closers -> SUBSET Resources]
         /\ refs' \subseteq Resources
         /\ shut'[a] # "idle"
         /\ \A b \in Closers : b # a => shut'[b] = shut[b] /\ taken'[b] = taken[b]
<1>1. PICK T \in SUBSET Resources : taken' = [taken EXCEPT ![a] = T]
  BY DEF ControlOK, BeginShutdown, CloseConnections
<1>2. PICK x \in {"stopping", "ending"} : shut' = [shut EXCEPT ![a] = x]
  BY DEF BeginShutdown, CloseConnections
<1>3. refs' \subseteq Resources
  BY DEF ControlOK, BeginShutdown, CloseConnections
<1> QED BY <1>1, <1>2, <1>3 DEF ControlOK

(***************************************************************************)
(* The steps of initialize() and of a shutdown leave the hub and the       *)
(* phase of closeResources() alone (engine.ts:54-66, bootstrap.ts:20-78).  *)
(***************************************************************************)
LEMMA BootKeepsHubInv ==
  ASSUME HubInv,
         \/ \E withSync \in BOOLEAN : Initialize(withSync)
         \/ BootStep \/ BootFails \/ InitCleanedUp
  PROVE  HubInv'
<1> USE DEF HubInv, hubVars, poolVars, QueueOK
<1>1. UNCHANGED <<closed, closer, hub, listening, queue>>
  BY DEF Initialize, BootStep, MainOpens, SyncPoolOpens, SchemaReady, RemoteReady,
         Subscribes, ReplicationStarts, BootFails, InitCleanedUp
<1>2. HubWaitsOnce' /\ HubGoneFirst'
  BY <1>1 DEF HubWaitsOnce, HubGoneFirst
<1>3. ControlOK'
  <2>1. ASSUME NEW withSync \in BOOLEAN, Initialize(withSync)
        PROVE  ControlOK'
    BY <2>1, <1>1 DEF Initialize, ControlOK, BootStates, resVars, shutVars
  <2>2. CASE BootStep
    BY <2>2, <1>1 DEF BootStep, MainOpens, SyncPoolOpens, SchemaReady, RemoteReady,
         Subscribes, ReplicationStarts, ControlOK, BootStates, Resources, resVars, shutVars
  <2>3. CASE BootFails
    <3>1. "init" \in Closers /\ BeginShutdown("init")
      BY <2>3 DEF BootFails, Closers
    <3> QED BY <2>3, <1>1, <3>1, BeginShutdownFacts DEF BootFails, ControlOK, BootStates
  <2>4. CASE InitCleanedUp
    BY <2>4, <1>1 DEF InitCleanedUp, ControlOK, BootStates, Closers, resVars
  <2> QED BY <2>1, <2>2, <2>3, <2>4
<1>4. CloserOwnsShutdown'
  <2>1. CASE UNCHANGED shutVars
    BY <2>1, <1>1 DEF CloserOwnsShutdown, shutVars
  <2>2. CASE BootFails
    <3>1. "init" \in Closers /\ "close" \in Closers /\ BeginShutdown("init")
      BY <2>2 DEF BootFails, Closers
    <3> QED BY <1>1, <3>1, BeginShutdownFacts DEF CloserOwnsShutdown, Closers
  <2>3. CASE InitCleanedUp
    BY <2>3, <1>1 DEF InitCleanedUp, ControlOK, CloserOwnsShutdown, Closers
  <2> QED BY <2>1, <2>2, <2>3 DEF Initialize, BootStep, MainOpens, SyncPoolOpens,
             SchemaReady, RemoteReady, Subscribes, ReplicationStarts
<1> QED BY <1>2, <1>3, <1>4

LEMMA ShutdownKeepsHubInv ==
  ASSUME HubInv, NEW a \in Closers, ShutdownStep(a)
  PROVE  HubInv'
<1> USE DEF HubInv, QueueOK
<1>1. CASE PullerStops(a) \/ SyncPoolEnds(a)
  <2>1. UNCHANGED <<boot, sync, closed, closer, hub, listening, queue>>
    BY <1>1 DEF PullerStops, SyncPoolEnds, bootVars, hubVars, poolVars
  <2>2. PICK T \in SUBSET Resources : taken' = [taken EXCEPT ![a] = T]
    BY <1>1 DEF PullerStops, SyncPoolEnds, ControlOK
  <2>3. shut[a] # "idle" /\ shut' \in {shut, [shut EXCEPT ![a] = "ending"]}
    BY <1>1 DEF PullerStops, SyncPoolEnds
  <2>4. refs' \subseteq Resources /\ opened' \subseteq Resources
    BY <1>1 DEF PullerStops, SyncPoolEnds, ControlOK
  <2>5. /\ shut' \in [Closers -> {"idle", "stopping", "ending"}]
        /\ taken' \in [Closers -> SUBSET Resources]
        /\ \A b \in Closers : shut'[b] = "idle" <=> shut[b] = "idle"
        /\ \A b \in Closers : shut'[b] = "idle" => taken'[b] = taken[b]
    BY <2>2, <2>3 DEF ControlOK
  <2>6. ControlOK'
    BY <2>1, <2>4, <2>5 DEF ControlOK
  <2>7. CloserOwnsShutdown'
    BY <2>1, <2>5 DEF CloserOwnsShutdown, Closers
  <2> QED BY <2>1, <2>6, <2>7 DEF HubWaitsOnce, HubGoneFirst
<1>2. CASE MainEnds(a)
  <2>1. UNCHANGED <<boot, sync, closed, refs, shut, closer, hub, listening>>
    BY <1>2 DEF MainEnds, bootVars, hubVars
  <2>2. queue' \in Seq(Lanes \cup {"hub"}) /\ Len(queue') \in 0..1
    <3>1. queue' = <<"hub">> \/ queue' = <<>>
      BY <1>2 DEF MainEnds
    <3>2. <<"hub">> \in Seq(Lanes \cup {"hub"}) /\ Len(<<"hub">>) = 1
      OBVIOUS
    <3>3. <<>> \in Seq(Lanes \cup {"hub"}) /\ Len(<<>>) = 0
      OBVIOUS
    <3>4. 0 \in 0..1 /\ 1 \in 0..1
      OBVIOUS
    <3> QED BY <3>1, <3>2, <3>3, <3>4, Zenon
  <2>3. hub # "connecting" => queue' = <<>>
    BY <1>2 DEF MainEnds, HubWaitsOnce, ControlOK, ToSet
  <2>4. HubWaitsOnce'
    BY <2>1, <2>2, <2>3 DEF HubWaitsOnce
  <2>5. taken' = [taken EXCEPT ![a] = {}] /\ opened' \subseteq Resources
    BY <1>2 DEF MainEnds, ControlOK
  <2> QED BY <2>1, <2>2, <2>4, <2>5 DEF ControlOK, CloserOwnsShutdown, HubGoneFirst
<1> QED BY <1>1, <1>2 DEF ShutdownStep

(***************************************************************************)
(* listen(), the hub's task and the queue of the pool (engine.ts:129-163). *)
(***************************************************************************)
LEMMA HubConnectsFacts ==
  ASSUME HubInv, HubConnects
  PROVE  /\ QueueOK'
         /\ hub' # hub => hub \in {"none", "down"} /\ hub' = "connecting"
         /\ hub \in {"none", "down"} => hub' = "connecting"
         /\ \A i, j \in 1..Len(queue') : queue'[i] = "hub" /\ queue'[j] = "hub" => i = j
         /\ hub' # "connecting" => \A i \in 1..Len(queue') : queue'[i] # "hub"
<1> USE DEF HubInv, ControlOK, HubWaitsOnce, QueueOK
<1>1. CASE hub \in {"none", "down"}
  <2>1. hub' = "connecting" /\ queue' = Append(queue, "hub")
    BY <1>1 DEF HubConnects
  <2>2. /\ queue' \in Seq(Lanes \cup {"hub"})
        /\ Len(queue') = Len(queue) + 1
        /\ \A i \in 1..Len(queue) : queue'[i] = queue[i]
    BY <2>1
  <2> QED BY <1>1, <2>1, <2>2
<1>2. CASE hub \notin {"none", "down"}
  BY <1>2 DEF HubConnects
<1> QED BY <1>1, <1>2

LEMMA HubStepKeepsHubInv ==
  ASSUME HubInv,
         \/ \E id \in Ids : Listen(id) \/ ListenReturns(id) \/ Unlisten(id)
         \/ HubFails \/ HubReconnects \/ Grant
         \/ \E l \in Lanes : Begin(l) \/ End(l)
  PROVE  HubInv'
<1> USE DEF HubInv
<1>1. UNCHANGED <<boot, sync, closed, closer, shut, taken, refs, opened>>
  BY DEF Listen, ListenReturns, Unlisten, HubFails, HubReconnects, Grant, Begin, End,
         bootVars, resVars, shutVars
<1>2. QueueOK' /\ HubWaitsOnce' /\ HubGoneFirst'
  <2>1. ASSUME NEW id \in Ids, Listen(id)
        PROVE  QueueOK' /\ HubWaitsOnce' /\ HubGoneFirst'
    <3>1. HubConnects /\ ~closed
      BY <2>1 DEF Listen, Ready
    <3>2. closer = "none"
      BY <3>1 DEF CloserOwnsShutdown
    <3>3. hub' \in {"connecting", "up"}
      BY <3>1, <3>2, HubConnectsFacts DEF HubGoneFirst, ControlOK, QueueOK
    <3> QED BY <1>1, <3>1, <3>2, <3>3, HubConnectsFacts
            DEF HubWaitsOnce, HubGoneFirst, QueueOK
  <2>2. ASSUME NEW id \in Ids, ListenReturns(id) \/ Unlisten(id)
        PROVE  QueueOK' /\ HubWaitsOnce' /\ HubGoneFirst'
    <3>1. UNCHANGED <<hub, queue>> /\ listening' \subseteq listening
      BY <2>2 DEF ListenReturns, Unlisten, poolVars
    <3> QED BY <1>1, <3>1 DEF ControlOK, QueueOK, HubWaitsOnce, HubGoneFirst
  <2>3. CASE HubFails
    <3>1. hub \in {"up", "connecting"} /\ hub' = "down" /\ listening' = {}
          /\ queue' = RemoveFirst(queue, "hub")
      BY <2>3 DEF HubFails
    <3>2. queue' \in Seq(Lanes \cup {"hub"}) /\ \A i \in 1..Len(queue') : queue'[i] # "hub"
      BY <3>1, RemoveFirstFacts DEF ControlOK, QueueOK, HubWaitsOnce
    <3> QED BY <1>1, <3>1, <3>2 DEF HubWaitsOnce, HubGoneFirst, QueueOK
  <2>4. CASE HubReconnects
    <3>1. HubConnects /\ hub = "down" /\ UNCHANGED listening
      BY <2>4 DEF HubReconnects
    <3> QED BY <1>1, <3>1, HubConnectsFacts DEF HubWaitsOnce, HubGoneFirst, QueueOK
  <2>5. CASE Grant
    <3>1. /\ queue \in Seq(Lanes \cup {"hub"}) /\ queue # <<>> /\ queue' = Tail(queue)
      BY <2>5 DEF Grant, ControlOK, QueueOK
    <3>2. /\ queue' \in Seq(Lanes \cup {"hub"}) /\ Len(queue') = Len(queue) - 1
          /\ \A i \in 1..Len(queue') : queue'[i] = queue[i + 1]
          /\ Head(queue) = queue[1]
      BY <3>1
    <3>3. CASE Head(queue) = "hub"
      <4>1. hub = "connecting" /\ hub' = (IF closer = "hub" THEN "down" ELSE "up")
            /\ (closer = "hub" => listening' = {})
        BY <2>5, <3>1, <3>2, <3>3 DEF Grant, HubWaitsOnce
      <4>2. \A i \in 1..Len(queue') : queue'[i] # "hub"
        BY <3>1, <3>2, <3>3 DEF HubWaitsOnce
      <4> QED BY <1>1, <3>2, <4>1, <4>2 DEF HubWaitsOnce, HubGoneFirst, QueueOK
    <3>4. CASE Head(queue) # "hub"
      <4>1. UNCHANGED <<hub, listening>>
        BY <2>5, <3>4 DEF Grant
      <4> QED BY <1>1, <3>1, <3>2, <4>1 DEF ControlOK, QueueOK, HubWaitsOnce, HubGoneFirst
    <3> QED BY <3>3, <3>4
  <2>6. ASSUME NEW l \in Lanes, Begin(l)
        PROVE  QueueOK' /\ HubWaitsOnce' /\ HubGoneFirst'
    <3>1. UNCHANGED <<hub, listening>> /\ queue' = Append(queue, l) /\ l # "hub"
      BY <2>6, EngineAssumption DEF Begin, hubVars
    <3>2. /\ queue' \in Seq(Lanes \cup {"hub"}) /\ Len(queue') = Len(queue) + 1
          /\ \A i \in 1..Len(queue) : queue'[i] = queue[i]
          /\ queue'[Len(queue) + 1] = l
      BY <3>1 DEF ControlOK, QueueOK
    <3> QED BY <1>1, <3>1, <3>2 DEF ControlOK, QueueOK, HubWaitsOnce, HubGoneFirst
  <2>7. ASSUME NEW l \in Lanes, End(l)
        PROVE  QueueOK' /\ HubWaitsOnce' /\ HubGoneFirst'
    BY <2>7, <1>1 DEF End, hubVars, ControlOK, QueueOK, HubWaitsOnce, HubGoneFirst
  <2> QED BY <2>1, <2>2, <2>3, <2>4, <2>5, <2>6, <2>7
<1> QED BY <1>1, <1>2 DEF ControlOK, CloserOwnsShutdown

(***************************************************************************)
(* close() shuts the hub down, then the databases (engine.ts:165-199).     *)
(***************************************************************************)
LEMMA CloseKeepsHubInv ==
  ASSUME HubInv,
         \/ Close \/ CloseStep
         \/ \E id \in Ids : CloseSubscription(id)
  PROVE  HubInv'
<1> USE DEF HubInv, QueueOK
<1>1. CASE Close
  BY <1>1 DEF Close, bootVars, resVars, shutVars, hubVars, poolVars, ControlOK,
     CloserOwnsShutdown, HubWaitsOnce, HubGoneFirst
<1>2. ASSUME NEW id \in Ids, CloseSubscription(id)
      PROVE  HubInv'
  BY <1>2 DEF CloseSubscription, bootVars, resVars, shutVars, poolVars, ControlOK,
     CloserOwnsShutdown, HubWaitsOnce, HubGoneFirst
<1>3. CASE BeginShutdown("close") /\ closer' = "shutdown" /\ hub' \in {"none", "closed"}
           /\ UNCHANGED <<bootVars, closed, opened, queue>>
           /\ (hub = "none" \/ (hub # "connecting" /\ hub' = "closed"))
           /\ listening' = {} /\ closer \in {"subs", "hub"}
  <2>1. "close" \in Closers /\ "init" \in Closers
    BY DEF Closers
  <2>2. ControlOK'
    BY <1>3, <2>1, BeginShutdownFacts DEF ControlOK, bootVars
  <2>3. CloserOwnsShutdown'
    BY <1>3, <2>1, BeginShutdownFacts DEF CloserOwnsShutdown, Closers
  <2>4. HubWaitsOnce' /\ HubGoneFirst'
    BY <1>3 DEF HubWaitsOnce, HubGoneFirst
  <2> QED BY <2>2, <2>3, <2>4
<1>4. CASE CloseHub
  <2>1. CASE hub = "none"
    <3>1. /\ closer = "subs" /\ closer' = "shutdown" /\ BeginShutdown("close")
          /\ UNCHANGED bootVars /\ UNCHANGED closed /\ UNCHANGED opened
          /\ UNCHANGED hub /\ UNCHANGED listening /\ UNCHANGED queue
      BY <1>4, <2>1 DEF CloseHub, hubVars, poolVars
    <3>2. listening = {}
      BY <2>1 DEF HubWaitsOnce
    <3> QED BY <2>1, <3>1, <3>2, <1>3
  <2>2. CASE hub # "none"
    BY <1>4, <2>2 DEF CloseHub, bootVars, shutVars, hubVars, poolVars, ControlOK,
       CloserOwnsShutdown, HubWaitsOnce, HubGoneFirst
  <2> QED BY <2>1, <2>2
<1>5. CASE HubCloses
  <2>1. /\ hub # "connecting" /\ hub' = "closed" /\ listening' = {} /\ closer = "hub"
        /\ closer' = "shutdown" /\ BeginShutdown("close")
        /\ UNCHANGED bootVars /\ UNCHANGED closed /\ UNCHANGED opened /\ UNCHANGED queue
    BY <1>5 DEF HubCloses, poolVars
  <2> QED BY <2>1, <1>3
<1>6. CASE Closed
  <2>1. shut' = [shut EXCEPT !["close"] = "idle"] /\ closer' = "done"
        /\ UNCHANGED <<boot, sync, closed, opened, refs, taken, hub, listening, queue>>
        /\ shut["close"] = "ending" /\ taken["close"] = {}
    BY <1>6 DEF Closed, resVars, hubVars, poolVars
  <2>2. closer = "shutdown" /\ closed
    BY <2>1 DEF CloserOwnsShutdown
  <2>3. ControlOK'
    BY <2>1 DEF ControlOK
  <2>4. CloserOwnsShutdown'
    BY <2>1, <2>2 DEF ControlOK, CloserOwnsShutdown, Closers
  <2> QED BY <2>1, <2>2, <2>3, <2>4 DEF HubWaitsOnce, HubGoneFirst
<1> QED BY <1>1, <1>2, <1>4, <1>5, <1>6 DEF CloseStep

(***************************************************************************)
(* The invariant of the hub and of close(), whenever close() is called.    *)
(***************************************************************************)
THEOREM EngineHubInvariant == Spec => []HubInv
<1>1. EngineInit => HubInv
  <2> SUFFICES ASSUME EngineInit PROVE HubInv
    OBVIOUS
  <2>1. ControlOK
    <3>1. queue \in Seq(Lanes \cup {"hub"})
      BY DEF EngineInit
    <3>2. taken \in [Closers -> SUBSET Resources]
      BY DEF EngineInit
    <3> QED BY <3>1, <3>2 DEF EngineInit, ControlOK, QueueOK, BootStates, Closers
  <2>2. CloserOwnsShutdown /\ HubWaitsOnce /\ HubGoneFirst
    BY DEF EngineInit, CloserOwnsShutdown, HubWaitsOnce, HubGoneFirst, Closers
  <2> QED BY <2>1, <2>2 DEF HubInv
<1>2. HubInv /\ [EngineNext]_vars => HubInv'
  <2>1. HubInv /\ UNCHANGED vars => HubInv'
    BY DEF vars, bootVars, resVars, shutVars, hubVars, poolVars, HubInv, ControlOK, QueueOK,
       CloserOwnsShutdown, HubWaitsOnce, HubGoneFirst
  <2> QED BY <2>1, BootKeepsHubInv, ShutdownKeepsHubInv, HubStepKeepsHubInv,
             CloseKeepsHubInv DEF EngineNext
<1> QED BY <1>1, <1>2, PTL DEF Spec

(***************************************************************************)
(* "db.close() closes subscriptions and the listener hub before ending the *)
(* query pool" (NOTIFICATIONS.md:47-48), also when close() comes while     *)
(* initialize() runs.                                                      *)
(***************************************************************************)
THEOREM EngineHubBeforePool == Spec => []HubBeforePool
<1>1. HubInv => HubBeforePool
  <2> SUFFICES ASSUME HubInv, "main" \in taken["close"]
               PROVE  hub \in {"none", "closed"} /\ listening = {} /\ "hub" \notin ToSet(queue)
    BY DEF HubBeforePool
  <2>1. closer = "shutdown"
    BY DEF HubInv, CloserOwnsShutdown, Closers
  <2>2. hub \in {"none", "closed"}
    BY <2>1 DEF HubInv, HubGoneFirst
  <2>3. queue \in Seq(Lanes \cup {"hub"})
    BY DEF HubInv, ControlOK, QueueOK
  <2> QED BY <2>2, <2>3 DEF HubInv, HubWaitsOnce, ToSet
<1> QED BY <1>1, EngineHubInvariant, PTL

-----------------------------------------------------------------------------
(***************************************************************************)
(* When close() waits for initialize(), a failed initialize() and a        *)
(* finished close() have closed what was opened.                           *)
(***************************************************************************)
LEMMA BeginShutdownKeepsHeld ==
  ASSUME HubInv, LeakInv, NEW a \in Closers, BeginShutdown(a), UNCHANGED <<opened, syncStarted>>,
         \A b \in Closers : shut[b] = "idle"
  PROVE  OpenIsHeld' /\ shut'[a] # "idle" /\ (\A b \in Closers \ {a} : shut'[b] = "idle")
         /\ ("replica" \in refs' => syncStarted') /\ (syncStarted' => "sync" \in refs')
         /\ refs' \subseteq refs
<1> USE DEF HubInv, ControlOK, LeakInv, OpenIsHeld, RefsFollowBoot
<1>1. opened = refs /\ refs \subseteq Resources
  OBVIOUS
<1>2. CASE syncStarted
  BY <1>1, <1>2 DEF BeginShutdown
<1>3. CASE ~syncStarted
  <2>1. "replica" \notin refs
    BY <1>3
  <2>2. refs \cap {"main", "sync"} = refs /\ refs \ {"main", "sync"} = {}
    BY <1>1, <2>1 DEF Resources
  <2> QED BY <1>1, <1>3, <2>2 DEF BeginShutdown, CloseConnections
<1> QED BY <1>2, <1>3

LEMMA BootKeepsLeakInv ==
  ASSUME HubInv, LeakInv,
         \/ \E withSync \in BOOLEAN : Initialize(withSync)
         \/ BootStep \/ BootFails \/ InitCleanedUp
  PROVE  LeakInv'
<1> USE DEF HubInv, LeakInv, OneShutdown
<1>0. "init" \in Closers /\ "close" \in Closers
  BY DEF Closers
<1>1. CASE BootFails
  <2>1. boot \notin {"idle", "done", "failed", "cleaning"} /\ ~closed
    BY <1>1 DEF BootFails, Booting
  <2>2. closer = "none" /\ \A b \in Closers : shut[b] = "idle"
    BY <2>1, <1>0 DEF CloserOwnsShutdown, Closers
  <2>3. BeginShutdown("init") /\ UNCHANGED <<opened, syncStarted, closed, closer>>
        /\ boot' = "cleaning"
    BY <1>1 DEF BootFails
  <2>4. OpenIsHeld' /\ shut'["init"] # "idle" /\ shut'["close"] = "idle"
        /\ ("replica" \in refs' => syncStarted') /\ (syncStarted' => "sync" \in refs')
    BY <1>0, <2>2, <2>3, BeginShutdownKeepsHeld DEF Closers
  <2>5. OneShutdown'
    BY <2>1, <2>3, <2>4
  <2>6. RefsFollowBoot'
    BY <2>2, <2>3, <2>4 DEF RefsFollowBoot
  <2> QED BY <2>4, <2>5, <2>6
<1>2. CASE InitCleanedUp
  <2>1. shut["init"] = "ending" /\ taken["init"] = {}
        /\ shut' = [shut EXCEPT !["init"] = "idle"] /\ boot' = "failed"
        /\ UNCHANGED <<syncStarted, closed, opened, refs, taken, closer>>
    BY <1>2 DEF InitCleanedUp, resVars
  <2>2. boot = "cleaning" /\ ~closed /\ closer = "none"
    BY <2>1, <1>0 DEF CloserOwnsShutdown
  <2>3. shut["close"] = "idle" /\ shut'["close"] = "idle" /\ shut'["init"] = "idle"
    BY <2>1, <2>2, <1>0 DEF CloserOwnsShutdown, ControlOK
  <2>4. opened = {} /\ refs = {} /\ ~syncStarted
    BY <2>1, <1>0 DEF OpenIsHeld
  <2> QED BY <2>1, <2>2, <2>3, <2>4 DEF OpenIsHeld, RefsFollowBoot, Closers
<1>3. CASE (\E withSync \in BOOLEAN : Initialize(withSync)) \/ BootStep
  <2>1. boot \notin {"done", "cleaning"} /\ boot' \notin {"cleaning", "idle", "failed"}
        /\ UNCHANGED <<shut, taken, closer, closed>>
    BY <1>3 DEF Initialize, BootStep, MainOpens, SyncPoolOpens, SchemaReady, RemoteReady,
         Subscribes, ReplicationStarts, shutVars
  <2>2. ~closed
    BY <1>3 DEF Initialize, BootStep, MainOpens, SyncPoolOpens, SchemaReady, RemoteReady,
         Subscribes, ReplicationStarts
  <2>3. closer = "none" /\ \A b \in Closers : shut[b] = "idle"
    BY <2>1, <2>2, <1>0 DEF CloserOwnsShutdown, Closers
  <2>4. opened = refs
    BY <2>3 DEF OpenIsHeld
  <2>5. OneShutdown'
    BY <2>1, <2>2, <2>3, <1>0
  <2>6. opened' = refs'
    BY <1>3, <2>4 DEF Initialize, BootStep, MainOpens, SyncPoolOpens, SchemaReady,
       RemoteReady, Subscribes, ReplicationStarts, resVars
  <2>7. RefsFollowBoot'
    <3> USE <2>1, <2>3 DEF RefsFollowBoot
    <3>1. CASE \E withSync \in BOOLEAN : Initialize(withSync)
      BY <3>1 DEF Initialize, resVars
    <3>2. CASE MainOpens \/ SyncPoolOpens
      BY <3>2 DEF MainOpens, SyncPoolOpens
    <3>3. CASE SchemaReady
      BY <3>3 DEF SchemaReady, resVars
    <3>4. CASE RemoteReady \/ Subscribes \/ ReplicationStarts
      BY <3>4 DEF RemoteReady, Subscribes, ReplicationStarts, resVars
    <3> QED BY <1>3, <3>1, <3>2, <3>3, <3>4 DEF BootStep
  <2> QED BY <2>1, <2>3, <2>5, <2>6, <2>7 DEF OpenIsHeld
<1> QED BY <1>1, <1>2, <1>3

LEMMA ShutdownKeepsLeakInv ==
  ASSUME HubInv, LeakInv, NEW a \in Closers, ShutdownStep(a)
  PROVE  LeakInv'
<1> USE DEF HubInv, LeakInv
<1>0. "init" \in Closers /\ "close" \in Closers /\ Closers = {"init", "close"}
  BY DEF Closers
\* The other shutdown is not under way, so this one holds all that is open.
<1>1. \A b \in Closers \ {a} : shut[b] = "idle"
  <2>1. shut[a] # "idle"
    BY DEF ShutdownStep, PullerStops, SyncPoolEnds, MainEnds
  <2>2. a = "init" => ~closed
    BY <2>1 DEF OneShutdown
  <2>3. a = "close" => boot # "cleaning"
    BY <2>1, <1>0 DEF OneShutdown, CloserOwnsShutdown
  <2> QED BY <1>0, <2>2, <2>3 DEF OneShutdown, CloserOwnsShutdown
<1>2. UNCHANGED <<boot, closed, closer>>
  BY DEF ShutdownStep, PullerStops, SyncPoolEnds, MainEnds, bootVars
<1>3. boot \notin {"idle", "failed", "opening", "remote", "importing", "starting"}
      \/ a = "close"
  BY <1>0 DEF OneShutdown, ShutdownStep, PullerStops, SyncPoolEnds, MainEnds
<1>4. a = "close" => boot \notin {"remote", "importing", "starting"} /\ closer = "shutdown"
  BY <1>0 DEF OneShutdown, CloserOwnsShutdown, ShutdownStep, PullerStops, SyncPoolEnds,
              MainEnds
<1>5. CASE PullerStops(a)
  <2>1. shut[a] = "stopping" /\ shut' = [shut EXCEPT ![a] = "ending"]
        /\ opened' = opened \ taken[a] /\ syncStarted' = FALSE
        /\ taken' = [taken EXCEPT ![a] = (refs \ taken[a]) \cap {"main", "sync"}]
        /\ refs' = (refs \cap {"replica"}) \ taken[a]
    BY <1>5 DEF PullerStops
  <2>2. opened = refs /\ taken[a] = refs \cap {"replica"} /\ refs \subseteq Resources
    BY <2>1 DEF OpenIsHeld, ControlOK
  <2>3. taken'[a] = opened' /\ refs' = {} /\ shut'[a] = "ending"
        /\ \A b \in Closers \ {a} : shut'[b] = "idle"
    <3>1. taken'[a] = (refs \ taken[a]) \cap {"main", "sync"} /\ shut'[a] = "ending"
          /\ \A b \in Closers \ {a} : shut'[b] = shut[b]
      BY <2>1 DEF ControlOK
    <3> QED BY <1>1, <2>1, <2>2, <3>1 DEF Resources
  <2>4. OpenIsHeld'
    BY <2>1, <2>3 DEF OpenIsHeld
  <2>5. RefsFollowBoot'
    BY <1>2, <1>3, <1>4, <2>1, <2>3 DEF RefsFollowBoot
  <2>6. OneShutdown'
    BY <1>0, <1>1, <1>2, <2>1, <2>3 DEF OneShutdown
  <2> QED BY <2>4, <2>5, <2>6
<1>6. CASE SyncPoolEnds(a) \/ MainEnds(a)
  <2>1. PICK x \in Resources : taken' = [taken EXCEPT ![a] = @ \ {x}] /\ opened' = opened \ {x}
    BY <1>6 DEF SyncPoolEnds, MainEnds, Resources
  <2>2. shut[a] = "ending" /\ UNCHANGED <<shut, refs, syncStarted>>
    BY <1>6 DEF SyncPoolEnds, MainEnds, bootVars
  <2>3. taken'[a] = taken[a] \ {x}
    BY <2>1 DEF ControlOK
  <2>4. OpenIsHeld'
    BY <1>1, <2>1, <2>2, <2>3 DEF OpenIsHeld
  <2> QED BY <1>2, <2>2, <2>4 DEF OneShutdown, RefsFollowBoot
<1> QED BY <1>5, <1>6 DEF ShutdownStep

LEMMA CloseKeepsLeakInv ==
  ASSUME HubInv, LeakInv, ~AbortsInit, Close \/ CloseStep
  PROVE  LeakInv'
<1> USE DEF HubInv, LeakInv
<1>0. "init" \in Closers /\ "close" \in Closers /\ Closers = {"init", "close"}
  BY DEF Closers
<1>1. CASE Close
  <2>1. UNCHANGED <<boot, syncStarted, opened, refs, shut, taken>> /\ closer' = "subs"
        /\ boot \in {"idle", "done", "failed"}
    BY <1>1 DEF Close, bootVars, resVars, shutVars, Booting, ControlOK, BootStates
  <2> QED BY <2>1 DEF OneShutdown, OpenIsHeld, RefsFollowBoot
<1>2. CASE BeginShutdown("close") /\ closer' = "shutdown" /\ closed
           /\ UNCHANGED <<boot, syncStarted, closed, opened>> /\ closer # "shutdown"
  <2>1. \A b \in Closers : shut[b] = "idle"
    BY <1>0, <1>2 DEF OneShutdown, CloserOwnsShutdown
  <2>2. OpenIsHeld' /\ shut'["init"] = "idle"
        /\ ("replica" \in refs' => syncStarted') /\ (syncStarted' => "sync" \in refs')
        /\ refs' \subseteq refs
    BY <1>0, <1>2, <2>1, BeginShutdownKeepsHeld
  <2>3. OneShutdown' /\ RefsFollowBoot'
    BY <1>0, <1>2, <2>1, <2>2 DEF OneShutdown, RefsFollowBoot
  <2> QED BY <2>2, <2>3
<1>3. CASE CloseHub \/ HubCloses
  <2>1. closer \in {"subs", "hub"} /\ closed /\ UNCHANGED <<boot, syncStarted, closed, opened>>
    BY <1>3 DEF CloseHub, HubCloses, CloserOwnsShutdown, bootVars
  <2>2. CASE closer' = "shutdown"
    <3>1. BeginShutdown("close")
      BY <1>3, <2>2 DEF CloseHub, HubCloses
    <3> QED BY <1>2, <2>1, <2>2, <3>1
  <2>3. CASE closer' # "shutdown"
    <3>1. UNCHANGED <<shut, taken, refs>> /\ closer' = "hub"
      BY <1>3, <2>3 DEF CloseHub, HubCloses, shutVars
    <3> QED BY <2>1, <3>1 DEF OneShutdown, OpenIsHeld, RefsFollowBoot
  <2> QED BY <2>2, <2>3
<1>4. CASE Closed
  <2>1. shut["close"] = "ending" /\ taken["close"] = {} /\ closer' = "done"
        /\ shut' = [shut EXCEPT !["close"] = "idle"]
        /\ UNCHANGED <<boot, syncStarted, closed, opened, refs, taken>>
    BY <1>4 DEF Closed, resVars
  <2>2. closed
    BY <2>1, <1>0 DEF CloserOwnsShutdown
  <2>3. shut["init"] = "idle" /\ shut'["init"] = "idle" /\ shut'["close"] = "idle"
    BY <2>1, <2>2, <1>0 DEF OneShutdown, ControlOK
  <2>4. opened = {} /\ refs = {} /\ ~syncStarted
    BY <2>1, <1>0 DEF OpenIsHeld
  <2> QED BY <1>0, <2>1, <2>2, <2>3, <2>4 DEF OneShutdown, OpenIsHeld, RefsFollowBoot
<1> QED BY <1>1, <1>3, <1>4 DEF CloseStep

(***************************************************************************)
(* The invariant of what is open, when close() waits for initialize().     *)
(***************************************************************************)
THEOREM EngineLeakInvariant == ~AbortsInit => (Spec => []LeakInv)
<1> SUFFICES ASSUME ~AbortsInit PROVE Spec => []LeakInv
  OBVIOUS
<1>1. EngineInit => LeakInv
  BY DEF EngineInit, LeakInv, OneShutdown, OpenIsHeld, RefsFollowBoot, Closers
<1>2. HubInv /\ LeakInv /\ [EngineNext]_vars => LeakInv'
  <2> SUFFICES ASSUME HubInv, LeakInv, [EngineNext]_vars PROVE LeakInv'
    OBVIOUS
  <2>1. CASE UNCHANGED <<boot, syncStarted, closed, closer, opened, refs, shut, taken>>
    BY <2>1 DEF LeakInv, OneShutdown, OpenIsHeld, RefsFollowBoot
  <2>2. CASE \/ \E id \in Ids : Listen(id) \/ ListenReturns(id) \/ Unlisten(id)
                               \/ CloseSubscription(id)
             \/ HubFails \/ HubReconnects \/ Grant
             \/ \E l \in Lanes : Begin(l) \/ End(l)
             \/ UNCHANGED vars
    BY <2>1, <2>2 DEF Listen, ListenReturns, Unlisten, CloseSubscription, HubFails,
       HubReconnects, Grant, Begin, End, vars, bootVars, resVars, shutVars
  <2> QED BY <2>2, BootKeepsLeakInv, ShutdownKeepsLeakInv, CloseKeepsLeakInv DEF EngineNext
<1> QED BY <1>1, <1>2, EngineHubInvariant, PTL DEF Spec

(***************************************************************************)
(* Whatever was opened is closed again (engine.ts:59-65, 179-198;          *)
(* bootstrap.ts:59-78), for every number of failures and of attempts.      *)
(***************************************************************************)
THEOREM EngineNothingLeaks == ~AbortsInit => (Spec => []NothingLeaks)
<1> SUFFICES ASSUME ~AbortsInit PROVE Spec => []NothingLeaks
  OBVIOUS
<1>1. LeakInv => NothingLeaks
  BY DEF LeakInv, OpenIsHeld, RefsFollowBoot, NothingLeaks
<1> QED BY <1>1, EngineLeakInvariant, PTL

-----------------------------------------------------------------------------
\* The slots of the pool in use, and who listens.
SlotsOK ==
  /\ IsFiniteSet(pinned) /\ pinned \subseteq Lanes
  /\ InUse <= PoolMax

ListenersOK ==
  /\ used \subseteq Ids /\ subs \subseteq used /\ listening \subseteq used \ subs
  /\ faults \in 0..MaxFaults

FlagsOK == initialized \in BOOLEAN /\ syncStarted \in BOOLEAN

(***************************************************************************)
(* A slot is given only when one is free, to one who waits for it: lanes   *)
(* and the hub never hold more than pgPoolMax (db.ts:555-600).             *)
(***************************************************************************)
LEMMA SlotsStep ==
  ASSUME HubInv, SlotsOK, [EngineNext]_vars
  PROVE  SlotsOK'
<1> USE EngineAssumption
<1>1. CASE pinned' \subseteq pinned /\ (hub' = "up" => hub = "up")
  <2>1. IsFiniteSet(pinned') /\ Cardinality(pinned') <= Cardinality(pinned)
        /\ Cardinality(pinned) \in Nat /\ Cardinality(pinned') \in Nat
    BY <1>1, FS_Subset, FS_CardinalityType DEF SlotsOK
  <2> QED BY <1>1, <2>1 DEF SlotsOK, InUse
<1>2. CASE Grant
  <2>1. Cardinality(pinned) \in Nat
    BY FS_CardinalityType DEF SlotsOK
  <2>2. CASE Head(queue) = "hub"
    <3>1. UNCHANGED pinned /\ InUse < PoolMax /\ hub = "connecting"
      BY <1>2, <2>2 DEF Grant, HubInv, ControlOK, QueueOK, HubWaitsOnce
    <3> QED BY <2>1, <3>1 DEF SlotsOK, InUse
  <2>3. CASE Head(queue) # "hub"
    <3>1. pinned' = pinned \cup {Head(queue)} /\ InUse < PoolMax /\ UNCHANGED hub
          /\ Head(queue) \in Lanes
      BY <1>2, <2>3 DEF Grant, HubInv, ControlOK, QueueOK
    <3>2. IsFiniteSet(pinned') /\ Cardinality(pinned') \in Nat
          /\ Cardinality(pinned') <= Cardinality(pinned) + 1
      <4>1. IsFiniteSet(pinned)
        BY DEF SlotsOK
      <4>2. /\ IsFiniteSet(pinned \cup {Head(queue)})
            /\ \/ Cardinality(pinned \cup {Head(queue)}) = Cardinality(pinned)
               \/ Cardinality(pinned \cup {Head(queue)}) = Cardinality(pinned) + 1
        BY <4>1, FS_AddElement
      <4> QED BY <2>1, <3>1, <4>2
    <3> QED BY <2>1, <3>1, <3>2 DEF SlotsOK, InUse
  <2> QED BY <2>2, <2>3
<1>3. CASE ~Grant
  <2>1. CASE \/ \E withSync \in BOOLEAN : Initialize(withSync)
             \/ BootStep \/ BootFails \/ InitCleanedUp \/ UNCHANGED vars
    BY <2>1, <1>1 DEF Initialize, BootStep, MainOpens, SyncPoolOpens, SchemaReady, RemoteReady,
         Subscribes, ReplicationStarts, BootFails, InitCleanedUp, hubVars, poolVars, vars
  <2>2. CASE \E a \in Closers : ShutdownStep(a)
    BY <2>2, <1>1 DEF ShutdownStep, PullerStops, SyncPoolEnds, MainEnds, ReturnsPins,
         hubVars, poolVars
  <2>3. CASE \/ \E id \in Ids : Listen(id) \/ ListenReturns(id) \/ Unlisten(id)
                              \/ CloseSubscription(id)
             \/ HubFails \/ HubReconnects
             \/ \E l \in Lanes : Begin(l) \/ End(l)
    BY <2>3, <1>1 DEF Listen, ListenReturns, Unlisten, CloseSubscription, HubFails,
         HubReconnects, HubConnects, Begin, End, hubVars, poolVars
  <2>4. CASE Close \/ CloseStep
    BY <2>4, <1>1 DEF Close, CloseStep, CloseHub, HubCloses, Closed, hubVars, poolVars
  <2> QED BY <1>3, <2>1, <2>2, <2>3, <2>4 DEF EngineNext
<1> QED BY <1>2, <1>3

LEMMA ListenersStep ==
  ASSUME ListenersOK, [EngineNext]_vars
  PROVE  ListenersOK'
<1> USE EngineAssumption DEF ListenersOK
<1>1. CASE \/ \E withSync \in BOOLEAN : Initialize(withSync)
           \/ BootStep \/ BootFails \/ InitCleanedUp \/ UNCHANGED vars
  BY <1>1 DEF Initialize, BootStep, MainOpens, SyncPoolOpens, SchemaReady, RemoteReady,
       Subscribes, ReplicationStarts, BootFails, InitCleanedUp, hubVars, vars
<1>2. CASE \E a \in Closers : ShutdownStep(a)
  BY <1>2 DEF ShutdownStep, PullerStops, SyncPoolEnds, MainEnds, hubVars
<1>3. CASE \E id \in Ids : Listen(id) \/ ListenReturns(id) \/ Unlisten(id)
                          \/ CloseSubscription(id)
  <2>1. UNCHANGED faults
    BY <1>3 DEF Listen, ListenReturns, Unlisten, CloseSubscription
  <2>2. PICK id \in Ids : Listen(id) \/ ListenReturns(id) \/ Unlisten(id)
                         \/ CloseSubscription(id)
    BY <1>3
  <2>3. used' \subseteq Ids /\ subs' \subseteq used' /\ listening' \subseteq used' \ subs'
    BY <2>2 DEF Listen, ListenReturns, Unlisten, CloseSubscription
  <2> QED BY <2>1, <2>3
<1>4. CASE \/ HubFails \/ HubReconnects \/ Grant
           \/ \E l \in Lanes : Begin(l) \/ End(l)
  <2>1. UNCHANGED <<used, subs>> /\ listening' \in {listening, {}}
    BY <1>4 DEF HubFails, HubReconnects, Grant, Begin, End, hubVars
  <2>2. faults' \in 0..MaxFaults
    BY <1>4 DEF HubFails, HubReconnects, Grant, Begin, End
  <2> QED BY <2>1, <2>2
<1>5. CASE Close \/ CloseStep
  BY <1>5 DEF Close, CloseStep, CloseHub, HubCloses, Closed, hubVars
<1> QED BY <1>1, <1>2, <1>3, <1>4, <1>5 DEF EngineNext

LEMMA FlagsStep ==
  ASSUME FlagsOK, [EngineNext]_vars
  PROVE  FlagsOK'
<1>1. CASE \/ \E withSync \in BOOLEAN : Initialize(withSync)
           \/ BootStep \/ BootFails \/ InitCleanedUp \/ UNCHANGED vars
  BY <1>1 DEF FlagsOK, Initialize, BootStep, MainOpens, SyncPoolOpens, SchemaReady, RemoteReady,
       Subscribes, ReplicationStarts, BootFails, InitCleanedUp, bootVars, vars
<1>2. CASE \/ \E a \in Closers : ShutdownStep(a)
           \/ \E id \in Ids : Listen(id) \/ ListenReturns(id) \/ Unlisten(id)
                            \/ CloseSubscription(id)
           \/ HubFails \/ HubReconnects \/ Grant
           \/ \E l \in Lanes : Begin(l) \/ End(l)
           \/ Close \/ CloseStep
  BY <1>2 DEF FlagsOK, ShutdownStep, PullerStops, SyncPoolEnds, MainEnds, Listen, ListenReturns,
       Unlisten, CloseSubscription, HubFails, HubReconnects, Grant, Begin, End, Close,
       CloseStep, CloseHub, HubCloses, Closed, bootVars
<1> QED BY <1>1, <1>2 DEF EngineNext

(***************************************************************************)
(* Type correctness, with the bound on the slots in use, whether or not    *)
(* close() may come during initialize().                                   *)
(***************************************************************************)
THEOREM EngineTypeCorrect == Spec => []EngineTypeOK
<1>1. EngineInit => SlotsOK /\ ListenersOK /\ FlagsOK
  <2> SUFFICES ASSUME EngineInit PROVE SlotsOK /\ ListenersOK /\ FlagsOK
    OBVIOUS
  <2>1. SlotsOK
    <3>1. pinned = {} /\ InUse = 0
      BY FS_EmptySet DEF EngineInit, InUse
    <3> QED BY <3>1, EngineAssumption, FS_EmptySet DEF SlotsOK
  <2>2. ListenersOK
    BY EngineAssumption DEF EngineInit, ListenersOK
  <2>3. FlagsOK
    BY DEF EngineInit, FlagsOK
  <2> QED BY <2>1, <2>2, <2>3
<1>2. HubInv /\ SlotsOK /\ ListenersOK /\ FlagsOK /\ [EngineNext]_vars
        => SlotsOK' /\ ListenersOK' /\ FlagsOK'
  BY SlotsStep, ListenersStep, FlagsStep
<1>3. HubInv /\ SlotsOK /\ ListenersOK /\ FlagsOK => EngineTypeOK
  <2> SUFFICES ASSUME HubInv, SlotsOK, ListenersOK, FlagsOK PROVE EngineTypeOK
    OBVIOUS
  <2>1. ToSet(queue) \subseteq Lanes \cup {"hub"}
    BY DEF HubInv, ControlOK, QueueOK, ToSet
  <2> QED BY <2>1 DEF EngineTypeOK, HubInv, ControlOK, QueueOK, SlotsOK, ListenersOK, FlagsOK
<1> QED BY <1>1, <1>2, <1>3, EngineHubInvariant, PTL DEF Spec
=============================================================================
