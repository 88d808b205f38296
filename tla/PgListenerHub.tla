--------------------------- MODULE PgListenerHub ---------------------------
(***************************************************************************)
(* src/src/client/notifications.ts: the hub that multiplexes all LISTENs   *)
(* of an engine over one pooled connection, reconnects it when it fails    *)
(* and reissues the LISTENs.                                               *)
(*                                                                         *)
(* One element of Subs is one call of listen() and the subscription it     *)
(* makes.  Whoever awaits something (a query, the connect task) is an      *)
(* owner; what it awaits settles by setting its reply, and its next step   *)
(* consumes the reply.  The event loop delivers the next event (a reply, a *)
(* failure, a timer) only when every settled await has been resumed:       *)
(* Quiet.  Application code may run at any time.                           *)
(***************************************************************************)
EXTENDS Naturals, SequencesExt

CONSTANTS
  Subs,        \* calls of listen()
  Channels,    \* notification channels
  MaxConns,    \* bound: connections the pool hands out
  MaxFaults,   \* bound: connections lost, queries and checkouts that fail
  None,        \* no connection, no channel
  Relisten,    \* may a channel be listened to while it is being unlistened?
  ListenMayFail \* may a LISTEN fail on a connection that stays alive?

Conns == 1..MaxConns

ASSUME HubAssumption ==
  /\ MaxConns \in Nat /\ MaxFaults \in Nat /\ Relisten \in BOOLEAN /\ ListenMayFail \in BOOLEAN
  /\ None \notin Conns \cup Channels
  /\ Subs \cap {"connect", "timer", "close"} = {}

VARIABLES
  sub,         \* the state of each subscription
  chan,        \* its channel
  entries,     \* subscriptions: those in the map
  task,        \* how far the calls of a subscription have come
  listened,    \* listenedChannels
  client,      \* the hub's connection
  connecting,  \* the connect task: "none", "checkout", "listening"
  visiting,    \* the channel the connect task is reissuing
  visited,     \* the channels of the map its loop has come by
  awaiting,    \* the owners that await the connect task
  timer,       \* a reconnect is scheduled
  timerTask,   \* the timer's callback is running
  closer,      \* how far close() has come
  closerConn,  \* the connection close() returns
  reply,       \* what an owner awaited has settled to
  wire,        \* the queries sent on each connection, oldest first
  server,      \* server: the channels each connection listens to
  alive,       \* connections that work
  held,        \* connections checked out of the pool
  granted,     \* number of connections handed out so far
  faults       \* faults so far

subVars  == <<sub, chan, entries, task>>
connVars == <<connecting, visiting, visited>>
netVars  == <<server, alive, granted, faults>>
vars == <<subVars, listened, client, connVars, awaiting, timer, timerTask,
          closer, closerConn, reply, wire, held, netVars>>

Owners    == Subs \cup {"connect", "timer", "close"}
SubStates == {"none", "connecting", "connected", "reconnecting", "closed"}

(***************************************************************************)
(* connecting, listening: listen() awaits the connection, its LISTEN.      *)
(* abandoning: a failed listen() awaits its UNLISTEN.  open: listen()      *)
(* returned.  failed: it threw.  unlistening: close() awaits its UNLISTEN. *)
(* closed: it returned.  crashed: the removal threw a TypeError.           *)
(***************************************************************************)
TaskStates == {"idle", "connecting", "listening", "abandoning", "open", "failed",
               "unlistening", "closed", "crashed"}

closing     == closer # "none"
Quiet       == \A x \in Owners : reply[x] = "none"
ChannelsOf(S) == {chan[s] : s \in S}
Unlistening(ch) == \E s \in Subs : task[s] \in {"unlistening", "abandoning"} /\ chan[s] = ch

HubInit ==
  /\ sub = [s \in Subs |-> "none"] /\ chan = [s \in Subs |-> None]
  /\ entries = {} /\ task = [s \in Subs |-> "idle"]
  /\ listened = {} /\ client = None
  /\ connecting = "none" /\ visiting = None /\ visited = {} /\ awaiting = {}
  /\ timer = FALSE /\ timerTask = FALSE
  /\ closer = "none" /\ closerConn = None
  /\ reply = [x \in Owners |-> "none"]
  /\ wire = [c \in Conns |-> <<>>] /\ server = [c \in Conns |-> {}]
  /\ alive = {} /\ held = {} /\ granted = 0 /\ faults = 0

-----------------------------------------------------------------------------
\* The replies rs with what x awaits settled, or consumed.
Settled(rs, x, r) == [rs EXCEPT ![x] = r]
Consumed(rs, x)   == [rs EXCEPT ![x] = "none"]

\* x, whose reply is consumed, sends a query on c; a lost one rejects it.
Query(x, c, command, ch) ==
  IF c \in alive
  THEN /\ wire' = [wire EXCEPT ![c] = Append(@, [cmd |-> command, ch |-> ch, owner |-> x])]
       /\ reply' = Consumed(reply, x)
  ELSE /\ reply' = Settled(reply, x, "err")
       /\ UNCHANGED wire

\* setState() of the hub: every subscription in the map.
SetStates(S, state) == [s \in Subs |-> IF s \in S THEN state ELSE sub[s]]

\* scheduleReconnect(), with S in the map.
Scheduled(S) == timer \/ (~closing /\ S # {})

\* Connection c is gone: the replies rs with its queries rejected.
Rejected(rs, c) ==
  LET lost == {q.owner : q \in ToSet(wire[c])}
  IN [x \in Owners |-> IF x \in lost THEN "err" ELSE rs[x]]

\* c's session ends, by a failure or by release(true).
SessionEnds(c) ==
  /\ alive' = alive \ {c}
  /\ server' = [d \in Conns |-> IF d = c THEN {} ELSE server[d]]
  /\ wire' = [d \in Conns |-> IF d = c THEN <<>> ELSE wire[d]]

\* Mutant: handleDisconnect() does not give the lost connection back.
DropUnreleased ==
  /\ client' = None
  /\ listened' = {}
  /\ held' = held
  /\ sub' = SetStates(entries, "reconnecting")
  /\ timer' = Scheduled(entries)

\* handleDisconnect() of the current connection.
Drop ==
  /\ client' = None
  /\ listened' = {}
  /\ held' = held \ {client}
  /\ sub' = SetStates(entries, "reconnecting")
  /\ timer' = Scheduled(entries)

\* ensureConnected(): share the connect task, or start one.
EnsureConnected(x) ==
  IF client # None
  THEN /\ reply' = Settled(reply, x, "ok")
       /\ UNCHANGED <<awaiting, connecting>>
  ELSE /\ awaiting' = awaiting \cup {x}
       /\ connecting' = IF connecting = "none" THEN "checkout" ELSE connecting
       /\ reply' = Consumed(reply, x)

\* The connect task settles: whoever awaits it resumes.
ConnectSettles(result, rs) ==
  /\ connecting' = "none" /\ visiting' = None /\ visited' = {}
  /\ reply' = [x \in Owners |-> IF x \in awaiting THEN result
                                ELSE IF x = "connect" THEN "none" ELSE rs[x]]
  /\ awaiting' = {}

-----------------------------------------------------------------------------
\* connect(): pool.connect() resolves.  While closing it is given back at once.
Checkout ==
  /\ Quiet
  /\ connecting = "checkout"
  /\ granted < MaxConns
  /\ granted' = granted + 1
  /\ IF closing
     THEN /\ ConnectSettles("ok", reply)
          /\ UNCHANGED <<client, listened, held, alive>>
     ELSE /\ client' = granted'
          /\ held' = held \cup {granted'} /\ alive' = alive \cup {granted'}
          /\ listened' = {}
          /\ connecting' = "listening"
          /\ reply' = Settled(reply, "connect", "ok")
          /\ UNCHANGED <<visiting, visited, awaiting>>
  /\ UNCHANGED <<subVars, timer, timerTask, closer, closerConn, wire, server, faults>>

CheckoutFails ==
  /\ Quiet
  /\ connecting = "checkout"
  /\ faults < MaxFaults
  /\ faults' = faults + 1
  /\ ConnectSettles("err", reply)
  /\ UNCHANGED <<subVars, listened, client, timer, timerTask, closer, closerConn,
                 wire, held, server, alive, granted>>

\* The channel whose LISTEN the connect task awaited is now listened to.
Reissued == listened \cup ({visiting} \ {None})

\* connect(): reissue the next channel of the map that is not listened to.
ConnectReissues(ch) ==
  /\ connecting = "listening" /\ reply["connect"] = "ok"
  /\ ch \in ChannelsOf(entries) \ (visited \cup Reissued)
  /\ client # None
  /\ listened' = Reissued
  /\ visiting' = ch
  /\ visited' = visited \cup {ch}
  /\ Query("connect", client, "listen", ch)
  /\ UNCHANGED <<subVars, client, connecting, awaiting, timer, timerTask, closer,
                 closerConn, held, netVars>>

ConnectSucceeds ==
  /\ connecting = "listening" /\ reply["connect"] = "ok"
  /\ ChannelsOf(entries) \subseteq visited \cup Reissued
  /\ listened' = Reissued
  /\ sub' = SetStates(entries, "connected")
  /\ ConnectSettles("ok", reply)
  /\ UNCHANGED <<chan, entries, task, client, timer, timerTask, closer, closerConn,
                 wire, held, netVars>>

\* A LISTEN failed, or its connection was dropped meanwhile (and returned).
ConnectFails ==
  /\ connecting = "listening"
  /\ \/ reply["connect"] = "err" /\ listened' = listened
     \/ /\ reply["connect"] = "ok" /\ client = None
        /\ ~(ChannelsOf(entries) \subseteq visited \cup Reissued)
        /\ listened' = Reissued
  /\ client' = None
  /\ held' = held \ {client}
  /\ SessionEnds(client)
  /\ ConnectSettles("err", IF client = None THEN reply ELSE Rejected(reply, client))
  /\ UNCHANGED <<subVars, timer, timerTask, closer, closerConn, granted, faults>>

-----------------------------------------------------------------------------
\* Mutant: the last subscription of a channel is not looked for.
OthersIgnored(s) == {}

\* The other subscriptions of s's channel.
Others(s) == {o \in entries \ {s} : chan[o] = chan[s]}

\* remove(s), in a step that consumes s's reply; its callers are then in
\* state "while" until it is done, and in state "after" from then on.
RemoveSub(s, while, after) ==
  /\ entries' = entries \ {s}
  /\ visited' = IF sub[s] = "closed" \/ Others(s) # {} THEN visited
                 ELSE visited \ {chan[s]}
  /\ sub' = [sub EXCEPT ![s] = "closed"]
  /\ \/ /\ sub[s] # "closed" /\ Others(s) = {}
        /\ client # None /\ chan[s] \in listened
        /\ task' = [task EXCEPT ![s] = while]
        /\ Query(s, client, "unlisten", chan[s])
        /\ UNCHANGED listened
     \/ /\ sub[s] = "closed" \/ Others(s) # {} \/ client = None \/ chan[s] \notin listened
        /\ task' = [task EXCEPT ![s] = after]
        /\ reply' = Consumed(reply, s)
        /\ listened' = IF sub[s] = "closed" \/ Others(s) # {} THEN listened
                       ELSE listened \ {chan[s]}
        /\ UNCHANGED wire

\* listen(): register, then await the connection.
Listen(s, ch) ==
  /\ task[s] = "idle"
  /\ ~closing
  /\ Relisten \/ ~Unlistening(ch)
  /\ entries' = entries \cup {s}
  /\ chan' = [chan EXCEPT ![s] = ch]
  /\ sub' = [sub EXCEPT ![s] = "connecting"]
  /\ task' = [task EXCEPT ![s] = "connecting"]
  /\ EnsureConnected(s)
  /\ UNCHANGED <<listened, client, visiting, visited, timer, timerTask, closer,
                 closerConn, wire, held, netVars>>

Opened(s) ==
  /\ sub' = [sub EXCEPT ![s] = "connected"]
  /\ task' = [task EXCEPT ![s] = "open"]
  /\ reply' = Consumed(reply, s)

\* The connection is there: LISTEN, unless the channel is listened to.
ListenSends(s) ==
  /\ task[s] = "connecting" /\ reply[s] = "ok"
  /\ chan[s] \notin listened /\ client # None
  /\ task' = [task EXCEPT ![s] = "listening"]
  /\ Query(s, client, "listen", chan[s])
  /\ UNCHANGED <<sub, chan, entries, listened, client, connVars, awaiting, timer,
                 timerTask, closer, closerConn, held, netVars>>

ListenReturns(s) ==
  /\ reply[s] = "ok"
  /\ \/ task[s] = "connecting" /\ chan[s] \in listened /\ UNCHANGED listened
     \/ task[s] = "listening" /\ listened' = listened \cup {chan[s]}
  /\ Opened(s)
  /\ UNCHANGED <<chan, entries, client, connVars, awaiting, timer, timerTask,
                 closer, closerConn, wire, held, netVars>>

\* listen() fails: it removes its subscription and throws.
ListenFails(s) ==
  /\ task[s] \in {"connecting", "listening"}
  /\ \/ reply[s] = "err"
     \/ reply[s] = "ok" /\ task[s] = "connecting" /\ chan[s] \notin listened /\ client = None
  /\ RemoveSub(s, "abandoning", "failed")
  /\ UNCHANGED <<chan, client, connecting, visiting, awaiting, timer, timerTask, closer,
                 closerConn, held, netVars>>

\* close() of a subscription that listen() returned.
CloseSubscription(s) ==
  /\ task[s] = "open"
  /\ RemoveSub(s, "unlistening", "closed")
  /\ UNCHANGED <<chan, client, connecting, visiting, awaiting, timer, timerTask, closer,
                 closerConn, held, netVars>>

AfterRemoval(s) ==
  task' = [task EXCEPT ![s] = IF task[s] = "abandoning" THEN "failed" ELSE "closed"]

Removing(s) == task[s] \in {"unlistening", "abandoning"}

\* UNLISTEN was answered, or failed while the hub is closing.
Unlistened(s) ==
  /\ Removing(s)
  /\ reply[s] = "ok" \/ (reply[s] = "err" /\ closing)
  /\ AfterRemoval(s)
  /\ listened' = listened \ {chan[s]}
  /\ reply' = Consumed(reply, s)
  /\ UNCHANGED <<sub, chan, entries, client, connVars, awaiting, timer, timerTask,
                 closer, closerConn, wire, held, netVars>>

\* UNLISTEN failed on a connection that is still the hub's: drop it.
UnlistenDrops(s) ==
  /\ Removing(s)
  /\ reply[s] = "err" /\ ~closing /\ client # None
  /\ Drop
  /\ SessionEnds(client)
  /\ AfterRemoval(s)
  /\ reply' = Rejected(Consumed(reply, s), client)
  /\ UNCHANGED <<chan, entries, connVars, awaiting, timerTask, closer, closerConn,
                 granted, faults>>

\* UNLISTEN failed because the connection was lost and already dropped: the
\* second handleDisconnect() is given undefined, passes its guard, and throws
\* at client.release().
UnlistenCrashes(s) ==
  /\ Removing(s)
  /\ reply[s] = "err" /\ ~closing /\ client = None
  /\ task' = [task EXCEPT ![s] = "crashed"]
  /\ listened' = {}
  /\ reply' = Consumed(reply, s)
  /\ UNCHANGED <<sub, chan, entries, client, connVars, awaiting, timer, timerTask,
                 closer, closerConn, wire, held, netVars>>

-----------------------------------------------------------------------------
\* The reconnect timer fires.
TimerFires ==
  /\ Quiet
  /\ timer /\ ~timerTask
  /\ timer' = FALSE
  /\ \/ entries = {} /\ UNCHANGED <<timerTask, awaiting, connecting, reply>>
     \/ entries # {} /\ timerTask' = TRUE /\ EnsureConnected("timer")
  /\ UNCHANGED <<subVars, listened, client, visiting, visited, closer, closerConn,
                 wire, held, netVars>>

\* Mutant: a failed reconnect is not tried again.
NoRetry == timer

\* A failed reconnect is scheduled again.
Retry == IF reply["timer"] = "err" THEN Scheduled(entries) ELSE timer

TimerEnds ==
  /\ timerTask /\ reply["timer"] # "none"
  /\ timerTask' = FALSE
  /\ timer' = Retry
  /\ reply' = Consumed(reply, "timer")
  /\ UNCHANGED <<subVars, listened, client, connVars, awaiting, closer, closerConn,
                 wire, held, netVars>>

-----------------------------------------------------------------------------
\* Mutant: close() does not wait for a connect task.
CloseAtOnce ==
  /\ closer = "none"
  /\ closer' = "connecting"
  /\ timer' = FALSE
  /\ reply' = Settled(reply, "close", "ok")
  /\ UNCHANGED <<subVars, listened, client, connVars, awaiting, timerTask, closerConn,
                 wire, held, netVars>>

\* close(): no more reconnects; await the connect task in progress.
Close ==
  /\ closer = "none"
  /\ closer' = "connecting"
  /\ timer' = FALSE
  /\ IF connecting = "none" THEN reply' = Settled(reply, "close", "ok") /\ UNCHANGED awaiting
     ELSE awaiting' = awaiting \cup {"close"} /\ UNCHANGED reply
  /\ UNCHANGED <<subVars, listened, client, connVars, timerTask, closerConn,
                 wire, held, netVars>>

\* The end of close(): every subscription is closed.
CloseEverySubscription ==
  /\ closer' = "done"
  /\ listened' = {}
  /\ sub' = SetStates(entries, "closed")
  /\ entries' = {}

CloseUnlistens ==
  /\ closer = "connecting" /\ reply["close"] # "none"
  /\ client # None
  /\ client' = None
  /\ closerConn' = client
  /\ closer' = "unlistening"
  /\ Query("close", client, "unlistenAll", None)
  /\ UNCHANGED <<subVars, listened, connVars, awaiting, timer, timerTask, held, netVars>>

CloseEnds ==
  /\ reply["close"] # "none"
  /\ \/ closer = "connecting" /\ client = None
     \/ closer = "unlistening"
  /\ held' = held \ {closerConn}
  /\ closerConn' = None
  /\ reply' = Consumed(reply, "close")
  /\ CloseEverySubscription
  /\ UNCHANGED <<chan, task, client, connVars, awaiting, timer, timerTask, wire, netVars>>

-----------------------------------------------------------------------------
\* The server executes the oldest query of a connection.
Executed(q, channels) == CASE q.cmd = "listen"      -> channels \cup {q.ch}
                           [] q.cmd = "unlisten"    -> channels \ {q.ch}
                           [] q.cmd = "unlistenAll" -> {}

ServerAnswers(c) ==
  /\ Quiet
  /\ wire[c] # <<>>
  /\ server' = [server EXCEPT ![c] = Executed(Head(wire[c]), @)]
  /\ reply' = Settled(reply, Head(wire[c]).owner, "ok")
  /\ wire' = [wire EXCEPT ![c] = Tail(@)]
  /\ UNCHANGED <<subVars, listened, client, connVars, awaiting, timer, timerTask,
                 closer, closerConn, held, alive, granted, faults>>

ServerRefuses(c) ==
  /\ Quiet
  /\ wire[c] # <<>> /\ faults < MaxFaults
  /\ ListenMayFail \/ Head(wire[c]).cmd # "listen"
  /\ faults' = faults + 1
  /\ reply' = Settled(reply, Head(wire[c]).owner, "err")
  /\ wire' = [wire EXCEPT ![c] = Tail(@)]
  /\ UNCHANGED <<subVars, listened, client, connVars, awaiting, timer, timerTask,
                 closer, closerConn, held, server, alive, granted>>

\* A connection is lost: its error event reaches the hub that uses it, then
\* every query on it is rejected.
ConnectionLost(c) ==
  /\ Quiet
  /\ c \in alive \cap held /\ faults < MaxFaults
  /\ faults' = faults + 1
  /\ SessionEnds(c)
  /\ reply' = Rejected(reply, c)
  /\ IF c = client /\ ~closing THEN Drop
     ELSE UNCHANGED <<client, listened, held, sub, timer>>
  /\ UNCHANGED <<chan, entries, task, connVars, awaiting, timerTask, closer, closerConn,
                 granted>>

-----------------------------------------------------------------------------
ListenStep(s) == ListenSends(s) \/ ListenReturns(s) \/ ListenFails(s)
RemoveStep(s) == Unlistened(s) \/ UnlistenDrops(s) \/ UnlistenCrashes(s)

ConnectStep == \/ \E ch \in Channels : ConnectReissues(ch)
               \/ ConnectSucceeds \/ ConnectFails

CloseStep == CloseUnlistens \/ CloseEnds

HubNext ==
  \/ \E s \in Subs, ch \in Channels : Listen(s, ch)
  \/ \E s \in Subs : ListenStep(s) \/ CloseSubscription(s) \/ RemoveStep(s)
  \/ Checkout \/ CheckoutFails \/ ConnectStep
  \/ TimerFires \/ TimerEnds
  \/ Close \/ CloseStep
  \/ \E c \in Conns : ServerAnswers(c) \/ ServerRefuses(c) \/ ConnectionLost(c)

Spec == HubInit /\ [][HubNext]_vars

(***************************************************************************)
(* Fairness: resumed code runs, the server answers, the pool serves a      *)
(* checkout, a set timer fires.  Faults and application calls need not     *)
(* happen.                                                                 *)
(***************************************************************************)
Fairness ==
  /\ \A s \in Subs : WF_vars(ListenStep(s)) /\ WF_vars(RemoveStep(s))
  /\ WF_vars(Checkout) /\ WF_vars(ConnectStep)
  /\ WF_vars(TimerFires) /\ WF_vars(TimerEnds) /\ WF_vars(CloseStep)
  /\ \A c \in Conns : WF_vars(ServerAnswers(c))

FairSpec == Spec /\ Fairness
-----------------------------------------------------------------------------
HubTypeOK ==
  /\ sub \in [Subs -> SubStates] /\ chan \in [Subs -> Channels \cup {None}]
  /\ entries \subseteq Subs /\ task \in [Subs -> TaskStates]
  /\ listened \subseteq Channels /\ client \in Conns \cup {None}
  /\ connecting \in {"none", "checkout", "listening"}
  /\ visiting \in Channels \cup {None} /\ visited \subseteq Channels
  /\ awaiting \subseteq Owners \ {"connect"}
  /\ awaiting # {} => connecting # "none"
  /\ \A c \in Conns : wire[c] # <<>> => c \in alive
  /\ timer \in BOOLEAN /\ timerTask \in BOOLEAN
  /\ closer \in {"none", "connecting", "unlistening", "done"}
  /\ closerConn \in Conns \cup {None}
  /\ reply \in [Owners -> {"none", "ok", "err"}]
  /\ server \in [Conns -> SUBSET Channels]
  /\ alive \subseteq 1..granted /\ held \subseteq 1..granted
  /\ granted \in 0..MaxConns /\ faults \in 0..MaxFaults

(***************************************************************************)
(* A subscription that says it is connected really is: the hub has a       *)
(* connection, and the server listens to the channel on it.  Channels are  *)
(* "multiplexed and reference-counted on that connection"                  *)
(* (NOTIFICATIONS.md:33-34): closing one subscription takes no channel     *)
(* from another.                                                           *)
(***************************************************************************)
ConnectedMeansListening ==
  \A s \in Subs : task[s] = "open" /\ sub[s] = "connected" /\ ~closing =>
     client # None /\ (client \in alive => chan[s] \in server[client])

(***************************************************************************)
(* The hub never loses a connection it checked out, nor uses one it gave   *)
(* back: what is checked out is its current one or the one close() is      *)
(* returning (notifications.ts:204-234, 278-284).                          *)
(***************************************************************************)
ConnectionsAreOwned ==
  /\ held = {client, closerConn} \ {None}
  /\ client # None => client # closerConn

(***************************************************************************)
(* After close() nothing is left behind: no connection, no timer, no       *)
(* connect task, no subscription in another state than closed              *)
(* (notifications.ts:141-171).                                             *)
(***************************************************************************)
ClosedHubIsInert ==
  closer = "done" => /\ held = {} /\ ~timer /\ connecting = "none"
                     /\ entries = {}
                     /\ \A s \in Subs : sub[s] \in {"none", "closed"}

(***************************************************************************)
(* A subscription that lost its connection is connected again or closed:   *)
(* "reconnects with capped exponential backoff" (NOTIFICATIONS.md:35-37).  *)
(***************************************************************************)
Reconnects ==
  \A s \in Subs : sub[s] = "reconnecting" ~> sub[s] \in {"connected", "closed"}
=============================================================================
