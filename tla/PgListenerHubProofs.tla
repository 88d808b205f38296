------------------------ MODULE PgListenerHubProofs ------------------------
(***************************************************************************)
(* The hub keeps track of its connection, and close() leaves nothing of it *)
(* behind, for every number of subscriptions, channels, connections and    *)
(* faults.  A subscription that says it is connected is listened to by the *)
(* server, where the two disagreements with the code are left out: no      *)
(* channel is listened to while it is being unlistened, and no LISTEN      *)
(* fails on a connection that works.                                       *)
(***************************************************************************)
EXTENDS PgListenerHub, SequenceTheorems, TLAPS

Queries == {q \in [cmd : {"listen", "unlisten", "unlistenAll"}, ch : Channels \cup {None},
                    owner : Owners \ {"timer"}] :
             q.cmd = "listen" => q.ch \in Channels}

\* The query q is under way on one of the wires w.
OnWire(w, q) == \E c \in Conns : \E i \in 1..Len(w[c]) : w[c][i] = q

\* The owners of the queries sent on c.
Lost(w, c) == {q.owner : q \in ToSet(w[c])}

\* x has a query under way on one of the wires w.
Sends(w, x) == \E c \in Conns : \E i \in 1..Len(w[c]) : w[c][i].owner = x

\* The wires w carry at most one query of each owner.
OnePerOwner(w) ==
  \A c, d \in Conns : \A i \in 1..Len(w[c]), j \in 1..Len(w[d]) :
    w[c][i].owner = w[d][j].owner => c = d /\ i = j

(***************************************************************************)
(* The connection of the hub, of a connect task and of close().  A task    *)
(* checks a connection out only when the hub has none, and close() takes   *)
(* the hub's away when no task is left (notifications.ts:141-171).         *)
(***************************************************************************)
ConnOK ==
  /\ client \in Conns \cup {None} /\ closerConn \in Conns \cup {None}
  /\ granted \in 0..MaxConns /\ alive \subseteq Conns /\ held \subseteq Conns
  /\ connecting \in {"none", "checkout", "listening"}
  /\ closer \in {"none", "connecting", "unlistening", "done"}
  /\ connecting = "checkout" => client = None
  /\ closer # "unlistening" => closerConn = None
  /\ closer \in {"unlistening", "done"} => client = None /\ connecting = "none"
  /\ ConnectionsAreOwned

\* No timer is set once the hub closes.
TimerOK == timer \in BOOLEAN /\ (closing => ~timer)

\* Who awaits a connect task has no reply yet; close() has one only when no
\* task is left.
ReplyOK ==
  /\ reply \in [Owners -> {"none", "ok", "err"}]
  /\ awaiting \subseteq Owners \ {"connect"}
  /\ \A s \in Subs \cap awaiting : task[s] = "connecting" /\ reply[s] = "none"
  /\ closer = "connecting" /\ connecting # "none" => reply["close"] = "none"
  /\ closer = "none" => reply["close"] = "none"
  /\ "close" \in awaiting => closer = "connecting"
  /\ connecting # "listening" => reply["connect"] = "none"
  /\ connecting = "none" => awaiting = {}

\* Queries are under way only on the connection of the hub or of close(), one
\* per owner, who waits for it; close() waits for the last one.
WireOK ==
  /\ wire \in [Conns -> Seq(Queries)] /\ OnePerOwner(wire)
  /\ \A c \in Conns : wire[c] # <<>> => c \in alive \cap {client, closerConn}
  /\ \A x \in Owners : Sends(wire, x) => reply[x] = "none"
  /\ \A s \in Subs : Sends(wire, s) => task[s] \in {"listening", "unlistening", "abandoning"}
  /\ Sends(wire, "connect") => connecting = "listening"
  /\ Sends(wire, "close") => closer = "unlistening"
  /\ closer = "unlistening" =>
       IF reply["close"] = "none"
       THEN /\ closerConn \in alive /\ wire[closerConn] # <<>>
            /\ wire[closerConn][Len(wire[closerConn])].owner = "close"
       ELSE wire[closerConn] = <<>>

\* The LISTEN of s was answered, and s has not been resumed yet.
Answered(s) == task[s] = "listening" /\ reply[s] = "ok"

\* Its connection works until then, and close() cannot overtake it.
AnsweredOK ==
  \A s \in Subs : Answered(s) =>
    /\ \A x \in Owners : reply[x] # "err"
    /\ closer \in {"none", "connecting"} => client \in alive
    /\ closer = "unlistening" => reply["close"] = "none"
    /\ closer # "done"

\* A subscription outside the map is closed, and after close() the map is empty.
EntriesOK ==
  /\ entries \subseteq Subs /\ sub \in [Subs -> SubStates] /\ task \in [Subs -> TaskStates]
  /\ chan \in [Subs -> Channels \cup {None}]
  /\ \A s \in Subs : task[s] # "idle" => chan[s] \in Channels
  /\ \A s \in Subs \ entries : sub[s] \in {"none", "closed"}
  /\ \A s \in Subs : s \in entries <=>
       task[s] \in {"connecting", "listening", "open"} /\ closer # "done"
  /\ closer = "done" => listened = {}

HubInv == ConnOK /\ TimerOK /\ ReplyOK /\ WireOK /\ AnsweredOK /\ EntriesOK

-----------------------------------------------------------------------------
(***************************************************************************)
(* Queries are answered in the order they were sent, and a session that    *)
(* ends rejects all of them: what that does to who waits for one.          *)
(***************************************************************************)
\* The wires v are w with the query q sent on c.
Appended(v, w, c, q) ==
  /\ v \in [Conns -> Seq(Queries)] /\ OnePerOwner(v)
  /\ v[c] # <<>> /\ v[c][Len(v[c])] = q
  /\ \A d \in Conns : d # c => v[d] = w[d]
  /\ \A x \in Owners : Sends(v, x) => (Sends(w, x) \/ x = q.owner)
  /\ \A p \in Queries : OnWire(v, p) => (OnWire(w, p) \/ p = q)

LEMMA WireAppend ==
  ASSUME NEW w \in [Conns -> Seq(Queries)], OnePerOwner(w), NEW c \in Conns,
         NEW q \in Queries, ~Sends(w, q.owner), NEW v, v = [w EXCEPT ![c] = Append(@, q)]
  PROVE  Appended(v, w, c, q)
<1>1. /\ v \in [Conns -> Seq(Queries)]
      /\ v[c] = Append(w[c], q)
      /\ \A d \in Conns : d # c => v[d] = w[d]
  OBVIOUS
<1>2. w[c] \in Seq(Queries)
  OBVIOUS
<1>3. /\ Len(v[c]) = Len(w[c]) + 1 /\ v[c][Len(w[c]) + 1] = q
      /\ \A i \in 1..Len(w[c]) : v[c][i] = w[c][i]
      /\ Len(w[c]) \in Nat
  BY <1>1, <1>2
<1>4. \A d \in Conns : \A i \in 1..Len(v[d]) :
        \/ i \in 1..Len(w[d]) /\ v[d][i] = w[d][i]
        \/ d = c /\ i = Len(w[c]) + 1 /\ v[d][i] = q
  <2> SUFFICES ASSUME NEW d \in Conns, NEW i \in 1..Len(v[d])
               PROVE  \/ i \in 1..Len(w[d]) /\ v[d][i] = w[d][i]
                      \/ d = c /\ i = Len(w[c]) + 1 /\ v[d][i] = q
    OBVIOUS
  <2>1. CASE d = c
    BY <2>1, <1>3
  <2>2. CASE d # c
    BY <2>2, <1>1
  <2> QED BY <2>1, <2>2
<1>5. ASSUME NEW x \in Owners, Sends(v, x)
      PROVE  Sends(w, x) \/ x = q.owner
  BY <1>4, <1>5 DEF Sends
<1>6. OnePerOwner(v)
  <2> SUFFICES ASSUME NEW d \in Conns, NEW e \in Conns,
                      NEW i \in 1..Len(v[d]), NEW j \in 1..Len(v[e]),
                      v[d][i].owner = v[e][j].owner
               PROVE  d = e /\ i = j
    BY DEF OnePerOwner
  <2>1. CASE i \in 1..Len(w[d]) /\ v[d][i] = w[d][i]
    <3>1. Sends(w, v[e][j].owner)
      BY <2>1 DEF Sends
    <3>2. j \in 1..Len(w[e]) /\ v[e][j] = w[e][j]
      BY <3>1, <1>4
    <3> QED BY <2>1, <3>2 DEF OnePerOwner
  <2>2. CASE d = c /\ i = Len(w[c]) + 1 /\ v[d][i] = q
    <3>1. ~(j \in 1..Len(w[e]) /\ v[e][j] = w[e][j])
      BY <2>2 DEF Sends
    <3> QED BY <2>2, <3>1, <1>4
  <2> QED BY <2>1, <2>2, <1>4
<1>7. v[c] # <<>> /\ v[c][Len(v[c])] = q
  <2>1. v[c] \in Seq(Queries)
    BY <1>1
  <2> QED BY <2>1, <1>3
<1>8. ASSUME NEW p \in Queries, OnWire(v, p)
      PROVE  OnWire(w, p) \/ p = q
  BY <1>4, <1>8 DEF OnWire
<1> QED BY <1>1, <1>5, <1>6, <1>7, <1>8 DEF Appended

\* The wires v are w without the oldest query of c.
Popped(v, w, c) ==
  /\ v \in [Conns -> Seq(Queries)] /\ OnePerOwner(v)
  /\ Head(w[c]) \in Queries /\ Sends(w, Head(w[c]).owner) /\ OnWire(w, Head(w[c]))
  /\ \A d \in Conns : d # c => v[d] = w[d]
  /\ \A x \in Owners : Sends(v, x) => (Sends(w, x) /\ x # Head(w[c]).owner)
  /\ \A p \in Queries : OnWire(v, p) => OnWire(w, p)
  /\ Head(w[c]).owner = w[c][Len(w[c])].owner => v[c] = <<>>
  /\ Head(w[c]).owner # w[c][Len(w[c])].owner =>
       v[c] # <<>> /\ v[c][Len(v[c])] = w[c][Len(w[c])]

LEMMA WirePop ==
  ASSUME NEW w \in [Conns -> Seq(Queries)], OnePerOwner(w), NEW c \in Conns, w[c] # <<>>,
         NEW v, v = [w EXCEPT ![c] = Tail(@)]
  PROVE  Popped(v, w, c)
<1>1. /\ v \in [Conns -> Seq(Queries)] /\ v[c] = Tail(w[c])
      /\ \A d \in Conns : d # c => v[d] = w[d]
  OBVIOUS
<1>2. w[c] \in Seq(Queries)
  OBVIOUS
<1>3. /\ Len(w[c]) \in Nat /\ Len(w[c]) >= 1 /\ Len(v[c]) = Len(w[c]) - 1
      /\ \A i \in 1..Len(v[c]) : v[c][i] = w[c][i + 1]
      /\ Head(w[c]) = w[c][1] /\ Head(w[c]) \in Queries
  BY <1>1, <1>2
<1>4. \A d \in Conns : \A i \in 1..Len(v[d]) :
        IF d = c THEN i + 1 \in 1..Len(w[d]) /\ v[d][i] = w[d][i + 1]
        ELSE i \in 1..Len(w[d]) /\ v[d][i] = w[d][i]
  <2> SUFFICES ASSUME NEW d \in Conns, NEW i \in 1..Len(v[d])
               PROVE  IF d = c THEN i + 1 \in 1..Len(w[d]) /\ v[d][i] = w[d][i + 1]
                      ELSE i \in 1..Len(w[d]) /\ v[d][i] = w[d][i]
    OBVIOUS
  <2>1. CASE d = c
    BY <2>1, <1>3
  <2>2. CASE d # c
    BY <2>2, <1>1
  <2> QED BY <2>1, <2>2
<1>5. OnePerOwner(v)
  <2> SUFFICES ASSUME NEW d \in Conns, NEW e \in Conns,
                      NEW i \in 1..Len(v[d]), NEW j \in 1..Len(v[e]),
                      v[d][i].owner = v[e][j].owner
               PROVE  d = e /\ i = j
    BY DEF OnePerOwner
  <2>1. PICK k \in 1..Len(w[d]) : v[d][i] = w[d][k] /\ k = IF d = c THEN i + 1 ELSE i
    BY <1>4
  <2>2. PICK l \in 1..Len(w[e]) : v[e][j] = w[e][l] /\ l = IF e = c THEN j + 1 ELSE j
    BY <1>4
  <2>3. d = e /\ k = l
    BY <2>1, <2>2 DEF OnePerOwner
  <2> QED BY <2>1, <2>2, <2>3
<1>6. Sends(w, Head(w[c]).owner)
  BY <1>3 DEF Sends
<1>7. ASSUME NEW x \in Owners, Sends(v, x)
      PROVE  Sends(w, x) /\ x # Head(w[c]).owner
  <2>1. PICK d \in Conns : \E i \in 1..Len(v[d]) : v[d][i].owner = x
    BY <1>7 DEF Sends
  <2>2. PICK i \in 1..Len(v[d]) : v[d][i].owner = x
    BY <2>1
  <2>3. PICK k \in 1..Len(w[d]) : w[d][k].owner = x /\ (d = c => k # 1)
    <3>1. CASE d = c
      <4>1. i + 1 \in 1..Len(w[d]) /\ v[d][i] = w[d][i + 1] /\ i + 1 # 1
        BY <1>4, <3>1
      <4> QED BY <2>2, <4>1
    <3>2. CASE d # c
      BY <1>4, <2>2, <3>2
    <3> QED BY <3>1, <3>2
  <2>4. 1 \in 1..Len(w[c])
    BY <1>3
  <2> QED BY <2>3, <2>4, <1>3 DEF Sends, OnePerOwner
<1>8. ASSUME Head(w[c]).owner = w[c][Len(w[c])].owner
      PROVE  v[c] = <<>>
  <2>1. 1 \in 1..Len(w[c]) /\ Len(w[c]) \in 1..Len(w[c])
    BY <1>3
  <2>2. w[c][1].owner = w[c][Len(w[c])].owner
    BY <1>8, <1>3
  <2>3. Len(w[c]) = 1
    <3>1. \A i, j \in 1..Len(w[c]) : w[c][i].owner = w[c][j].owner => i = j
      BY DEF OnePerOwner
    <3> QED BY <2>1, <2>2, <3>1, Zenon
  <2> QED BY <2>3, <1>1, <1>3
<1>9. ASSUME Head(w[c]).owner # w[c][Len(w[c])].owner
      PROVE  v[c] # <<>> /\ v[c][Len(v[c])] = w[c][Len(w[c])]
  <2>1. Len(w[c]) # 1
    BY <1>9, <1>3
  <2>2. Len(v[c]) # 0 /\ v[c][Len(v[c])] = w[c][Len(w[c])]
    BY <2>1, <1>3
  <2> QED BY <2>2
<1>10. OnWire(w, Head(w[c]))
  <2>1. 1 \in 1..Len(w[c])
    BY <1>3
  <2> QED BY <1>3, <2>1 DEF OnWire
<1>11. ASSUME NEW p \in Queries, OnWire(v, p)
       PROVE  OnWire(w, p)
  <2>1. PICK d \in Conns : \E i \in 1..Len(v[d]) : v[d][i] = p
    BY <1>11 DEF OnWire
  <2>2. PICK i \in 1..Len(v[d]) : v[d][i] = p
    BY <2>1
  <2>3. \E k \in 1..Len(w[d]) : w[d][k] = p
    BY <1>4, <2>2
  <2> QED BY <2>3 DEF OnWire
<1> QED BY <1>1, <1>3, <1>5, <1>6, <1>7, <1>8, <1>9, <1>10, <1>11 DEF Popped

\* The wires v are w without the queries of c, if it is a connection.
Cleared(v, w, c) ==
  /\ v \in [Conns -> Seq(Queries)] /\ OnePerOwner(v)
  /\ \A d \in Conns : v[d] = IF d = c THEN <<>> ELSE w[d]
  /\ \A x \in Owners : Sends(v, x) =>
       (Sends(w, x) /\ (c \in Conns => x \notin Lost(w, c)))
  /\ \A p \in Queries : OnWire(v, p) => OnWire(w, p)

LEMMA WireClear ==
  ASSUME NEW w \in [Conns -> Seq(Queries)], OnePerOwner(w), NEW c,
         NEW v, v = [d \in Conns |-> IF d = c THEN <<>> ELSE w[d]]
  PROVE  Cleared(v, w, c)
<1>1. v \in [Conns -> Seq(Queries)]
  OBVIOUS
<1>2. \A d \in Conns : \A i \in 1..Len(v[d]) : d # c /\ i \in 1..Len(w[d]) /\ v[d][i] = w[d][i]
  OBVIOUS
<1>3. OnePerOwner(v)
  <2> SUFFICES ASSUME NEW d \in Conns, NEW e \in Conns,
                      NEW i \in 1..Len(v[d]), NEW j \in 1..Len(v[e]),
                      v[d][i].owner = v[e][j].owner
               PROVE  d = e /\ i = j
    BY DEF OnePerOwner
  <2>1. i \in 1..Len(w[d]) /\ v[d][i] = w[d][i] /\ j \in 1..Len(w[e]) /\ v[e][j] = w[e][j]
    BY <1>2
  <2> QED BY <2>1 DEF OnePerOwner
<1>4. ASSUME NEW x \in Owners, Sends(v, x)
      PROVE  Sends(w, x) /\ (c \in Conns => x \notin Lost(w, c))
  <2>1. PICK d \in Conns : d # c /\ \E i \in 1..Len(w[d]) : w[d][i].owner = x
    BY <1>2, <1>4 DEF Sends
  <2>2. Sends(w, x)
    BY <2>1 DEF Sends
  <2>3. ASSUME c \in Conns, x \in Lost(w, c)
        PROVE  FALSE
    <3>1. PICK j \in DOMAIN w[c] : w[c][j].owner = x
      BY <2>3 DEF ToSet, Lost
    <3>2. j \in 1..Len(w[c])
      BY <3>1, <2>3
    <3> QED BY <2>1, <2>3, <3>1, <3>2 DEF OnePerOwner
  <2> QED BY <2>2, <2>3
<1>5. \A p \in Queries : OnWire(v, p) => OnWire(w, p)
  BY <1>2 DEF OnWire
<1> QED BY <1>1, <1>3, <1>4, <1>5 DEF Cleared

-----------------------------------------------------------------------------
\* What a connect task leaves when it settles.
LEMMA ConnectSettlesFacts ==
  ASSUME NEW result, NEW rs, ConnectSettles(result, rs)
  PROVE  connecting' = "none" /\ awaiting' = {}
         /\ reply' = [x \in Owners |-> IF x \in awaiting THEN result
                                       ELSE IF x = "connect" THEN "none" ELSE rs[x]]
BY DEF ConnectSettles

(***************************************************************************)
(* A connection that is checked out is the hub's or, once close() has      *)
(* taken it, the one close() returns (notifications.ts:141-171, 204-284).  *)
(***************************************************************************)
LEMMA ConnStep ==
  ASSUME HubInv, [HubNext]_vars
  PROVE  ConnOK'
<1> USE HubAssumption DEF HubInv, ConnOK, ConnectionsAreOwned
<1>1. CASE \/ UNCHANGED vars
           \/ \E s \in Subs : \/ ListenSends(s) \/ ListenReturns(s) \/ ListenFails(s)
                            \/ CloseSubscription(s) \/ Unlistened(s) \/ UnlistenCrashes(s)
           \/ TimerEnds \/ ConnectSucceeds \/ CheckoutFails
           \/ \E ch \in Channels : ConnectReissues(ch)
           \/ \E c \in Conns : ServerAnswers(c) \/ ServerRefuses(c)
  <2>1. UNCHANGED <<client, closerConn, granted, alive, held, closer>>
        /\ connecting' \in {connecting, "none"}
    BY <1>1 DEF vars, ListenSends, ListenReturns, ListenFails, CloseSubscription, Unlistened,
       UnlistenCrashes, TimerEnds, ConnectSucceeds, CheckoutFails, ConnectReissues,
       ServerAnswers, ServerRefuses, ConnectSettles, connVars, netVars
  <2> QED BY <2>1
<1>2. ASSUME NEW s \in Subs, NEW ch \in Channels, Listen(s, ch)
      PROVE  ConnOK'
  <2>1. UNCHANGED <<client, closerConn, granted, alive, held, closer>> /\ closer = "none"
        /\ (connecting' = connecting \/ (connecting' = "checkout" /\ client = None))
    BY <1>2 DEF Listen, EnsureConnected, netVars, closing
  <2> QED BY <2>1
<1>3. CASE TimerFires
  <2>1. UNCHANGED <<client, closerConn, granted, alive, held, closer>> /\ closer = "none"
        /\ (connecting' = connecting \/ (connecting' = "checkout" /\ client = None))
    BY <1>3 DEF TimerFires, EnsureConnected, netVars, closing, TimerOK
  <2> QED BY <2>1
<1>4. CASE Checkout
  <2>1. granted' = granted + 1 /\ granted' \in Conns /\ granted' \in 0..MaxConns
        /\ UNCHANGED <<closer, closerConn>> /\ client = None
    BY <1>4 DEF Checkout, Conns
  <2>2. CASE closing
    BY <1>4, <2>1, <2>2 DEF Checkout, ConnectSettles
  <2>3. CASE ~closing
    <3>1. client' = granted' /\ held' = held \cup {granted'} /\ alive' = alive \cup {granted'}
          /\ connecting' = "listening" /\ closer = "none"
      BY <1>4, <2>3 DEF Checkout, closing
    <3> QED BY <2>1, <3>1
  <2> QED BY <2>2, <2>3
<1>5. CASE ConnectFails
  <2>1. client' = None /\ held' = held \ {client} /\ alive' = alive \ {client}
        /\ connecting' = "none" /\ UNCHANGED <<closer, closerConn, granted>>
    BY <1>5 DEF ConnectFails, SessionEnds, ConnectSettles
  <2> QED BY <2>1
<1>6. ASSUME NEW s \in Subs, UnlistenDrops(s)
      PROVE  ConnOK'
  <2>1. client' = None /\ held' = held \ {client} /\ alive' = alive \ {client}
        /\ UNCHANGED <<closer, closerConn, granted, connecting>>
    BY <1>6 DEF UnlistenDrops, Drop, SessionEnds, connVars
  <2> QED BY <2>1
<1>7. ASSUME NEW c \in Conns, ConnectionLost(c)
      PROVE  ConnOK'
  <2>1. alive' = alive \ {c} /\ UNCHANGED <<closer, closerConn, granted, connecting>>
    BY <1>7 DEF ConnectionLost, SessionEnds, connVars
  <2>2. \/ UNCHANGED <<client, held>>
        \/ client' = None /\ held' = held \ {client}
    BY <1>7 DEF ConnectionLost, Drop
  <2> QED BY <2>1, <2>2
<1>8. CASE Close
  <2>1. UNCHANGED <<client, closerConn, granted, alive, held, connecting>>
        /\ closer = "none" /\ closer' = "connecting"
    BY <1>8 DEF Close, connVars, netVars
  <2> QED BY <2>1
<1>9. CASE CloseUnlistens
  <2>1. client' = None /\ closerConn' = client /\ closer' = "unlistening"
        /\ closer = "connecting" /\ reply["close"] # "none" /\ client # None
        /\ UNCHANGED <<granted, alive, held, connecting>>
    BY <1>9 DEF CloseUnlistens, connVars, netVars
  <2>2. connecting = "none"
    BY <2>1 DEF ReplyOK
  <2> QED BY <2>1, <2>2
<1>10. CASE CloseEnds
  <2>1. closer' = "done" /\ held' = held \ {closerConn} /\ closerConn' = None
        /\ UNCHANGED <<client, granted, alive, connecting>> /\ reply["close"] # "none"
        /\ ((closer = "connecting" /\ client = None) \/ closer = "unlistening")
    BY <1>10 DEF CloseEnds, CloseEverySubscription, connVars, netVars
  <2>2. connecting = "none" /\ client = None
    BY <2>1 DEF ReplyOK
  <2> QED BY <2>1, <2>2
<1> QED BY <1>1, <1>2, <1>3, <1>4, <1>5, <1>6, <1>7, <1>8, <1>9, <1>10
        DEF HubNext, ListenStep, RemoveStep, ConnectStep, CloseStep

(***************************************************************************)
(* Nothing schedules a reconnect once close() was called                   *)
(* (notifications.ts:236-262).                                             *)
(***************************************************************************)
LEMMA TimerStep ==
  ASSUME TimerOK, [HubNext]_vars
  PROVE  TimerOK'
<1> USE DEF TimerOK, closing
<1>1. CASE \/ UNCHANGED vars
           \/ \E s \in Subs, ch \in Channels : Listen(s, ch)
           \/ \E s \in Subs : ListenStep(s) \/ CloseSubscription(s) \/ Unlistened(s)
                            \/ UnlistenCrashes(s)
           \/ Checkout \/ CheckoutFails \/ ConnectStep \/ CloseUnlistens
           \/ \E c \in Conns : ServerAnswers(c) \/ ServerRefuses(c)
  <2>1. UNCHANGED timer /\ (closer' = "none" <=> closer = "none")
    BY <1>1 DEF vars, Listen, ListenStep, ListenSends, ListenReturns, ListenFails,
       CloseSubscription, Unlistened, UnlistenCrashes, Checkout, CheckoutFails, ConnectStep,
       ConnectReissues, ConnectSucceeds, ConnectFails, CloseUnlistens, ServerAnswers,
       ServerRefuses
  <2> QED BY <2>1
<1>2. CASE \/ \E s \in Subs : UnlistenDrops(s)
           \/ \E c \in Conns : ConnectionLost(c)
  BY <1>2 DEF UnlistenDrops, ConnectionLost, Drop, Scheduled
<1>3. CASE TimerFires \/ TimerEnds \/ Close \/ CloseEnds
  <2>1. \/ timer' = FALSE
        \/ timer' = timer /\ (closer' = closer \/ closing)
        \/ timer' \in BOOLEAN /\ closer = "none" /\ closer' = closer
    BY <1>3 DEF TimerFires, TimerEnds, Retry, Scheduled, Close, CloseEnds,
       CloseEverySubscription
  <2>2. CASE timer' = FALSE
    BY <2>2
  <2>3. CASE timer' = timer /\ (closer' = closer \/ closing)
    BY <2>3
  <2>4. CASE timer' \in BOOLEAN /\ closer = "none" /\ closer' = closer
    BY <2>4
  <2> QED BY <2>1, <2>2, <2>3, <2>4
<1> QED BY <1>1, <1>2, <1>3 DEF HubNext, RemoveStep, CloseStep

\* What becomes of a subscription that leaves the map.
LEMMA RemoveSubFacts ==
  ASSUME EntriesOK, NEW s \in Subs, NEW while \in TaskStates, NEW after \in TaskStates,
         RemoveSub(s, while, after)
  PROVE  /\ entries' = entries \ {s} /\ sub' = [sub EXCEPT ![s] = "closed"]
         /\ task' \in {[task EXCEPT ![s] = while], [task EXCEPT ![s] = after]}
         /\ listened' \subseteq listened
BY DEF RemoveSub

(***************************************************************************)
(* A subscription is in the map until it closes, and no step but the       *)
(* answer to its own LISTEN opens one (notifications.ts:88-171).           *)
(***************************************************************************)
LEMMA EntriesStep ==
  ASSUME HubInv, [HubNext]_vars
  PROVE  EntriesOK'
<1> USE DEF HubInv, EntriesOK, SubStates
<1>1. CASE \/ UNCHANGED vars
           \/ TimerFires \/ TimerEnds \/ Close
           \/ Checkout \/ CheckoutFails \/ ConnectFails \/ CloseUnlistens
           \/ \E c \in Conns : ServerAnswers(c) \/ ServerRefuses(c)
  <2>1. UNCHANGED <<sub, entries, task, chan>> /\ (closer' = "done" <=> closer = "done")
        /\ (closer = "done" => UNCHANGED listened)
    BY <1>1 DEF vars, subVars, TimerFires, TimerEnds, Checkout, closing, CheckoutFails,
       ConnectFails, Close, CloseUnlistens, ServerAnswers, ServerRefuses, ConnOK
  <2> QED BY <2>1
<1>2. ASSUME NEW s \in Subs, NEW ch \in Channels, Listen(s, ch)
      PROVE  EntriesOK'
  <2>1. entries' = entries \cup {s} /\ sub' = [sub EXCEPT ![s] = "connecting"]
        /\ task' = [task EXCEPT ![s] = "connecting"] /\ UNCHANGED closer /\ closer = "none"
        /\ chan' = [chan EXCEPT ![s] = ch]
    BY <1>2 DEF Listen, closing
  <2> QED BY <2>1 DEF TaskStates
<1>3. ASSUME NEW s \in Subs, ListenSends(s)
      PROVE  EntriesOK'
  BY <1>3 DEF ListenSends, TaskStates
<1>4. ASSUME NEW s \in Subs, ListenReturns(s)
      PROVE  EntriesOK'
  <2>1. sub' = [sub EXCEPT ![s] = "connected"] /\ task' = [task EXCEPT ![s] = "open"]
        /\ UNCHANGED <<entries, closer, chan>>
    BY <1>4 DEF ListenReturns, Opened
  <2>2. closer # "done"
    BY <1>4 DEF ListenReturns, AnsweredOK, Answered
  <2>3. s \in entries
    BY <1>4, <2>2 DEF ListenReturns
  <2> QED BY <2>1, <2>2, <2>3 DEF TaskStates
<1>5. ASSUME NEW s \in Subs, ListenFails(s) \/ CloseSubscription(s)
      PROVE  EntriesOK'
  <2>1. PICK while \in {"abandoning", "unlistening"}, after \in {"failed", "closed"} :
          RemoveSub(s, while, after)
    BY <1>5 DEF ListenFails, CloseSubscription
  <2>2. /\ entries' = entries \ {s} /\ sub' = [sub EXCEPT ![s] = "closed"]
        /\ task' \in {[task EXCEPT ![s] = while], [task EXCEPT ![s] = after]}
        /\ listened' \subseteq listened
    BY <2>1, RemoveSubFacts DEF TaskStates
  <2>3. UNCHANGED <<closer, chan>> /\ task[s] # "idle"
    BY <1>5 DEF ListenFails, CloseSubscription
  <2> QED BY <2>2, <2>3 DEF TaskStates
<1>6. ASSUME NEW s \in Subs, RemoveStep(s)
      PROVE  EntriesOK'
  <2>1. PICK state \in {"failed", "closed", "crashed"} : task' = [task EXCEPT ![s] = state]
    BY <1>6 DEF RemoveStep, Unlistened, UnlistenDrops, UnlistenCrashes, AfterRemoval
  <2>2. Removing(s) /\ UNCHANGED <<entries, closer, chan>> /\ listened' \subseteq listened
        /\ (UNCHANGED sub \/ sub' = SetStates(entries, "reconnecting"))
    BY <1>6 DEF RemoveStep, Unlistened, UnlistenDrops, UnlistenCrashes, Drop
  <2> QED BY <2>1, <2>2 DEF TaskStates, Removing, SetStates
<1>7. CASE (\E ch \in Channels : ConnectReissues(ch)) \/ ConnectSucceeds
  <2>1. UNCHANGED <<entries, task, closer, chan>> /\ closer # "done"
        /\ (UNCHANGED sub \/ sub' = SetStates(entries, "connected"))
    BY <1>7 DEF ConnectReissues, ConnectSucceeds, subVars, ConnOK
  <2> QED BY <2>1 DEF SetStates
<1>8. ASSUME NEW c \in Conns, ConnectionLost(c)
      PROVE  EntriesOK'
  <2>1. UNCHANGED <<entries, task, closer, chan>> /\ listened' \in {listened, {}}
        /\ (UNCHANGED sub \/ sub' = SetStates(entries, "reconnecting"))
    BY <1>8 DEF ConnectionLost, Drop
  <2> QED BY <2>1 DEF SetStates
<1>9. CASE CloseEnds
  <2>1. entries' = {} /\ sub' = SetStates(entries, "closed") /\ listened' = {}
        /\ closer' = "done" /\ UNCHANGED <<task, chan>>
    BY <1>9 DEF CloseEnds, CloseEverySubscription
  <2> QED BY <2>1 DEF SetStates
<1> QED BY <1>1, <1>2, <1>3, <1>4, <1>5, <1>6, <1>7, <1>8, <1>9
        DEF HubNext, ListenStep, ConnectStep, CloseStep

-----------------------------------------------------------------------------
\* A query of x is sent on c if c works, and rejected at once otherwise.
Asked(x, c, command, ch) ==
  /\ ~Sends(wire, x)
  /\ reply' \in [Owners -> {"none", "ok", "err"}]
  /\ \A y \in Owners : y # x => reply'[y] = reply[y]
  /\ wire' \in [Conns -> Seq(Queries)] /\ OnePerOwner(wire')
  /\ \A d \in Conns : d # c => wire'[d] = wire[d]
  /\ \A y \in Owners : Sends(wire', y) => (Sends(wire, y) \/ (y = x /\ c \in alive))
  /\ \A p \in Queries : OnWire(wire', p) =>
       (OnWire(wire, p) \/ p = [cmd |-> command, ch |-> ch, owner |-> x])
  /\ c \in alive => /\ reply'[x] = "none" /\ wire'[c] # <<>>
                    /\ wire'[c][Len(wire'[c])].owner = x
  /\ c \notin alive => reply'[x] = "err" /\ wire' = wire

LEMMA QueryFacts ==
  ASSUME WireOK, ReplyOK, NEW x \in Owners \ {"timer"}, ~Sends(wire, x), NEW c \in Conns,
         NEW command \in {"listen", "unlisten", "unlistenAll"},
         NEW ch \in Channels \cup {None}, command = "listen" => ch \in Channels,
         Query(x, c, command, ch)
  PROVE  Asked(x, c, command, ch)
<1> DEFINE q == [cmd |-> command, ch |-> ch, owner |-> x]
<1>1. CASE c \in alive
  <2>1. wire' = [wire EXCEPT ![c] = Append(@, q)] /\ reply' = [reply EXCEPT ![x] = "none"]
    BY <1>1 DEF Query, Consumed
  <2>2. q \in Queries /\ q.owner = x
    BY DEF Queries
  <2> HIDE DEF q
  <2>3. wire \in [Conns -> Seq(Queries)] /\ OnePerOwner(wire) /\ ~Sends(wire, q.owner)
    BY <2>2 DEF WireOK
  <2>4. Appended(wire', wire, c, q)
    BY <2>1, <2>2, <2>3, WireAppend
  <2> QED BY <1>1, <2>1, <2>2, <2>4 DEF ReplyOK, Appended, Asked, q
<1>2. CASE c \notin alive
  <2>1. wire' = wire /\ reply' = [reply EXCEPT ![x] = "err"]
    BY <1>2 DEF Query, Settled
  <2> QED BY <1>2, <2>1 DEF WireOK, ReplyOK, Asked
<1> QED BY <1>1, <1>2

\* The replies r are rs with whoever waits for a query on c rejected.
RejectedOn(r, rs, c) ==
  /\ r \in [Owners -> {"none", "ok", "err"}]
  /\ \A x \in Owners : x \in Lost(wire, c) => r[x] = "err" /\ Sends(wire, x)
  /\ \A x \in Owners : x \notin Lost(wire, c) => r[x] = rs[x]

LEMMA RejectedFacts ==
  ASSUME WireOK, NEW rs \in [Owners -> {"none", "ok", "err"}], NEW c \in Conns
  PROVE  RejectedOn(Rejected(rs, c), rs, c)
<1> DEFINE lost == {q.owner : q \in ToSet(wire[c])}
<1>1. Rejected(rs, c) = [x \in Owners |-> IF x \in lost THEN "err" ELSE rs[x]]
  BY DEF Rejected
<1>2. \A x \in lost : Sends(wire, x)
  <2> SUFFICES ASSUME NEW x \in lost PROVE Sends(wire, x)
    OBVIOUS
  <2>1. PICK j \in DOMAIN wire[c] : wire[c][j].owner = x
    BY DEF ToSet
  <2>2. j \in 1..Len(wire[c])
    BY <2>1 DEF WireOK
  <2> QED BY <2>1, <2>2 DEF Sends
<1> HIDE DEF lost
<1> QED BY <1>1, <1>2 DEF lost, Lost, RejectedOn

\* remove(): an UNLISTEN for s, on the connection of the hub, or nothing.
LEMMA RemoveSubReplies ==
  ASSUME HubInv, NEW s \in Subs, NEW while \in TaskStates, NEW after \in TaskStates,
         RemoveSub(s, while, after), ~Sends(wire, s)
  PROVE  \/ /\ task' = [task EXCEPT ![s] = while]
            /\ client \in Conns /\ Asked(s, client, "unlisten", chan[s])
         \/ /\ task' = [task EXCEPT ![s] = after]
            /\ reply' = [reply EXCEPT ![s] = "none"] /\ wire' = wire
<1> USE HubAssumption DEF HubInv, ConnOK, EntriesOK
<1>1. CASE task' = [task EXCEPT ![s] = while] /\ client # None
           /\ Query(s, client, "unlisten", chan[s])
  <2>1. s \in Owners \ {"timer"} /\ client \in Conns /\ chan[s] \in Channels \cup {None}
    BY <1>1 DEF Owners
  <2>2. Asked(s, client, "unlisten", chan[s])
    BY <1>1, <2>1, QueryFacts
  <2> QED BY <1>1, <2>1, <2>2
<1>2. CASE task' = [task EXCEPT ![s] = after] /\ reply' = Consumed(reply, s) /\ wire' = wire
  BY <1>2 DEF Consumed
<1> QED BY <1>1, <1>2 DEF RemoveSub

(***************************************************************************)
(* The steps that leave alone who awaits the connect task, and let one     *)
(* owner's reply settle or be consumed, or reject queries.                 *)
(***************************************************************************)
LEMMA ReplyFrame ==
  ASSUME ReplyOK, UNCHANGED awaiting, task' \in [Subs -> TaskStates],
         connecting' = connecting, closer' = closer,
         NEW x \in Owners, x \notin Subs \cap awaiting,
         reply' \in [Owners -> {"none", "ok", "err"}],
         \A y \in Owners : reply'[y] = reply[y] \/ y = x \/ Sends(wire, y),
         WireOK,
         \A s \in Subs : s # x => task'[s] = task[s],
         x = "connect" => connecting = "listening",
         x = "close" => reply'["close"] = "none" \/ closer \in {"unlistening", "done"}
  PROVE  ReplyOK'
<1> USE HubAssumption DEF ReplyOK, WireOK, Owners
<1>1. \A s \in Subs \cap awaiting : s # x /\ ~Sends(wire, s)
  OBVIOUS
<1>2. \A s \in Subs \cap awaiting : task'[s] = "connecting" /\ reply'[s] = "none"
  BY <1>1
<1>3. closer \in {"none", "connecting"} => ~Sends(wire, "close")
  OBVIOUS
<1>4. connecting # "listening" => ~Sends(wire, "connect")
  OBVIOUS
<1> QED BY <1>2, <1>3, <1>4

LEMMA ReplySettles ==
  ASSUME ReplyOK, WireOK, NEW rs \in [Owners -> {"none", "ok", "err"}],
         \A y \in Owners : rs[y] = reply[y] \/ Sends(wire, y),
         NEW result \in {"ok", "err"}, ConnectSettles(result, rs), UNCHANGED <<closer, task>>
  PROVE  ReplyOK'
<1> USE HubAssumption DEF ReplyOK, WireOK, Owners
<1>1. connecting' = "none" /\ awaiting' = {}
      /\ reply' = [x \in Owners |-> IF x \in awaiting THEN result
                                    ELSE IF x = "connect" THEN "none" ELSE rs[x]]
  BY ConnectSettlesFacts
<1>2. closer = "none" => "close" \notin awaiting /\ ~Sends(wire, "close")
  OBVIOUS
<1> QED BY <1>1, <1>2

LEMMA ReplyStep ==
  ASSUME HubInv, [HubNext]_vars
  PROVE  ReplyOK'
<1> USE HubAssumption DEF HubInv
<1>1. CASE UNCHANGED vars
  BY <1>1 DEF vars, subVars, connVars, ReplyOK
<1>2. ASSUME NEW s \in Subs, NEW ch \in Channels, Listen(s, ch)
      PROVE  ReplyOK'
  <2>1. task[s] = "idle" /\ task' = [task EXCEPT ![s] = "connecting"] /\ closer = "none"
        /\ UNCHANGED closer
    BY <1>2 DEF Listen, closing
  <2>2. CASE client # None
    <3>1. reply' = [reply EXCEPT ![s] = "ok"] /\ UNCHANGED <<awaiting, connecting>>
      BY <1>2, <2>2 DEF Listen, EnsureConnected, Settled
    <3> QED BY <2>1, <3>1 DEF ReplyOK, EntriesOK, Owners
  <2>3. CASE client = None
    <3>1. reply' = [reply EXCEPT ![s] = "none"] /\ awaiting' = awaiting \cup {s}
          /\ connecting' = (IF connecting = "none" THEN "checkout" ELSE connecting)
      BY <1>2, <2>3 DEF Listen, EnsureConnected, Consumed
    <3> QED BY <2>1, <3>1 DEF ReplyOK, EntriesOK, Owners
  <2> QED BY <2>2, <2>3
<1>3. ASSUME NEW s \in Subs, ListenSends(s)
      PROVE  ReplyOK'
  <2>1. task[s] = "connecting" /\ task' = [task EXCEPT ![s] = "listening"] /\ reply[s] = "ok"
        /\ client # None /\ Query(s, client, "listen", chan[s])
        /\ UNCHANGED <<awaiting, connecting, closer>>
    BY <1>3 DEF ListenSends, connVars
  <2>2. s \in Owners \ {"timer"} /\ client \in Conns /\ chan[s] \in Channels
        /\ ~Sends(wire, s) /\ s \notin awaiting
    BY <2>1 DEF Owners, ConnOK, EntriesOK, WireOK, ReplyOK
  <2>3. Asked(s, client, "listen", chan[s])
    BY <2>1, <2>2, QueryFacts
  <2>4. task' \in [Subs -> TaskStates] /\ \A o \in Subs : o # s => task'[o] = task[o]
    BY <2>1 DEF EntriesOK, TaskStates
  <2>5. s # "connect" /\ s # "close"
    OBVIOUS
  <2> QED BY <2>1, <2>2, <2>3, <2>4, <2>5, ReplyFrame DEF Asked
<1>4. ASSUME NEW s \in Subs, ListenReturns(s) \/ Unlistened(s) \/ UnlistenCrashes(s)
      PROVE  ReplyOK'
  <2>1. reply[s] # "none" /\ reply' = [reply EXCEPT ![s] = "none"]
        /\ UNCHANGED <<awaiting, connecting, closer>>
    BY <1>4 DEF ListenReturns, Opened, Unlistened, UnlistenCrashes, Consumed, connVars
  <2>2. PICK state \in {"open", "failed", "closed", "crashed"} :
          task' = [task EXCEPT ![s] = state]
    BY <1>4 DEF ListenReturns, Opened, Unlistened, UnlistenCrashes, AfterRemoval
  <2>3. s \in Owners /\ s \notin awaiting /\ s # "connect" /\ s # "close"
        /\ reply' \in [Owners -> {"none", "ok", "err"}]
        /\ \A y \in Owners : y # s => reply'[y] = reply[y]
    BY <2>1 DEF Owners, ReplyOK
  <2>4. task' \in [Subs -> TaskStates] /\ \A o \in Subs : o # s => task'[o] = task[o]
    BY <2>2 DEF EntriesOK, TaskStates
  <2> QED BY <2>1, <2>3, <2>4, ReplyFrame
<1>5. ASSUME NEW s \in Subs, ListenFails(s) \/ CloseSubscription(s)
      PROVE  ReplyOK'
  <2>1. PICK while \in {"abandoning", "unlistening"}, after \in {"failed", "closed"} :
          RemoveSub(s, while, after)
    BY <1>5 DEF ListenFails, CloseSubscription
  <2>2. UNCHANGED <<awaiting, connecting, closer>> /\ (task[s] = "open" \/ reply[s] # "none")
    BY <1>5 DEF ListenFails, CloseSubscription
  <2>3. ~Sends(wire, s) /\ s \notin awaiting /\ s \in Owners /\ s # "connect" /\ s # "close"
    BY <2>2 DEF Owners, WireOK, ReplyOK
  <2>4. while \in TaskStates /\ after \in TaskStates
    BY DEF TaskStates
  <2>5. \/ task' = [task EXCEPT ![s] = while] /\ Asked(s, client, "unlisten", chan[s])
        \/ task' = [task EXCEPT ![s] = after] /\ reply' = [reply EXCEPT ![s] = "none"]
    BY <2>1, <2>3, <2>4, RemoveSubReplies
  <2>6. task' \in [Subs -> TaskStates] /\ \A o \in Subs : o # s => task'[o] = task[o]
    BY <2>4, <2>5 DEF EntriesOK
  <2>7. reply' \in [Owners -> {"none", "ok", "err"}]
        /\ \A y \in Owners : y # s => reply'[y] = reply[y]
    BY <2>3, <2>5 DEF ReplyOK, Asked
  <2> QED BY <2>2, <2>3, <2>6, <2>7, ReplyFrame
<1>6. ASSUME NEW s \in Subs, UnlistenDrops(s)
      PROVE  ReplyOK'
  <2>1. reply[s] # "none" /\ reply' = Rejected([reply EXCEPT ![s] = "none"], client)
        /\ client \in Conns /\ UNCHANGED <<awaiting, connecting, closer>>
    BY <1>6 DEF UnlistenDrops, Consumed, connVars, ConnOK
  <2>2. PICK state \in {"failed", "closed"} : task' = [task EXCEPT ![s] = state]
    BY <1>6 DEF UnlistenDrops, AfterRemoval
  <2>3. s \in Owners /\ s \notin awaiting /\ s # "connect" /\ s # "close"
        /\ [reply EXCEPT ![s] = "none"] \in [Owners -> {"none", "ok", "err"}]
    BY <2>1 DEF Owners, ReplyOK
  <2>4. RejectedOn(reply', [reply EXCEPT ![s] = "none"], client)
    BY <2>1, <2>3, RejectedFacts
  <2>5. reply' \in [Owners -> {"none", "ok", "err"}]
        /\ \A y \in Owners : reply'[y] = reply[y] \/ y = s \/ Sends(wire, y)
    BY <2>4 DEF RejectedOn, ReplyOK
  <2>6. task' \in [Subs -> TaskStates] /\ \A o \in Subs : o # s => task'[o] = task[o]
    BY <2>2 DEF EntriesOK, TaskStates
  <2> QED BY <2>1, <2>3, <2>5, <2>6, ReplyFrame
<1>7. ASSUME NEW ch \in Channels, ConnectReissues(ch)
      PROVE  ReplyOK'
  <2>1. connecting = "listening" /\ reply["connect"] = "ok"
        /\ client \in Conns /\ Query("connect", client, "listen", ch)
        /\ UNCHANGED <<task, awaiting, connecting, closer>>
    BY <1>7 DEF ConnectReissues, ConnOK, subVars
  <2>2. "connect" \in Owners \ {"timer"} /\ ~Sends(wire, "connect")
        /\ "connect" \notin Subs \cap awaiting
    BY <2>1 DEF Owners, WireOK
  <2>3. Asked("connect", client, "listen", ch)
    BY <2>1, <2>2, QueryFacts
  <2> QED BY <2>1, <2>2, <2>3, ReplyFrame DEF Asked, EntriesOK
<1>8. CASE ConnectSucceeds \/ CheckoutFails \/ (Checkout /\ closing)
  <2>1. PICK result \in {"ok", "err"} : ConnectSettles(result, reply)
    BY <1>8 DEF ConnectSucceeds, CheckoutFails, Checkout
  <2>2. UNCHANGED <<closer, task>> /\ reply \in [Owners -> {"none", "ok", "err"}]
    BY <1>8 DEF ConnectSucceeds, CheckoutFails, Checkout, subVars, ReplyOK
  <2> QED BY <2>1, <2>2, ReplySettles
<1>9. CASE Checkout /\ ~closing
  <2>1. reply' = [reply EXCEPT !["connect"] = "ok"] /\ connecting' = "listening"
        /\ connecting = "checkout" /\ UNCHANGED <<task, awaiting, closer>> /\ closer = "none"
    BY <1>9 DEF Checkout, Settled, closing, subVars
  <2> QED BY <2>1 DEF ReplyOK, Owners
<1>10. CASE ConnectFails
  <2>1. PICK rs \in {reply, Rejected(reply, client)} :
          ConnectSettles("err", rs) /\ (client = None => rs = reply)
    BY <1>10 DEF ConnectFails
  <2>2. UNCHANGED <<closer, task>> /\ reply \in [Owners -> {"none", "ok", "err"}]
    BY <1>10 DEF ConnectFails, subVars, ReplyOK
  <2>3. rs \in [Owners -> {"none", "ok", "err"}]
        /\ \A y \in Owners : rs[y] = reply[y] \/ Sends(wire, y)
    <3>1. CASE client = None
      BY <2>1, <2>2, <3>1
    <3>2. CASE client \in Conns
      <4>1. RejectedOn(Rejected(reply, client), reply, client)
        BY <2>2, <3>2, RejectedFacts
      <4> QED BY <2>1, <2>2, <4>1 DEF RejectedOn
    <3> QED BY <3>1, <3>2 DEF ConnOK
  <2> QED BY <2>1, <2>2, <2>3, ReplySettles
<1>11. CASE TimerFires
  <2>1. closer' = closer /\ closer = "none" /\ task' = task
    BY <1>11 DEF TimerFires, TimerOK, closing, subVars
  <2>2. CASE UNCHANGED <<awaiting, connecting, reply>>
    BY <2>1, <2>2 DEF ReplyOK
  <2>3. CASE client # None /\ EnsureConnected("timer")
    <3>1. reply' = [reply EXCEPT !["timer"] = "ok"] /\ UNCHANGED <<awaiting, connecting>>
      BY <2>3 DEF EnsureConnected, Settled
    <3> QED BY <2>1, <3>1 DEF ReplyOK, Owners
  <2>4. CASE client = None /\ EnsureConnected("timer")
    <3>1. reply' = [reply EXCEPT !["timer"] = "none"] /\ awaiting' = awaiting \cup {"timer"}
          /\ connecting' = (IF connecting = "none" THEN "checkout" ELSE connecting)
      BY <2>4 DEF EnsureConnected, Consumed
    <3> QED BY <2>1, <3>1 DEF ReplyOK, Owners
  <2> QED BY <1>11, <2>2, <2>3, <2>4 DEF TimerFires
<1>12. CASE TimerEnds
  <2>1. reply' = [reply EXCEPT !["timer"] = "none"]
        /\ UNCHANGED <<awaiting, connecting, closer, task>>
    BY <1>12 DEF TimerEnds, Consumed, subVars, connVars
  <2> QED BY <2>1 DEF ReplyOK, Owners
<1>13. CASE Close
  <2>1. closer = "none" /\ closer' = "connecting" /\ UNCHANGED <<connecting, task>>
        /\ \/ connecting = "none" /\ reply' = [reply EXCEPT !["close"] = "ok"]
              /\ awaiting' = awaiting
           \/ connecting # "none" /\ reply' = reply /\ awaiting' = awaiting \cup {"close"}
    BY <1>13 DEF Close, Settled, subVars, connVars
  <2> QED BY <2>1 DEF ReplyOK, Owners
<1>14. CASE CloseUnlistens
  <2>1. closer = "connecting" /\ reply["close"] # "none" /\ closer' = "unlistening"
        /\ client \in Conns /\ Query("close", client, "unlistenAll", None)
        /\ UNCHANGED <<awaiting, connecting, task>>
    BY <1>14 DEF CloseUnlistens, ConnOK, subVars, connVars
  <2>2. awaiting = {} /\ connecting = "none"
    BY <2>1 DEF ReplyOK
  <2>3. "close" \in Owners \ {"timer"} /\ ~Sends(wire, "close")
    BY <2>1 DEF Owners, WireOK
  <2>4. Asked("close", client, "unlistenAll", None)
    BY <2>1, <2>3, QueryFacts
  <2> QED BY <2>1, <2>2, <2>4 DEF ReplyOK, Asked, Owners
<1>15. CASE CloseEnds
  <2>1. closer \in {"connecting", "unlistening"} /\ reply["close"] # "none"
        /\ closer' = "done" /\ reply' = [reply EXCEPT !["close"] = "none"]
        /\ UNCHANGED <<awaiting, connecting, task>>
    BY <1>15 DEF CloseEnds, CloseEverySubscription, Consumed, connVars
  <2>2. "close" \notin awaiting
    BY <2>1 DEF ReplyOK
  <2> QED BY <2>1, <2>2 DEF ReplyOK, Owners
<1>16. ASSUME NEW c \in Conns, ServerAnswers(c) \/ ServerRefuses(c)
       PROVE  ReplyOK'
  <2>1. wire[c] # <<>> /\ wire' = [wire EXCEPT ![c] = Tail(@)]
        /\ UNCHANGED <<task, awaiting, connecting, closer>>
    BY <1>16 DEF ServerAnswers, ServerRefuses, subVars, connVars
  <2>2. PICK result \in {"ok", "err"} :
          reply' = [reply EXCEPT ![Head(wire[c]).owner] = result]
    BY <1>16 DEF ServerAnswers, ServerRefuses, Settled
  <2>3. Popped(wire', wire, c)
    BY <2>1, WirePop DEF WireOK
  <2>4. Head(wire[c]).owner \in Owners /\ Sends(wire, Head(wire[c]).owner)
    BY <2>3 DEF Popped, Queries
  <2>5. reply' \in [Owners -> {"none", "ok", "err"}]
        /\ \A y \in Owners : reply'[y] = reply[y] \/ y = Head(wire[c]).owner
    BY <2>2, <2>4 DEF ReplyOK
  <2>6. \A y \in Owners : Sends(wire, y) =>
          /\ y \notin Subs \cap awaiting
          /\ y = "connect" => connecting = "listening"
          /\ y = "close" => closer = "unlistening"
    BY DEF ReplyOK, WireOK
  <2> QED BY <2>1, <2>4, <2>5, <2>6, ReplyFrame DEF EntriesOK
<1>17. ASSUME NEW c \in Conns, ConnectionLost(c)
       PROVE  ReplyOK'
  <2>1. reply' = Rejected(reply, c) /\ UNCHANGED <<task, awaiting, connecting, closer>>
    BY <1>17 DEF ConnectionLost, connVars
  <2>2. RejectedOn(reply', reply, c)
    BY <2>1, RejectedFacts DEF ReplyOK
  <2>3. "timer" \in Owners /\ "timer" \notin Subs \cap awaiting
    BY DEF Owners
  <2> QED BY <2>1, <2>2, <2>3, ReplyFrame DEF RejectedOn, EntriesOK
<1> QED BY <1>1, <1>2, <1>3, <1>4, <1>5, <1>6, <1>7, <1>8, <1>9, <1>10, <1>11, <1>12, <1>13,
           <1>14, <1>15, <1>16, <1>17
        DEF HubNext, ListenStep, RemoveStep, ConnectStep, CloseStep

(***************************************************************************)
(* The steps that send, answer or lose no query.                           *)
(***************************************************************************)
LEMMA WireFrame ==
  ASSUME WireOK, wire' = wire,
         \A c \in Conns : wire[c] # <<>> => c \in alive' \cap {client', closerConn'},
         \A x \in Owners : Sends(wire, x) => reply'[x] = "none",
         \A s \in Subs : Sends(wire, s) => task'[s] = task[s],
         Sends(wire, "connect") => connecting' = connecting,
         Sends(wire, "close") => closer' = closer,
         closer' = "unlistening" =>
           /\ closer = "unlistening" /\ closerConn' = closerConn
           /\ reply'["close"] = reply["close"] /\ (closerConn \in alive => closerConn \in alive')
  PROVE  WireOK'
BY DEF WireOK

\* The steps that send a query of x on the connection of the hub.
LEMMA WireSent ==
  ASSUME WireOK, ConnOK, NEW x \in Owners \ {"timer", "close"}, client \in Conns,
         NEW command, NEW ch, Asked(x, client, command, ch),
         UNCHANGED <<alive, client, closer, closerConn, connecting>>,
         \A s \in Subs : s # x => task'[s] = task[s],
         x \in Subs => task'[x] \in {"listening", "unlistening", "abandoning"},
         x = "connect" => connecting = "listening"
  PROVE  WireOK'
<1> USE HubAssumption DEF WireOK, Owners
<1>1. closer # "unlistening"
  BY DEF ConnOK
<1>2. /\ wire' \in [Conns -> Seq(Queries)] /\ OnePerOwner(wire')
      /\ \A c \in Conns : wire'[c] # <<>> => c \in alive \cap {client, closerConn}
  BY DEF Asked
<1>3. \A y \in Owners : Sends(wire', y) => reply'[y] = "none"
  BY DEF Asked
<1>4. \A s \in Subs : Sends(wire', s) => task'[s] \in {"listening", "unlistening", "abandoning"}
  BY DEF Asked
<1>5. Sends(wire', "connect") => connecting = "listening"
  BY DEF Asked
<1>6. Sends(wire', "close") => closer = "unlistening"
  BY DEF Asked
<1> QED BY <1>1, <1>2, <1>3, <1>4, <1>5, <1>6

\* The steps that end the session of c (None: of no connection).
LEMMA WireCleared ==
  ASSUME WireOK, NEW c \in Conns \cup {None},
         wire' = [d \in Conns |-> IF d = c THEN <<>> ELSE wire[d]],
         alive' = alive \ {c},
         \A d \in Conns \ {c} : wire[d] # <<>> => d \in {client', closerConn'},
         \A x \in Owners : Sends(wire, x) /\ (c \in Conns => x \notin Lost(wire, c))
                             => reply'[x] = "none",
         \A s \in Subs : Sends(wire, s) => task'[s] = task[s],
         Sends(wire, "connect") => connecting' = connecting,
         Sends(wire, "close") => closer' = closer,
         closer' = "unlistening" => closerConn' = c /\ c \in Conns /\ reply'["close"] # "none"
  PROVE  WireOK'
<1> USE DEF WireOK
<1>1. Cleared(wire', wire, c)
  BY WireClear
<1>2. /\ wire' \in [Conns -> Seq(Queries)] /\ OnePerOwner(wire')
      /\ \A d \in Conns : wire'[d] # <<>> => d # c /\ wire[d] # <<>>
      /\ \A x \in Owners : Sends(wire', x) =>
           (Sends(wire, x) /\ (c \in Conns => x \notin Lost(wire, c)))
  BY <1>1 DEF Cleared
<1>3. \A d \in Conns : wire'[d] # <<>> => d \in alive' \cap {client', closerConn'}
  BY <1>2
<1>4. closer' = "unlistening" => wire'[closerConn'] = <<>>
  OBVIOUS
<1> QED BY <1>2, <1>3, <1>4 DEF Owners

LEMMA NoTimerQuery ==
  ASSUME WireOK
  PROVE  ~Sends(wire, "timer")
<1> SUFFICES ASSUME Sends(wire, "timer") PROVE FALSE
  OBVIOUS
<1>1. PICK c \in Conns : \E i \in 1..Len(wire[c]) : wire[c][i].owner = "timer"
  BY DEF Sends
<1>2. PICK i \in 1..Len(wire[c]) : wire[c][i].owner = "timer"
  BY <1>1
<1>3. wire[c][i] \in Queries
  BY DEF WireOK
<1> QED BY <1>2, <1>3 DEF Queries

\* Who awaits the connect task has no query under way.
LEMMA AwaitingSendsNothing ==
  ASSUME HubInv
  PROVE  \A x \in Owners \cap awaiting : ~Sends(wire, x)
BY NoTimerQuery DEF HubInv, ReplyOK, WireOK, Owners

LEMMA WireStep ==
  ASSUME HubInv, [HubNext]_vars
  PROVE  WireOK'
<1> USE HubAssumption DEF HubInv
<1>1. CASE UNCHANGED vars
  BY <1>1 DEF vars, subVars, connVars, netVars, WireOK
<1>2. ASSUME NEW s \in Subs, NEW ch \in Channels, Listen(s, ch)
      PROVE  WireOK'
  <2>1. task[s] = "idle" /\ task' = [task EXCEPT ![s] = "connecting"]
        /\ UNCHANGED <<wire, alive, client, closer, closerConn>> /\ closer = "none"
    BY <1>2 DEF Listen, closing, netVars
  <2>2. ~Sends(wire, s)
    BY <2>1 DEF WireOK
  <2>3. connecting' = connecting \/ connecting = "none"
    BY <1>2 DEF Listen, EnsureConnected
  <2>4. PICK r \in {"ok", "none"} : reply' = [reply EXCEPT ![s] = r]
    BY <1>2 DEF Listen, EnsureConnected, Settled, Consumed
  <2>5. s \in Owners /\ \A x \in Owners : x # s => reply'[x] = reply[x]
    BY <2>4 DEF ReplyOK, Owners
  <2>6. \A x \in Owners : Sends(wire, x) => reply'[x] = "none"
    BY <2>2, <2>5 DEF WireOK
  <2>7. \A o \in Subs : Sends(wire, o) => task'[o] = task[o]
    BY <2>1, <2>2 DEF EntriesOK
  <2>8. Sends(wire, "connect") => connecting' = connecting
    BY <2>3 DEF WireOK
  <2>9. \A c \in Conns : wire[c] # <<>> => c \in alive' \cap {client', closerConn'}
    BY <2>1 DEF WireOK
  <2> QED BY <2>1, <2>6, <2>7, <2>8, <2>9, WireFrame
<1>3. ASSUME NEW s \in Subs, ListenSends(s)
      PROVE  WireOK'
  <2>1. task[s] = "connecting" /\ task' = [task EXCEPT ![s] = "listening"] /\ reply[s] = "ok"
        /\ client # None /\ Query(s, client, "listen", chan[s])
        /\ UNCHANGED <<alive, client, closer, closerConn, connecting>>
    BY <1>3 DEF ListenSends, connVars, netVars
  <2>2. s \in Owners \ {"timer", "close"} /\ client \in Conns
        /\ chan[s] \in Channels /\ ~Sends(wire, s)
    BY <2>1 DEF Owners, ConnOK, EntriesOK, WireOK
  <2>3. Asked(s, client, "listen", chan[s])
    BY <2>1, <2>2, QueryFacts
  <2>4. task'[s] = "listening" /\ \A o \in Subs : o # s => task'[o] = task[o]
    BY <2>1 DEF EntriesOK
  <2> QED BY <2>1, <2>2, <2>3, <2>4, WireSent
<1>4. ASSUME NEW s \in Subs, ListenReturns(s) \/ Unlistened(s) \/ UnlistenCrashes(s)
      PROVE  WireOK'
  <2>1. reply[s] # "none" /\ reply' = [reply EXCEPT ![s] = "none"]
        /\ UNCHANGED <<wire, alive, client, closer, closerConn, connecting>>
    BY <1>4 DEF ListenReturns, Opened, Unlistened, UnlistenCrashes, Consumed, connVars, netVars
  <2>2. PICK state \in {"open", "failed", "closed", "crashed"} :
          task' = [task EXCEPT ![s] = state]
    BY <1>4 DEF ListenReturns, Opened, Unlistened, UnlistenCrashes, AfterRemoval
  <2>3. s \in Owners /\ ~Sends(wire, s) /\ \A x \in Owners : Sends(wire, x) => reply'[x] = "none"
        /\ reply'["close"] = reply["close"]
    BY <2>1 DEF Owners, ReplyOK, WireOK
  <2>4. \A o \in Subs : Sends(wire, o) => task'[o] = task[o]
    BY <2>2, <2>3 DEF EntriesOK
  <2>5. \A c \in Conns : wire[c] # <<>> => c \in alive' \cap {client', closerConn'}
    BY <2>1 DEF WireOK
  <2> QED BY <2>1, <2>3, <2>4, <2>5, WireFrame
<1>5. ASSUME NEW s \in Subs, ListenFails(s) \/ CloseSubscription(s)
      PROVE  WireOK'
  <2>1. PICK while \in {"abandoning", "unlistening"}, after \in {"failed", "closed"} :
          RemoveSub(s, while, after)
    BY <1>5 DEF ListenFails, CloseSubscription
  <2>2. UNCHANGED <<alive, client, closer, closerConn, connecting>>
        /\ (task[s] = "open" \/ reply[s] # "none")
    BY <1>5 DEF ListenFails, CloseSubscription, netVars
  <2>3. ~Sends(wire, s) /\ s \in Owners \ {"timer", "close"} /\ s # "connect"
    BY <2>2 DEF Owners, WireOK
  <2>4. while \in TaskStates /\ after \in TaskStates
    BY DEF TaskStates
  <2>5. CASE /\ task' = [task EXCEPT ![s] = while]
             /\ client \in Conns /\ Asked(s, client, "unlisten", chan[s])
    <3>1. task'[s] \in {"listening", "unlistening", "abandoning"}
          /\ \A o \in Subs : o # s => task'[o] = task[o]
      BY <2>5 DEF EntriesOK
    <3> QED BY <2>2, <2>3, <2>5, <3>1, WireSent
  <2>6. CASE /\ task' = [task EXCEPT ![s] = after]
             /\ reply' = [reply EXCEPT ![s] = "none"] /\ wire' = wire
    <3>1. \A x \in Owners : Sends(wire, x) => reply'[x] = "none"
      BY <2>6 DEF WireOK, ReplyOK
    <3>2. reply'["close"] = reply["close"]
      BY <2>6, <2>3 DEF ReplyOK
    <3>3. \A o \in Subs : Sends(wire, o) => task'[o] = task[o]
      BY <2>6, <2>3 DEF EntriesOK
    <3>4. \A c \in Conns : wire[c] # <<>> => c \in alive' \cap {client', closerConn'}
      BY <2>2 DEF WireOK
    <3> QED BY <2>2, <2>6, <3>1, <3>2, <3>3, <3>4, WireFrame
  <2> QED BY <2>1, <2>3, <2>4, <2>5, <2>6, RemoveSubReplies
<1>7. ASSUME NEW ch \in Channels, ConnectReissues(ch)
      PROVE  WireOK'
  <2>1. connecting = "listening" /\ reply["connect"] = "ok"
        /\ client \in Conns /\ Query("connect", client, "listen", ch)
        /\ UNCHANGED <<task, alive, client, closer, closerConn, connecting>>
    BY <1>7 DEF ConnectReissues, ConnOK, subVars, netVars
  <2>2. "connect" \in Owners \ {"timer", "close"} /\ ~Sends(wire, "connect")
        /\ "connect" \notin Subs
    BY <2>1 DEF Owners, WireOK
  <2>3. Asked("connect", client, "listen", ch)
    BY <2>1, <2>2, QueryFacts
  <2> QED BY <2>1, <2>2, <2>3, WireSent
<1>8. CASE ConnectSucceeds \/ CheckoutFails \/ (Checkout /\ closing)
  <2>1. PICK result \in {"ok", "err"} : ConnectSettles(result, reply)
    BY <1>8 DEF ConnectSucceeds, CheckoutFails, Checkout
  <2>2. UNCHANGED <<wire, task, alive, client, closer, closerConn>> /\ ~Sends(wire, "connect")
    BY <1>8 DEF ConnectSucceeds, CheckoutFails, Checkout, subVars, netVars, WireOK, Owners
  <2>3. \A x \in Owners : Sends(wire, x) => x # "connect" /\ x \notin awaiting
    BY <2>2, AwaitingSendsNothing
  <2>4. \A x \in Owners : Sends(wire, x) => reply'[x] = "none"
    BY <2>1, <2>3, ConnectSettlesFacts DEF WireOK
  <2>5. \A c \in Conns : wire[c] # <<>> => c \in alive' \cap {client', closerConn'}
    BY <2>2 DEF WireOK
  <2>6. closer = "unlistening" => "close" \notin awaiting /\ "close" # "connect"
    BY DEF ReplyOK
  <2>7. closer = "unlistening" => reply'["close"] = reply["close"]
    BY <2>1, <2>6, ConnectSettlesFacts DEF Owners
  <2> QED BY <2>2, <2>4, <2>5, <2>7, WireFrame
<1>9. CASE Checkout /\ ~closing
  <2>1. client' = granted' /\ alive' = alive \cup {granted'} /\ closer = "none"
        /\ UNCHANGED <<wire, task, closer, closerConn>>
        /\ reply' = [reply EXCEPT !["connect"] = "ok"] /\ connecting = "checkout"
    BY <1>9 DEF Checkout, Settled, closing, subVars
  <2>2. client = None /\ ~Sends(wire, "connect")
    BY <2>1 DEF ConnOK, WireOK
  <2>3. \A x \in Owners : Sends(wire, x) => reply'[x] = "none"
    BY <2>1, <2>2 DEF WireOK, ReplyOK
  <2>4. \A c \in Conns : wire[c] # <<>> => c \in alive' \cap {client', closerConn'}
    BY <2>1, <2>2 DEF WireOK
  <2> QED BY <2>1, <2>2, <2>3, <2>4, WireFrame
<1>11. CASE TimerFires \/ TimerEnds
  <2>1. UNCHANGED <<wire, task, alive, client, closer, closerConn>>
        /\ (connecting' = connecting \/ connecting = "none")
    BY <1>11 DEF TimerFires, TimerEnds, EnsureConnected, subVars, connVars, netVars
  <2>2. PICK r \in {"ok", "none"} : reply' = reply \/ reply' = [reply EXCEPT !["timer"] = r]
    BY <1>11 DEF TimerFires, TimerEnds, EnsureConnected, Settled, Consumed
  <2>3. \A x \in Owners : Sends(wire, x) => reply'[x] = "none"
    BY <2>2, NoTimerQuery DEF WireOK, ReplyOK
  <2>4. reply'["close"] = reply["close"]
    BY <2>2 DEF ReplyOK, Owners
  <2>5. \A c \in Conns : wire[c] # <<>> => c \in alive' \cap {client', closerConn'}
    BY <2>1 DEF WireOK
  <2>6. Sends(wire, "connect") => connecting' = connecting
    BY <2>1 DEF WireOK
  <2> QED BY <2>1, <2>3, <2>4, <2>5, <2>6, WireFrame
<1>12. CASE Close
  <2>1. UNCHANGED <<wire, task, alive, client, closerConn, connecting>>
        /\ closer = "none" /\ closer' = "connecting"
        /\ (reply' = reply \/ reply' = [reply EXCEPT !["close"] = "ok"])
    BY <1>12 DEF Close, Settled, subVars, connVars, netVars
  <2>2. ~Sends(wire, "close")
    BY <2>1 DEF WireOK
  <2>3. \A x \in Owners : Sends(wire, x) => reply'[x] = "none"
    BY <2>1, <2>2 DEF WireOK, ReplyOK
  <2>4. \A c \in Conns : wire[c] # <<>> => c \in alive' \cap {client', closerConn'}
    BY <2>1 DEF WireOK
  <2> QED BY <2>1, <2>2, <2>3, <2>4, WireFrame
<1>13. CASE CloseUnlistens
  <2>1. closer = "connecting" /\ reply["close"] # "none" /\ closer' = "unlistening"
        /\ client' = None /\ closerConn' = client
        /\ client \in Conns /\ Query("close", client, "unlistenAll", None)
        /\ UNCHANGED <<alive, connecting, task>>
    BY <1>13 DEF CloseUnlistens, ConnOK, subVars, connVars, netVars
  <2>2. closerConn = None /\ "close" \in Owners \ {"timer"} /\ ~Sends(wire, "close")
    BY <2>1 DEF Owners, WireOK, ConnOK
  <2>3. Asked("close", client, "unlistenAll", None)
    BY <2>1, <2>2, QueryFacts
  <2>4. wire[client] # <<>> => client \in alive
    BY <2>1 DEF WireOK
  <2>5. \A c \in Conns : wire'[c] # <<>> => c \in alive' \cap {client', closerConn'}
    BY <2>1, <2>2, <2>3, <2>4 DEF WireOK, Asked
  <2>6. /\ wire' \in [Conns -> Seq(Queries)] /\ OnePerOwner(wire')
        /\ \A x \in Owners : Sends(wire', x) => reply'[x] = "none"
    BY <2>3 DEF WireOK, Asked
  <2>7. \A s \in Subs : Sends(wire', s) => task'[s] \in {"listening", "unlistening", "abandoning"}
    BY <2>1, <2>3 DEF WireOK, Asked, Owners
  <2>8. Sends(wire', "connect") => connecting' = "listening"
    BY <2>1, <2>3 DEF WireOK, Asked, Owners
  <2>9. IF reply'["close"] = "none"
        THEN /\ closerConn' \in alive' /\ wire'[closerConn'] # <<>>
             /\ wire'[closerConn'][Len(wire'[closerConn'])].owner = "close"
        ELSE wire'[closerConn'] = <<>>
    <3>1. CASE client \in alive
      BY <2>1, <2>3, <3>1 DEF Asked
    <3>2. CASE client \notin alive
      BY <2>1, <2>3, <2>4, <3>2 DEF Asked
    <3> QED BY <3>1, <3>2
  <2> QED BY <2>1, <2>5, <2>6, <2>7, <2>8, <2>9 DEF WireOK
<1>14. CASE CloseEnds
  <2>1. reply["close"] # "none" /\ closer' = "done"
        /\ (closer = "unlistening" \/ (closer = "connecting" /\ client = None))
        /\ reply' = [reply EXCEPT !["close"] = "none"]
        /\ UNCHANGED <<wire, task, alive, client, connecting>>
    BY <1>14 DEF CloseEnds, CloseEverySubscription, Consumed, connVars, netVars
  <2>2. \A c \in Conns : wire[c] = <<>>
    BY <2>1 DEF ConnOK, WireOK
  <2>3. \A x \in Owners : Sends(wire, x) => reply'[x] = "none"
    BY <2>1 DEF WireOK, ReplyOK
  <2>4. ~Sends(wire, "close")
    BY <2>1 DEF WireOK, Owners
  <2> QED BY <2>1, <2>2, <2>3, <2>4, WireFrame
<1>15. ASSUME NEW c \in Conns, ServerAnswers(c) \/ ServerRefuses(c)
       PROVE  WireOK'
  <2> DEFINE o == Head(wire[c]).owner
  <2>1. wire[c] # <<>> /\ wire' = [wire EXCEPT ![c] = Tail(@)]
        /\ UNCHANGED <<task, alive, client, closer, closerConn, connecting>>
    BY <1>15 DEF ServerAnswers, ServerRefuses, subVars, connVars, netVars
  <2>2. PICK result \in {"ok", "err"} : reply' = [reply EXCEPT ![o] = result]
    BY <1>15 DEF ServerAnswers, ServerRefuses, Settled
  <2>3. Popped(wire', wire, c)
    BY <2>1, WirePop DEF WireOK
  <2> HIDE DEF o
  <2>4. /\ \A x \in Owners : Sends(wire', x) => Sends(wire, x) /\ x # o
        /\ wire' \in [Conns -> Seq(Queries)] /\ OnePerOwner(wire')
    BY <2>3 DEF Popped, o
  <2>5. o \in Owners
    BY <2>3 DEF Popped, Queries, o
  <2>6. \A x \in Owners : Sends(wire', x) => reply'[x] = "none"
    BY <2>2, <2>4 DEF WireOK, ReplyOK
  <2>7. \A d \in Conns : wire'[d] # <<>> => wire[d] # <<>>
    BY <2>1, <2>3 DEF Popped
  <2>8. \A d \in Conns : wire'[d] # <<>> => d \in alive' \cap {client', closerConn'}
    BY <2>1, <2>7 DEF WireOK
  <2>9. closer = "unlistening" =>
          IF reply'["close"] = "none"
          THEN /\ closerConn' \in alive' /\ wire'[closerConn'] # <<>>
               /\ wire'[closerConn'][Len(wire'[closerConn'])].owner = "close"
          ELSE wire'[closerConn'] = <<>>
    <3> SUFFICES ASSUME closer = "unlistening"
                 PROVE  IF reply'["close"] = "none"
                        THEN /\ closerConn \in alive /\ wire'[c] # <<>>
                             /\ wire'[c][Len(wire'[c])].owner = "close"
                        ELSE wire'[c] = <<>>
      BY <2>1 DEF ConnOK, WireOK
    <3>1. c = closerConn /\ reply["close"] = "none" /\ closerConn \in alive
          /\ wire[c][Len(wire[c])].owner = "close"
      BY <2>1 DEF ConnOK, WireOK
    <3>2. CASE o = "close"
      <4>1. wire'[c] = <<>> /\ reply'["close"] # "none"
        BY <2>2, <2>3, <2>5, <3>1, <3>2 DEF Popped, ReplyOK, o
      <4> QED BY <4>1
    <3>3. CASE o # "close"
      <4>1. wire'[c] # <<>> /\ wire'[c][Len(wire'[c])] = wire[c][Len(wire[c])]
        BY <2>3, <3>1, <3>3 DEF Popped, o
      <4>2. reply'["close"] = "none"
        BY <2>2, <3>1, <3>3 DEF ReplyOK
      <4> QED BY <3>1, <4>1, <4>2
    <3> QED BY <3>2, <3>3
  <2> QED BY <2>1, <2>4, <2>6, <2>8, <2>9 DEF WireOK, Owners
<1>10. CASE ConnectFails
  <2>1. PICK rs \in {reply, Rejected(reply, client)} :
          ConnectSettles("err", rs) /\ (client = None => rs = reply)
    BY <1>10 DEF ConnectFails
  <2>2. connecting = "listening" /\ reply["connect"] # "none" /\ client' = None
        /\ wire' = [d \in Conns |-> IF d = client THEN <<>> ELSE wire[d]]
        /\ alive' = alive \ {client} /\ UNCHANGED <<task, closer, closerConn>>
    BY <1>10 DEF ConnectFails, SessionEnds, subVars
  <2>3. ~Sends(wire, "connect") /\ closer # "unlistening" /\ client \in Conns \cup {None}
    BY <2>2 DEF WireOK, ConnOK, Owners
  <2>4. \A x \in Owners : Sends(wire, x) /\ (client \in Conns => x \notin Lost(wire, client))
                             => rs[x] = "none"
    <3>1. CASE client = None
      BY <2>1, <3>1 DEF WireOK
    <3>2. CASE client \in Conns
      <4>1. RejectedOn(Rejected(reply, client), reply, client)
        BY <3>2, RejectedFacts DEF ReplyOK
      <4> QED BY <2>1, <3>2, <4>1 DEF RejectedOn, WireOK
    <3> QED BY <2>3, <3>1, <3>2
  <2>5. reply' = [x \in Owners |-> IF x \in awaiting THEN "err"
                                  ELSE IF x = "connect" THEN "none" ELSE rs[x]]
    BY <2>1, ConnectSettlesFacts
  <2>6. \A x \in Owners : Sends(wire, x) /\ (client \in Conns => x \notin Lost(wire, client))
                             => reply'[x] = "none"
    BY <2>3, <2>4, <2>5, AwaitingSendsNothing
  <2>7. \A d \in Conns \ {client} : wire[d] # <<>> => d \in {client', closerConn'}
    BY <2>2 DEF WireOK
  <2> QED BY <2>2, <2>3, <2>6, <2>7, WireCleared
<1>6. ASSUME NEW s \in Subs, UnlistenDrops(s)
      PROVE  WireOK'
  <2>1. reply[s] # "none" /\ reply' = Rejected([reply EXCEPT ![s] = "none"], client)
        /\ client \in Conns /\ client' = None /\ closer = "none"
        /\ wire' = [d \in Conns |-> IF d = client THEN <<>> ELSE wire[d]]
        /\ alive' = alive \ {client} /\ UNCHANGED <<closer, closerConn, connecting>>
    BY <1>6 DEF UnlistenDrops, Drop, SessionEnds, Consumed, connVars, ConnOK, closing
  <2>2. PICK state \in {"failed", "closed"} : task' = [task EXCEPT ![s] = state]
    BY <1>6 DEF UnlistenDrops, AfterRemoval
  <2>3. s \in Owners /\ ~Sends(wire, s)
        /\ [reply EXCEPT ![s] = "none"] \in [Owners -> {"none", "ok", "err"}]
    BY <2>1 DEF Owners, ReplyOK, WireOK
  <2>4. RejectedOn(reply', [reply EXCEPT ![s] = "none"], client)
    BY <2>1, <2>3, RejectedFacts
  <2>5. \A x \in Owners : Sends(wire, x) /\ (client \in Conns => x \notin Lost(wire, client))
                             => reply'[x] = "none"
    BY <2>1, <2>4 DEF RejectedOn, WireOK, ReplyOK
  <2>6. \A o \in Subs : Sends(wire, o) => task'[o] = task[o]
    BY <2>2, <2>3 DEF EntriesOK
  <2>7. \A d \in Conns \ {client} : wire[d] # <<>> => d \in {client', closerConn'}
    BY <2>1 DEF WireOK
  <2> QED BY <2>1, <2>5, <2>6, <2>7, WireCleared
<1>16. ASSUME NEW c \in Conns, ConnectionLost(c)
       PROVE  WireOK'
  <2>1. reply' = Rejected(reply, c) /\ alive' = alive \ {c} /\ c \in held /\ Quiet
        /\ wire' = [d \in Conns |-> IF d = c THEN <<>> ELSE wire[d]]
        /\ UNCHANGED <<task, closer, closerConn, connecting>>
        /\ (client' = client \/ (c = client /\ client' = None))
    BY <1>16 DEF ConnectionLost, SessionEnds, Drop, connVars
  <2>2. RejectedOn(reply', reply, c)
    BY <2>1, RejectedFacts DEF ReplyOK
  <2>3. \A x \in Owners : Sends(wire, x) /\ (c \in Conns => x \notin Lost(wire, c))
                             => reply'[x] = "none"
    BY <2>2 DEF RejectedOn, WireOK
  <2>4. \A d \in Conns \ {c} : wire[d] # <<>> => d \in {client', closerConn'}
    BY <2>1 DEF WireOK
  <2>5. closer' = "unlistening" => closerConn' = c /\ c \in Conns /\ reply'["close"] # "none"
    <3> SUFFICES ASSUME closer = "unlistening"
                 PROVE  closerConn = c /\ reply'["close"] # "none"
      BY <2>1
    <3>1. closerConn = c
      BY <2>1 DEF ConnOK, ConnectionsAreOwned
    <3>2. wire[c] \in Seq(Queries) /\ wire[c] # <<>>
          /\ wire[c][Len(wire[c])].owner = "close"
      BY <2>1, <3>1 DEF WireOK, Quiet, Owners
    <3>3. Len(wire[c]) \in DOMAIN wire[c]
      BY <3>2
    <3>4. "close" \in Lost(wire, c)
      BY <3>2, <3>3 DEF Lost, ToSet
    <3> QED BY <2>2, <3>1, <3>4 DEF RejectedOn, Owners
  <2> QED BY <2>1, <2>3, <2>4, <2>5, WireCleared
<1> QED BY <1>1, <1>2, <1>3, <1>4, <1>5, <1>6, <1>7, <1>8, <1>9, <1>10, <1>11, <1>12, <1>13,
           <1>14, <1>15, <1>16
        DEF HubNext, ListenStep, RemoveStep, ConnectStep, CloseStep

-----------------------------------------------------------------------------
(***************************************************************************)
(* Whoever's LISTEN was answered is resumed before anything else happens   *)
(* to the connection (notifications.ts:88-139).                            *)
(***************************************************************************)
LEMMA AnsweredFrame ==
  ASSUME AnsweredOK, UNCHANGED <<client, alive, closer>>,
         reply["close"] = "none" => reply'["close"] = "none",
         \A s \in Subs : Answered(s)' => Answered(s),
         \A x \in Owners : reply'[x] = "err" => \/ reply[x] = "err"
                                              \/ \A s \in Subs : ~Answered(s)'
  PROVE  AnsweredOK'
BY DEF AnsweredOK

\* A query on the connection of the hub, sent by none whose LISTEN was answered.
LEMMA AnsweredAsks ==
  ASSUME HubInv, NEW x \in Owners \ {"timer", "close"}, client \in Conns,
         NEW command, NEW ch, Asked(x, client, command, ch),
         UNCHANGED <<client, alive, closer>>,
         \/ UNCHANGED task /\ x \notin Subs
         \/ x \in Subs /\ \E state : task' = [task EXCEPT ![x] = state]
  PROVE  AnsweredOK'
<1> USE HubAssumption DEF HubInv
<1>1. reply'[x] # "ok" /\ \A y \in Owners : y # x => reply'[y] = reply[y]
  BY DEF Asked
<1>2. \A s \in Subs : s # x => task'[s] = task[s]
  BY DEF EntriesOK
<1>3. \A s \in Subs : Answered(s)' => Answered(s)
  BY <1>1, <1>2 DEF Answered, Owners
<1>4. CASE client \in alive
  <2>1. \A y \in Owners : reply'[y] = "err" => reply[y] = "err"
    BY <1>1, <1>4 DEF Asked
  <2> QED BY <1>1, <1>3, <2>1, AnsweredFrame DEF Owners
<1>5. CASE client \notin alive
  <2>1. \A s \in Subs : ~Answered(s)
    BY <1>5 DEF AnsweredOK, ConnOK
  <2> QED BY <1>3, <2>1 DEF AnsweredOK
<1> QED BY <1>4, <1>5

LEMMA AnsweredStep ==
  ASSUME HubInv, [HubNext]_vars
  PROVE  AnsweredOK'
<1> USE HubAssumption DEF HubInv
<1>1. CASE UNCHANGED vars
  BY <1>1 DEF vars, subVars, connVars, netVars, AnsweredOK, Answered
<1>2. ASSUME NEW s \in Subs, NEW ch \in Channels, Listen(s, ch)
      PROVE  AnsweredOK'
  <2>1. task[s] = "idle" /\ task' = [task EXCEPT ![s] = "connecting"]
        /\ UNCHANGED <<alive, client, closer>>
    BY <1>2 DEF Listen, netVars
  <2>2. PICK r \in {"ok", "none"} : reply' = [reply EXCEPT ![s] = r]
    BY <1>2 DEF Listen, EnsureConnected, Settled, Consumed
  <2>3. s \in Owners /\ s # "close" /\ \A x \in Owners : x # s => reply'[x] = reply[x]
    BY <2>2 DEF ReplyOK, Owners
  <2>4. \A o \in Subs : Answered(o)' => Answered(o)
    BY <2>1, <2>3 DEF Answered, EntriesOK, Owners
  <2> QED BY <2>1, <2>2, <2>3, <2>4, AnsweredFrame DEF Owners, ReplyOK
<1>3. ASSUME NEW s \in Subs, ListenSends(s)
      PROVE  AnsweredOK'
  <2>1. task[s] = "connecting" /\ task' = [task EXCEPT ![s] = "listening"] /\ reply[s] = "ok"
        /\ client # None /\ Query(s, client, "listen", chan[s])
        /\ UNCHANGED <<alive, client, closer>>
    BY <1>3 DEF ListenSends, connVars, netVars
  <2>2. s \in Owners \ {"timer"} /\ client \in Conns /\ s # "close"
        /\ chan[s] \in Channels /\ ~Sends(wire, s)
    BY <2>1 DEF Owners, ConnOK, EntriesOK, WireOK
  <2>3. Asked(s, client, "listen", chan[s])
    BY <2>1, <2>2, QueryFacts
  <2> QED BY <2>1, <2>2, <2>3, AnsweredAsks
<1>4. ASSUME NEW s \in Subs, ListenReturns(s) \/ Unlistened(s) \/ UnlistenCrashes(s)
      PROVE  AnsweredOK'
  <2>1. reply' = [reply EXCEPT ![s] = "none"] /\ UNCHANGED <<alive, client, closer>>
        /\ s # "close"
    BY <1>4 DEF ListenReturns, Opened, Unlistened, UnlistenCrashes, Consumed, connVars, netVars
  <2>2. PICK state \in {"open", "failed", "closed", "crashed"} :
          task' = [task EXCEPT ![s] = state]
    BY <1>4 DEF ListenReturns, Opened, Unlistened, UnlistenCrashes, AfterRemoval
  <2>3. \A o \in Subs : Answered(o)' => Answered(o)
    BY <2>1, <2>2 DEF Answered, EntriesOK, ReplyOK, Owners
  <2> QED BY <2>1, <2>3, AnsweredFrame DEF ReplyOK, Owners
<1>5. ASSUME NEW s \in Subs, ListenFails(s) \/ CloseSubscription(s)
      PROVE  AnsweredOK'
  <2>1. PICK while \in {"abandoning", "unlistening"}, after \in {"failed", "closed"} :
          RemoveSub(s, while, after)
    BY <1>5 DEF ListenFails, CloseSubscription
  <2>2. UNCHANGED <<alive, client, closer>> /\ (task[s] = "open" \/ reply[s] # "none")
    BY <1>5 DEF ListenFails, CloseSubscription, netVars
  <2>3. ~Sends(wire, s) /\ s \in Owners \ {"timer"} /\ s # "close"
    BY <2>2 DEF Owners, WireOK
  <2>4. while \in TaskStates /\ after \in TaskStates
    BY DEF TaskStates
  <2>5. CASE /\ task' = [task EXCEPT ![s] = while]
             /\ client \in Conns /\ Asked(s, client, "unlisten", chan[s])
    BY <2>2, <2>3, <2>5, AnsweredAsks
  <2>6. CASE task' = [task EXCEPT ![s] = after] /\ reply' = [reply EXCEPT ![s] = "none"]
    <3>1. \A o \in Subs : Answered(o)' => Answered(o)
      BY <2>6 DEF Answered, EntriesOK, ReplyOK, Owners
    <3> QED BY <2>2, <2>3, <2>6, <3>1, AnsweredFrame DEF ReplyOK, Owners
  <2> QED BY <2>1, <2>3, <2>4, <2>5, <2>6, RemoveSubReplies
<1>6. ASSUME NEW s \in Subs, UnlistenDrops(s)
      PROVE  AnsweredOK'
  <2>1. reply[s] = "err" /\ reply' = Rejected([reply EXCEPT ![s] = "none"], client)
        /\ client \in Conns
    BY <1>6 DEF UnlistenDrops, Consumed, ConnOK
  <2>2. PICK state \in {"failed", "closed"} : task' = [task EXCEPT ![s] = state]
    BY <1>6 DEF UnlistenDrops, AfterRemoval
  <2>3. s \in Owners /\ [reply EXCEPT ![s] = "none"] \in [Owners -> {"none", "ok", "err"}]
    BY DEF Owners, ReplyOK
  <2>4. RejectedOn(reply', [reply EXCEPT ![s] = "none"], client)
    BY <2>1, <2>3, RejectedFacts
  <2>5. \A o \in Subs : Answered(o)' => Answered(o)
    BY <2>2, <2>4 DEF RejectedOn, Answered, EntriesOK, ReplyOK, Owners
  <2>6. \A o \in Subs : ~Answered(o)
    BY <2>1 DEF AnsweredOK, Owners
  <2> QED BY <2>5, <2>6 DEF AnsweredOK
<1>7. ASSUME NEW ch \in Channels, ConnectReissues(ch)
      PROVE  AnsweredOK'
  <2>1. reply["connect"] = "ok" /\ client \in Conns /\ Query("connect", client, "listen", ch)
        /\ UNCHANGED <<task, alive, client, closer>>
    BY <1>7 DEF ConnectReissues, ConnOK, subVars, netVars
  <2>2. "connect" \in Owners \ {"timer"} /\ ~Sends(wire, "connect") /\ "connect" # "close"
        /\ "connect" \notin Subs
    BY <2>1 DEF Owners, WireOK
  <2>3. Asked("connect", client, "listen", ch)
    BY <2>1, <2>2, QueryFacts
  <2> QED BY <2>1, <2>2, <2>3, AnsweredAsks
<1>8. CASE ConnectSucceeds \/ CheckoutFails \/ (Checkout /\ closing)
  <2>1. PICK result \in {"ok", "err"} :
          ConnectSettles(result, reply) /\ (result = "ok" \/ CheckoutFails)
    BY <1>8 DEF ConnectSucceeds, Checkout, CheckoutFails
  <2>2. UNCHANGED <<task, alive, client, closer>>
    BY <1>8 DEF ConnectSucceeds, CheckoutFails, Checkout, subVars, netVars
  <2>3. reply' = [x \in Owners |-> IF x \in awaiting THEN result
                                  ELSE IF x = "connect" THEN "none" ELSE reply[x]]
    BY <2>1, ConnectSettlesFacts
  <2>4. \A o \in Subs : Answered(o)' => Answered(o)
    BY <2>2, <2>3 DEF Answered, ReplyOK, Owners
  <2>5. CASE CheckoutFails
    <3>1. \A o \in Subs : ~Answered(o)
      BY <2>5 DEF CheckoutFails, Quiet, Answered, Owners
    <3> QED BY <2>4, <3>1 DEF AnsweredOK
  <2>6. CASE result = "ok"
    <3>1. \A x \in Owners : reply'[x] = "err" => reply[x] = "err"
      BY <2>3, <2>6
    <3>2. closer = "unlistening" /\ reply["close"] = "none" => reply'["close"] = "none"
      BY <2>3 DEF ReplyOK, Owners
    <3> QED BY <2>2, <2>4, <3>1, <3>2 DEF AnsweredOK
  <2> QED BY <2>1, <2>5, <2>6
<1>9. CASE Checkout /\ ~closing
  <2>1. reply' = [reply EXCEPT !["connect"] = "ok"] /\ task' = task
        /\ \A o \in Subs : ~Answered(o)
    BY <1>9 DEF Checkout, Settled, subVars, Quiet, Answered, Owners
  <2>2. \A o \in Subs : ~Answered(o)'
    BY <2>1 DEF Answered, ReplyOK, Owners
  <2> QED BY <2>2 DEF AnsweredOK
<1>10. CASE ConnectFails
  <2>1. PICK rs \in {reply, Rejected(reply, client)} :
          ConnectSettles("err", rs) /\ (client = None => rs = reply)
    BY <1>10 DEF ConnectFails
  <2>2. connecting = "listening" /\ (reply["connect"] = "err" \/ client = None) /\ task' = task
    BY <1>10 DEF ConnectFails, subVars
  <2>3. \A o \in Subs : ~Answered(o)
    BY <2>2 DEF AnsweredOK, ConnOK, Owners
  <2>4. reply' = [x \in Owners |-> IF x \in awaiting THEN "err"
                                  ELSE IF x = "connect" THEN "none" ELSE rs[x]]
    BY <2>1, ConnectSettlesFacts
  <2>5. \A x \in Owners : rs[x] = "ok" => reply[x] = "ok"
    <3>1. CASE client = None
      BY <2>1, <3>1
    <3>2. CASE client \in Conns
      <4>1. RejectedOn(Rejected(reply, client), reply, client)
        BY <3>2, RejectedFacts DEF ReplyOK
      <4> QED BY <2>1, <4>1 DEF RejectedOn
    <3> QED BY <3>1, <3>2 DEF ConnOK
  <2>6. \A o \in Subs : ~Answered(o)'
    BY <2>2, <2>3, <2>4, <2>5 DEF Answered, Owners
  <2> QED BY <2>6 DEF AnsweredOK
<1>11. CASE TimerFires
  <2>1. \A o \in Subs : ~Answered(o)
    BY <1>11 DEF TimerFires, Quiet, Answered, Owners
  <2>2. PICK r \in {"ok", "none"} : reply' = reply \/ reply' = [reply EXCEPT !["timer"] = r]
    BY <1>11 DEF TimerFires, EnsureConnected, Settled, Consumed
  <2>3. task' = task
    BY <1>11 DEF TimerFires, subVars
  <2>4. \A o \in Subs : ~Answered(o)'
    BY <2>1, <2>2, <2>3 DEF Answered, ReplyOK, Owners
  <2> QED BY <2>4 DEF AnsweredOK
<1>12. CASE TimerEnds
  <2>1. reply' = [reply EXCEPT !["timer"] = "none"] /\ UNCHANGED <<task, alive, client, closer>>
    BY <1>12 DEF TimerEnds, Consumed, subVars, netVars
  <2>2. \A o \in Subs : Answered(o)' => Answered(o)
    BY <2>1 DEF Answered, ReplyOK, Owners
  <2> QED BY <2>1, <2>2, AnsweredFrame DEF ReplyOK, Owners
<1>13. CASE Close
  <2>1. closer = "none" /\ closer' = "connecting" /\ UNCHANGED <<task, alive, client>>
        /\ (reply' = reply \/ reply' = [reply EXCEPT !["close"] = "ok"])
    BY <1>13 DEF Close, Settled, subVars, netVars
  <2>2. \A o \in Subs : Answered(o)' => Answered(o)
    BY <2>1 DEF Answered, ReplyOK, Owners
  <2>3. \A x \in Owners : reply'[x] = "err" => reply[x] = "err"
    BY <2>1 DEF ReplyOK
  <2> QED BY <2>1, <2>2, <2>3 DEF AnsweredOK
<1>14. CASE CloseUnlistens
  <2>1. closer = "connecting" /\ reply["close"] # "none" /\ closer' = "unlistening"
        /\ client \in Conns /\ Query("close", client, "unlistenAll", None)
        /\ UNCHANGED <<alive, task>>
    BY <1>14 DEF CloseUnlistens, ConnOK, subVars, netVars
  <2>2. "close" \in Owners \ {"timer"} /\ ~Sends(wire, "close")
    BY <2>1 DEF Owners, WireOK
  <2>3. Asked("close", client, "unlistenAll", None)
    BY <2>1, <2>2, QueryFacts
  <2>4. \A o \in Subs : Answered(o)' => Answered(o)
    BY <2>1, <2>3 DEF Answered, Asked, Owners
  <2>5. CASE client \in alive
    <3>1. \A x \in Owners : reply'[x] = "err" => reply[x] = "err"
      BY <2>3, <2>5 DEF Asked
    <3> QED BY <2>1, <2>3, <2>4, <2>5, <3>1 DEF AnsweredOK, Asked
  <2>6. CASE client \notin alive
    <3>1. \A o \in Subs : ~Answered(o)
      BY <2>1, <2>6 DEF AnsweredOK
    <3> QED BY <2>4, <3>1 DEF AnsweredOK
  <2> QED BY <2>5, <2>6
<1>15. CASE CloseEnds
  <2>1. reply["close"] # "none" /\ UNCHANGED task /\ reply' = [reply EXCEPT !["close"] = "none"]
        /\ (closer = "unlistening" \/ (closer = "connecting" /\ client = None))
    BY <1>15 DEF CloseEnds, Consumed
  <2>2. \A o \in Subs : ~Answered(o)
    BY <2>1 DEF AnsweredOK, ConnOK
  <2>3. \A o \in Subs : ~Answered(o)'
    BY <2>1, <2>2 DEF Answered, ReplyOK, Owners
  <2> QED BY <2>3 DEF AnsweredOK
<1>16. ASSUME NEW c \in Conns, ServerRefuses(c) \/ ConnectionLost(c)
       PROVE  AnsweredOK'
  <2>1. Quiet /\ task' = task
    BY <1>16 DEF ServerRefuses, ConnectionLost, subVars
  <2>2. \A x \in Owners : reply'[x] # "ok"
    <3>1. CASE ServerRefuses(c)
      BY <2>1, <3>1 DEF ServerRefuses, Settled, Quiet, ReplyOK
    <3>2. CASE ConnectionLost(c)
      <4>1. RejectedOn(Rejected(reply, c), reply, c)
        BY RejectedFacts DEF ReplyOK
      <4> QED BY <2>1, <3>2, <4>1 DEF ConnectionLost, RejectedOn, Quiet
    <3> QED BY <1>16, <3>1, <3>2
  <2> QED BY <2>2 DEF AnsweredOK, Answered, Owners
<1>17. ASSUME NEW c \in Conns, ServerAnswers(c)
       PROVE  AnsweredOK'
  <2> DEFINE o == Head(wire[c]).owner
  <2>1. Quiet /\ wire[c] # <<>> /\ wire' = [wire EXCEPT ![c] = Tail(@)]
        /\ reply' = [reply EXCEPT ![o] = "ok"] /\ UNCHANGED <<task, alive, client, closer>>
    BY <1>17 DEF ServerAnswers, Settled, subVars
  <2>2. Popped(wire', wire, c)
    BY <2>1, WirePop DEF WireOK
  <2> HIDE DEF o
  <2>3. Sends(wire, o)
    BY <2>2 DEF Popped, o
  <2>4. \A x \in Owners : reply'[x] = IF x = o THEN "ok" ELSE "none"
    BY <2>1 DEF Quiet, ReplyOK
  <2>5. c \in alive /\ c \in {client, closerConn}
    BY <2>1 DEF WireOK
  <2>6. closer \in {"none", "connecting"} => client \in alive
    BY <2>5 DEF ConnOK
  <2>7. closer # "done"
    BY <2>5 DEF ConnOK
  <2>8. \A s \in Subs : Answered(s)' => s = o /\ s # "close"
    BY <2>4 DEF Answered, Owners
  <2> QED BY <2>1, <2>4, <2>6, <2>7, <2>8 DEF AnsweredOK, Owners
<1> QED BY <1>1, <1>2, <1>3, <1>4, <1>5, <1>6, <1>7, <1>8, <1>9, <1>10, <1>11, <1>12, <1>13,
           <1>14, <1>15, <1>16, <1>17
        DEF HubNext, ListenStep, RemoveStep, ConnectStep, CloseStep

-----------------------------------------------------------------------------
LEMMA HubStarts ==
  ASSUME HubInit
  PROVE  HubInv
<1> USE HubAssumption DEF HubInit
<1>1. ConnOK
  BY DEF ConnOK, ConnectionsAreOwned
<1>2. TimerOK /\ ReplyOK
  BY DEF TimerOK, ReplyOK, Owners, closing
<1>3. \A x \in Owners : ~Sends(wire, x)
  BY DEF Sends
<1>4. wire \in [Conns -> Seq(Queries)] /\ OnePerOwner(wire) /\ \A c \in Conns : wire[c] = <<>>
  BY DEF OnePerOwner
<1>5. WireOK
  BY <1>3, <1>4 DEF WireOK, Owners
<1>6. AnsweredOK
  BY DEF AnsweredOK, Answered
<1>7. EntriesOK
  BY DEF EntriesOK, SubStates, TaskStates
<1> QED BY <1>1, <1>2, <1>5, <1>6, <1>7 DEF HubInv

(***************************************************************************)
(* The inductive invariant.                                                *)
(***************************************************************************)
THEOREM HubInvariant == Spec => []HubInv
<1>1. HubInit => HubInv
  BY HubStarts
<1>2. HubInv /\ [HubNext]_vars => HubInv'
  BY ConnStep, TimerStep, ReplyStep, WireStep, AnsweredStep, EntriesStep DEF HubInv
<1> QED BY <1>1, <1>2, PTL DEF Spec

(***************************************************************************)
(* The hub never loses a connection it checked out, nor uses one it gave   *)
(* back, whatever fails and however listen() and close() interleave        *)
(* (notifications.ts:204-234, 278-284).                                    *)
(***************************************************************************)
THEOREM HubConnectionsAreOwned == Spec => []ConnectionsAreOwned
<1>1. HubInv => ConnectionsAreOwned
  BY DEF HubInv, ConnOK
<1> QED BY <1>1, HubInvariant, PTL

(***************************************************************************)
(* After close() no connection, timer, connect task or subscription is     *)
(* left (notifications.ts:141-171).                                        *)
(***************************************************************************)
THEOREM HubClosedIsInert == Spec => []ClosedHubIsInert
<1>1. HubInv => ClosedHubIsInert
  <2> SUFFICES ASSUME HubInv, closer = "done" PROVE ClosedHubIsInert
    BY DEF ClosedHubIsInert
  <2>1. held = {} /\ connecting = "none"
    BY DEF HubInv, ConnOK, ConnectionsAreOwned
  <2>2. ~timer
    BY DEF HubInv, TimerOK, closing
  <2>3. entries = {} /\ \A s \in Subs : sub[s] \in {"none", "closed"}
    BY DEF HubInv, EntriesOK
  <2> QED BY <2>1, <2>2, <2>3 DEF ClosedHubIsInert
<1> QED BY <1>1, HubInvariant, PTL

-----------------------------------------------------------------------------
\* The types of what HubInv leaves open.
RestOK ==
  /\ listened \subseteq Channels /\ visiting \in Channels \cup {None}
  /\ visited \subseteq Channels
  /\ server \in [Conns -> SUBSET Channels]
  /\ alive \subseteq 1..granted /\ held \subseteq 1..granted /\ faults \in 0..MaxFaults

LEMMA ChannelsStep ==
  ASSUME HubInv, RestOK, [HubNext]_vars
  PROVE  /\ listened' \subseteq Channels /\ visiting' \in Channels \cup {None}
         /\ visited' \subseteq Channels
<1> USE DEF HubInv, EntriesOK, RestOK
<1>1. CASE \/ UNCHANGED vars
           \/ TimerFires \/ TimerEnds \/ Close \/ CloseUnlistens
           \/ \E s \in Subs, ch \in Channels : Listen(s, ch)
           \/ \E s \in Subs : ListenSends(s)
           \/ \E c \in Conns : ServerAnswers(c) \/ ServerRefuses(c)
  BY <1>1 DEF vars, connVars, TimerFires, TimerEnds, Close, CloseUnlistens, Listen, ListenSends,
     ServerAnswers, ServerRefuses
<1>2. ASSUME NEW s \in Subs, ListenReturns(s) \/ RemoveStep(s)
      PROVE  /\ listened' \subseteq Channels /\ visiting' \in Channels \cup {None}
             /\ visited' \subseteq Channels
  BY <1>2 DEF ListenReturns, RemoveStep, Unlistened, UnlistenDrops, UnlistenCrashes, Drop,
     connVars
<1>3. ASSUME NEW s \in Subs, ListenFails(s) \/ CloseSubscription(s)
      PROVE  /\ listened' \subseteq Channels /\ visiting' \in Channels \cup {None}
             /\ visited' \subseteq Channels
  BY <1>3 DEF ListenFails, CloseSubscription, RemoveSub
<1>4. CASE Checkout \/ CheckoutFails \/ ConnectSucceeds \/ ConnectFails
  BY <1>4 DEF Checkout, CheckoutFails, ConnectSucceeds, ConnectFails, ConnectSettles, Reissued
<1>5. ASSUME NEW ch \in Channels, ConnectReissues(ch)
      PROVE  /\ listened' \subseteq Channels /\ visiting' \in Channels \cup {None}
             /\ visited' \subseteq Channels
  BY <1>5 DEF ConnectReissues, Reissued
<1>6. CASE CloseEnds \/ \E c \in Conns : ConnectionLost(c)
  BY <1>6 DEF CloseEnds, CloseEverySubscription, ConnectionLost, Drop, connVars
<1> QED BY <1>1, <1>2, <1>3, <1>4, <1>5, <1>6
        DEF HubNext, ListenStep, ConnectStep, CloseStep

LEMMA ServerStep ==
  ASSUME HubInv, RestOK, [HubNext]_vars
  PROVE  server' \in [Conns -> SUBSET Channels]
<1> USE DEF RestOK
<1>1. CASE UNCHANGED server
  BY <1>1
<1>2. CASE \E c : SessionEnds(c)
  BY <1>2 DEF SessionEnds
<1>3. ASSUME NEW c \in Conns, ServerAnswers(c)
      PROVE  server' \in [Conns -> SUBSET Channels]
  <2>1. Head(wire[c]) \in Queries
    <3>1. Popped([wire EXCEPT ![c] = Tail(@)], wire, c)
      BY <1>3, WirePop DEF ServerAnswers, HubInv, WireOK
    <3> QED BY <3>1 DEF Popped
  <2>2. server' = [server EXCEPT ![c] = Executed(Head(wire[c]), @)]
    BY <1>3 DEF ServerAnswers
  <2>3. Executed(Head(wire[c]), server[c]) \in SUBSET Channels
    BY <2>1 DEF Executed, Queries
  <2> QED BY <2>2, <2>3
<1>4. UNCHANGED server \/ (\E c : SessionEnds(c)) \/ (\E c \in Conns : ServerAnswers(c))
  BY DEF HubNext, vars, Listen, ListenStep, ListenSends, ListenReturns, ListenFails,
     CloseSubscription, RemoveStep, Unlistened, UnlistenDrops, UnlistenCrashes, Checkout,
     CheckoutFails, ConnectStep, ConnectReissues, ConnectSucceeds, ConnectFails, TimerFires,
     TimerEnds, Close, CloseStep, CloseUnlistens, CloseEnds, ServerRefuses, ConnectionLost,
     netVars
<1> QED BY <1>1, <1>2, <1>3, <1>4

LEMMA GrantsStep ==
  ASSUME HubInv, RestOK, [HubNext]_vars
  PROVE  alive' \subseteq 1..granted' /\ held' \subseteq 1..granted'
         /\ faults' \in 0..MaxFaults
<1> USE HubAssumption DEF HubInv, ConnOK, RestOK
<1>1. CASE Checkout
  <2>1. granted' = granted + 1 /\ UNCHANGED faults
        /\ alive' \subseteq alive \cup {granted'} /\ held' \subseteq held \cup {granted'}
    BY <1>1 DEF Checkout
  <2> QED BY <2>1
<1>2. CASE alive' \subseteq alive /\ held' \subseteq held /\ granted' = granted
           /\ (faults' = faults \/ (faults < MaxFaults /\ faults' = faults + 1))
  BY <1>2
<1>3. CASE \/ UNCHANGED vars
           \/ \E s \in Subs, ch \in Channels : Listen(s, ch)
           \/ \E s \in Subs : ListenStep(s) \/ CloseSubscription(s) \/ Unlistened(s)
                            \/ UnlistenCrashes(s)
           \/ CheckoutFails \/ (\E ch \in Channels : ConnectReissues(ch)) \/ ConnectSucceeds
           \/ TimerFires \/ TimerEnds \/ Close \/ CloseStep
           \/ \E c \in Conns : ServerAnswers(c) \/ ServerRefuses(c)
  <2>1. alive' = alive /\ held' \subseteq held /\ granted' = granted
        /\ (faults' = faults \/ (faults < MaxFaults /\ faults' = faults + 1))
    BY <1>3 DEF vars, Listen, ListenStep, ListenSends, ListenReturns, ListenFails,
       CloseSubscription, Unlistened, UnlistenCrashes, CheckoutFails, ConnectReissues,
       ConnectSucceeds, TimerFires, TimerEnds, Close, CloseStep, CloseUnlistens, CloseEnds,
       ServerAnswers, ServerRefuses, netVars
  <2> QED BY <1>2, <2>1
<1>4. CASE ConnectFails \/ (\E s \in Subs : UnlistenDrops(s))
           \/ \E c \in Conns : ConnectionLost(c)
  <2>1. alive' \subseteq alive /\ held' \subseteq held /\ granted' = granted
        /\ (faults' = faults \/ (faults < MaxFaults /\ faults' = faults + 1))
    BY <1>4 DEF ConnectFails, UnlistenDrops, ConnectionLost, Drop, SessionEnds
  <2> QED BY <1>2, <2>1
<1> QED BY <1>1, <1>3, <1>4 DEF HubNext, RemoveStep, ConnectStep

LEMMA HubRest == Spec => []RestOK
<1>1. HubInit => RestOK
  BY HubAssumption DEF HubInit, RestOK
<1>2. HubInv /\ RestOK /\ [HubNext]_vars => RestOK'
  BY ChannelsStep, ServerStep, GrantsStep DEF RestOK
<1> QED BY <1>1, <1>2, HubInvariant, PTL DEF Spec

(***************************************************************************)
(* Type correctness, with the bounds of the pool and of the faults.        *)
(***************************************************************************)
THEOREM HubTypeCorrect == Spec => []HubTypeOK
<1>1. HubInit => timerTask \in BOOLEAN
  BY DEF HubInit
<1>2. timerTask \in BOOLEAN /\ [HubNext]_vars => (timerTask \in BOOLEAN)'
  <2> SUFFICES ASSUME timerTask \in BOOLEAN, [HubNext]_vars
               PROVE  timerTask' \in {timerTask, TRUE, FALSE}
    OBVIOUS
  <2> QED
    BY DEF HubNext, vars, Listen, ListenStep, ListenSends, ListenReturns, ListenFails,
       CloseSubscription, RemoveStep, Unlistened, UnlistenDrops, UnlistenCrashes, Checkout,
       CheckoutFails, ConnectStep, ConnectReissues, ConnectSucceeds, ConnectFails, TimerFires,
       TimerEnds, Close, CloseStep, CloseUnlistens, CloseEnds, ServerAnswers, ServerRefuses,
       ConnectionLost
<1>3. HubInv /\ RestOK /\ timerTask \in BOOLEAN => HubTypeOK
  <2> SUFFICES ASSUME HubInv, RestOK, timerTask \in BOOLEAN PROVE HubTypeOK
    OBVIOUS
  <2>1. timer \in BOOLEAN
    BY DEF HubInv, TimerOK
  <2>2. awaiting \subseteq Owners \ {"connect"} /\ (awaiting # {} => connecting # "none")
    BY DEF HubInv, ReplyOK
  <2>3. \A c \in Conns : wire[c] # <<>> => c \in alive
    BY DEF HubInv, WireOK
  <2> QED BY <2>1, <2>2, <2>3 DEF HubTypeOK, HubInv, ConnOK, ReplyOK, EntriesOK, RestOK
<1> QED BY <1>1, <1>2, <1>3, HubInvariant, HubRest, PTL DEF Spec
-----------------------------------------------------------------------------
(***************************************************************************)
(* What the server listens to.                                             *)
(***************************************************************************)

\* The hub's connection works, or is not the hub's any more; a connect task
\* learns that its LISTEN failed from the loss of the connection only.
ClientOK ==
  /\ client \in alive \cup {None}
  /\ client = None => listened = {}
  /\ reply["connect"] = "err" => client = None
  /\ reply["connect"] = "ok" => client \in alive /\ \A x \in Owners : reply[x] # "err"

\* A query q that is under way is what its owner waits for.
Fits(q) ==
  \/ q.owner = "connect" /\ q.cmd = "listen" /\ q.ch = visiting
  \/ /\ q.owner \in Subs /\ q.ch = chan[q.owner]
     /\ \/ q.cmd = "listen" /\ task[q.owner] = "listening"
        \/ q.cmd = "unlisten" /\ Removing(q.owner)

FitOK == \A q \in Queries : OnWire(wire, q) => Fits(q)

\* No channel that is being unlistened has a subscription in the map.
RemovalOK == \A s \in Subs : Removing(s) => chan[s] \notin ChannelsOf(entries)

\* What the loop of the connect task came by, of the channels of the map.
VisitedOK ==
  /\ connecting # "listening" => visited = {} /\ visiting = None
  /\ visited \subseteq ChannelsOf(entries)
  /\ client # None => visited \subseteq listened \cup {visiting}
  /\ \A s \in entries : sub[s] # "closed"

\* The server listens to what the hub takes for listened to, unless that is
\* being unlistened, and to what was just answered.
ServerOK ==
  /\ client # None => \A ch \in listened : ch \in server[client] \/ Unlistening(ch)
  /\ \A s \in Subs : Answered(s) => chan[s] \in server[client]
  /\ reply["connect"] = "ok" /\ visiting # None => visiting \in server[client]

\* Connected subscriptions are on channels that are listened to.
ConnectedOK == \A s \in entries : sub[s] = "connected" => chan[s] \in listened

Parts == ClientOK /\ FitOK /\ RemovalOK /\ VisitedOK /\ ServerOK /\ ConnectedOK

ListenInv == ~closing => Parts

-----------------------------------------------------------------------------
\* Until close(), the hub has at most one connection, the one it uses.
LEMMA OpenFacts ==
  ASSUME HubInv, ClientOK, closer = "none"
  PROVE  /\ held = {client} \ {None} /\ (client # None => client \in Conns /\ client \in alive)
         /\ \A c \in Conns : wire[c] # <<>> => c = client
         /\ None \notin Conns /\ ~Sends(wire, "close")
BY HubAssumption DEF HubInv, ConnOK, ConnectionsAreOwned, WireOK, ClientOK, Owners

LEMMA OnWireSends ==
  ASSUME NEW w, NEW q, OnWire(w, q)
  PROVE  Sends(w, q.owner)
BY DEF OnWire, Sends

\* x sends a query on the connection of the hub.
Put(x, command, ch) ==
  /\ reply' = [reply EXCEPT ![x] = "none"]
  /\ \A q \in Queries : OnWire(wire', q) =>
       (OnWire(wire, q) \/ q = [cmd |-> command, ch |-> ch, owner |-> x])

LEMMA OpenAsk ==
  ASSUME HubInv, ClientOK, closer = "none", NEW x \in Owners \ {"timer"}, ~Sends(wire, x),
         client # None, NEW command \in {"listen", "unlisten"}, NEW ch \in Channels,
         Query(x, client, command, ch)
  PROVE  Put(x, command, ch)
<1>1. client \in Conns /\ client \in alive
  BY OpenFacts
<1>2. Asked(x, client, command, ch)
  BY <1>1, QueryFacts DEF HubInv
<1>3. reply' = [reply EXCEPT ![x] = "none"]
  BY <1>1 DEF Query, Consumed
<1> QED BY <1>2, <1>3 DEF Put, Asked

\* What remove() does to a subscription of the map.
Removed(s, while, after) ==
  /\ s \in entries /\ entries' = entries \ {s} /\ sub' = [sub EXCEPT ![s] = "closed"]
  /\ visited' = IF chan[s] \in ChannelsOf(entries \ {s}) THEN visited ELSE visited \ {chan[s]}
  /\ \/ /\ client # None /\ chan[s] \notin ChannelsOf(entries \ {s})
        /\ task' = [task EXCEPT ![s] = while] /\ Put(s, "unlisten", chan[s])
        /\ listened' = listened
     \/ /\ task' = [task EXCEPT ![s] = after]
        /\ reply' = [reply EXCEPT ![s] = "none"] /\ wire' = wire
        /\ listened' = IF chan[s] \in ChannelsOf(entries \ {s}) THEN listened
                       ELSE listened \ {chan[s]}

LEMMA OpenRemove ==
  ASSUME HubInv, ClientOK, VisitedOK, closer = "none", NEW s \in Subs, ~Sends(wire, s),
         task[s] \in {"connecting", "listening", "open"},
         NEW while, NEW after, RemoveSub(s, while, after)
  PROVE  Removed(s, while, after)
<1>1. s \in entries /\ sub[s] # "closed" /\ chan[s] \in Channels
  BY DEF HubInv, EntriesOK, VisitedOK
<1>2. Others(s) # {} <=> chan[s] \in ChannelsOf(entries \ {s})
  BY DEF Others, ChannelsOf
<1>3. entries' = entries \ {s} /\ sub' = [sub EXCEPT ![s] = "closed"]
      /\ visited' = IF chan[s] \in ChannelsOf(entries \ {s}) THEN visited
                    ELSE visited \ {chan[s]}
  BY <1>1, <1>2 DEF RemoveSub
<1>4. CASE /\ Others(s) = {} /\ client # None /\ task' = [task EXCEPT ![s] = while]
           /\ Query(s, client, "unlisten", chan[s]) /\ UNCHANGED listened
  <2>1. s \in Owners \ {"timer"}
    BY HubAssumption DEF Owners
  <2>2. Put(s, "unlisten", chan[s])
    BY <1>1, <1>4, <2>1, OpenAsk
  <2> QED BY <1>1, <1>2, <1>3, <1>4, <2>2 DEF Removed
<1>5. CASE /\ task' = [task EXCEPT ![s] = after] /\ reply' = Consumed(reply, s) /\ wire' = wire
           /\ listened' = IF sub[s] = "closed" \/ Others(s) # {} THEN listened
                          ELSE listened \ {chan[s]}
  BY <1>1, <1>2, <1>3, <1>5 DEF Removed, Consumed
<1> QED BY <1>4, <1>5 DEF RemoveSub

\* A step taken before close().
Step == [HubNext]_vars /\ closer = "none" /\ closer' = "none" /\ ~Relisten /\ ~ListenMayFail

\* s is resumed with no query under way, and asks or consumes its reply.
LEMMA OpenListenSends ==
  ASSUME HubInv, ClientOK, closer = "none", NEW s \in Subs, ListenSends(s)
  PROVE  /\ Put(s, "listen", chan[s]) /\ task' = [task EXCEPT ![s] = "listening"]
         /\ ~Sends(wire, s) /\ task[s] = "connecting"
<1>1. task[s] = "connecting" /\ reply[s] = "ok" /\ Query(s, client, "listen", chan[s])
      /\ client # None /\ task' = [task EXCEPT ![s] = "listening"]
  BY DEF ListenSends
<1>2. s \in Owners \ {"timer"} /\ ~Sends(wire, s) /\ chan[s] \in Channels
  BY <1>1, HubAssumption DEF Owners, HubInv, WireOK, EntriesOK
<1> QED BY <1>1, <1>2, OpenAsk

LEMMA OpenReissues ==
  ASSUME HubInv, ClientOK, closer = "none", NEW ch \in Channels, ConnectReissues(ch)
  PROVE  Put("connect", "listen", ch) /\ ~Sends(wire, "connect")
<1>1. reply["connect"] = "ok" /\ Query("connect", client, "listen", ch) /\ client # None
  BY DEF ConnectReissues
<1>2. "connect" \in Owners \ {"timer"} /\ ~Sends(wire, "connect")
  BY <1>1 DEF Owners, HubInv, WireOK
<1> QED BY <1>1, <1>2, OpenAsk

LEMMA OpenRemoves ==
  ASSUME HubInv, ClientOK, VisitedOK, closer = "none", NEW s \in Subs,
         ListenFails(s) \/ CloseSubscription(s)
  PROVE  /\ ~Sends(wire, s)
         /\ \E while \in {"abandoning", "unlistening"}, after \in {"failed", "closed"} :
              Removed(s, while, after)
<1>1. PICK while \in {"abandoning", "unlistening"}, after \in {"failed", "closed"} :
        RemoveSub(s, while, after)
  BY DEF ListenFails, CloseSubscription
<1>2. task[s] \in {"connecting", "listening", "open"} /\ (task[s] = "open" \/ reply[s] # "none")
  BY DEF ListenFails, CloseSubscription
<1>3. ~Sends(wire, s)
  BY <1>2 DEF HubInv, WireOK, Owners
<1>4. Removed(s, while, after)
  BY <1>1, <1>2, <1>3, OpenRemove
<1> QED BY <1>3, <1>4

\* The only connection that can be lost is the hub's.
LEMMA OpenLost ==
  ASSUME HubInv, ClientOK, closer = "none", NEW c \in Conns, ConnectionLost(c)
  PROVE  /\ c = client /\ client' = None /\ listened' = {} /\ Quiet
         /\ sub' = SetStates(entries, "reconnecting")
         /\ RejectedOn(reply', reply, c)
<1>1. c \in held /\ reply' = Rejected(reply, c) /\ Quiet
  BY DEF ConnectionLost
<1>2. c = client
  BY <1>1, OpenFacts
<1>3. Drop
  BY <1>2 DEF ConnectionLost, closing
<1> QED BY <1>1, <1>2, <1>3, RejectedFacts DEF Drop, HubInv, ReplyOK

\* A failed UNLISTEN drops the connection of the hub.
LEMMA OpenDrops ==
  ASSUME HubInv, ClientOK, closer = "none", NEW s \in Subs, UnlistenDrops(s)
  PROVE  /\ Removing(s) /\ reply[s] = "err" /\ client \in Conns /\ client' = None
         /\ listened' = {} /\ sub' = SetStates(entries, "reconnecting")
         /\ RejectedOn(reply', [reply EXCEPT ![s] = "none"], client) /\ ~Sends(wire, s)
         /\ \E state \in {"failed", "closed"} : task' = [task EXCEPT ![s] = state]
<1>1. Removing(s) /\ reply[s] = "err" /\ client # None /\ Drop
      /\ reply' = Rejected([reply EXCEPT ![s] = "none"], client)
  BY DEF UnlistenDrops, Consumed
<1>2. client \in Conns
  BY <1>1 DEF HubInv, ConnOK
<1>3. [reply EXCEPT ![s] = "none"] \in [Owners -> {"none", "ok", "err"}]
  BY DEF HubInv, ReplyOK
<1>4. ~Sends(wire, s)
  BY <1>1 DEF HubInv, WireOK, Owners
<1>5. \E state \in {"failed", "closed"} : task' = [task EXCEPT ![s] = state]
  BY DEF UnlistenDrops, AfterRemoval
<1> QED BY <1>1, <1>2, <1>3, <1>4, <1>5, RejectedFacts DEF Drop, HubInv

\* The answer to the oldest query of the hub's connection.
LEMMA OpenAnswers ==
  ASSUME HubInv, ClientOK, FitOK, closer = "none", NEW c \in Conns,
         ServerAnswers(c) \/ ServerRefuses(c)
  PROVE  /\ c = client /\ client \in alive /\ Quiet /\ Head(wire[c]) \in Queries
         /\ Fits(Head(wire[c])) /\ Sends(wire, Head(wire[c]).owner)
         /\ \A q \in Queries : OnWire(wire', q) => OnWire(wire, q)
<1>1. wire[c] # <<>> /\ wire' = [wire EXCEPT ![c] = Tail(@)] /\ Quiet
  BY DEF ServerAnswers, ServerRefuses
<1>2. c = client /\ client \in alive
  BY <1>1, OpenFacts
<1>3. Popped(wire', wire, c)
  BY <1>1, WirePop DEF HubInv, WireOK
<1> QED BY <1>1, <1>2, <1>3 DEF Popped, FitOK

(***************************************************************************)
(* The connection of the hub.                                              *)
(***************************************************************************)
LEMMA ClientFrame ==
  ASSUME ClientOK, UNCHANGED <<client, alive>>, client = None => listened' \subseteq listened,
         reply'["connect"] \in {"none", reply["connect"]},
         \A x \in Owners : reply'[x] = "err" => reply[x] = "err"
  PROVE  ClientOK'
BY DEF ClientOK

LEMMA ClientStep ==
  ASSUME HubInv, Parts, Step
  PROVE  ClientOK'
<1> USE HubAssumption DEF Parts
<1>1. CASE UNCHANGED vars
  BY <1>1, ClientFrame DEF vars, netVars
<1>2. ASSUME NEW s \in Subs, NEW ch \in Channels, Listen(s, ch)
      PROVE  ClientOK'
  <2>1. UNCHANGED <<client, alive, listened>>
    BY <1>2 DEF Listen, netVars
  <2>2. PICK r \in {"ok", "none"} : reply' = [reply EXCEPT ![s] = r]
    BY <1>2 DEF Listen, EnsureConnected, Settled, Consumed
  <2> QED BY <2>1, <2>2, ClientFrame DEF HubInv, ReplyOK, Owners
<1>3. ASSUME NEW s \in Subs, ListenStep(s) \/ CloseSubscription(s)
      PROVE  ClientOK'
  <2>1. UNCHANGED <<client, alive>>
    BY <1>3 DEF ListenStep, ListenSends, ListenReturns, ListenFails, CloseSubscription, netVars
  <2>2. reply' = [reply EXCEPT ![s] = "none"]
    <3>1. CASE ListenSends(s)
      BY <3>1, OpenListenSends DEF Put, Step
    <3>2. CASE ListenReturns(s)
      BY <3>2 DEF ListenReturns, Opened, Consumed
    <3>3. CASE ListenFails(s) \/ CloseSubscription(s)
      BY <3>3, OpenRemoves DEF Removed, Put, Step
    <3> QED BY <1>3, <3>1, <3>2, <3>3 DEF ListenStep
  <2>3. client = None => listened' \subseteq listened
    <3>1. CASE ListenSends(s)
      BY <3>1 DEF ListenSends
    <3>2. CASE ListenReturns(s)
      BY <3>2 DEF ListenReturns, HubInv, ConnOK, AnsweredOK, Answered, Step
    <3>3. CASE ListenFails(s) \/ CloseSubscription(s)
      BY <3>3, OpenRemoves DEF Removed, Step
    <3> QED BY <1>3, <3>1, <3>2, <3>3 DEF ListenStep
  <2> QED BY <2>1, <2>2, <2>3, ClientFrame DEF HubInv, ReplyOK, Owners
<1>4. ASSUME NEW s \in Subs, Unlistened(s) \/ UnlistenCrashes(s)
      PROVE  ClientOK'
  <2>1. UNCHANGED <<client, alive>> /\ listened' \subseteq listened
        /\ reply' = [reply EXCEPT ![s] = "none"]
    BY <1>4 DEF Unlistened, UnlistenCrashes, Consumed, netVars
  <2> QED BY <2>1, ClientFrame DEF HubInv, ReplyOK, Owners
<1>5. ASSUME NEW s \in Subs, UnlistenDrops(s)
      PROVE  ClientOK'
  <2>1. client' = None /\ listened' = {} /\ reply[s] = "err" /\ client \in Conns
        /\ RejectedOn(reply', [reply EXCEPT ![s] = "none"], client)
    BY <1>5, OpenDrops DEF Step
  <2>2. reply["connect"] # "ok"
    BY <2>1 DEF ClientOK, Owners
  <2>3. reply'["connect"] # "ok"
    BY <2>1, <2>2 DEF RejectedOn, Owners, HubInv, ReplyOK
  <2> QED BY <2>1, <2>3 DEF ClientOK
<1>6. CASE Checkout
  <2>1. client' = granted' /\ alive' = alive \cup {granted'} /\ Quiet /\ granted' \in Conns
        /\ reply' = [reply EXCEPT !["connect"] = "ok"]
    BY <1>6 DEF Checkout, Settled, closing, Step, Conns, HubInv, ConnOK
  <2> QED BY <2>1 DEF ClientOK, Quiet, HubInv, ReplyOK, Owners
<1>7. CASE CheckoutFails \/ ConnectSucceeds
  <2>1. PICK result \in {"ok", "err"} : ConnectSettles(result, reply)
    BY <1>7 DEF CheckoutFails, ConnectSucceeds
  <2>2. reply'["connect"] = "none"
    BY <2>1, ConnectSettlesFacts DEF HubInv, ReplyOK, Owners
  <2>3. UNCHANGED <<client, alive>> /\ (client = None => listened' = listened)
    BY <1>7 DEF CheckoutFails, ConnectSucceeds, netVars, ClientOK, HubInv, ConnOK
  <2> QED BY <2>2, <2>3 DEF ClientOK
<1>8. CASE ConnectFails
  <2>1. reply["connect"] = "err" /\ listened' = listened /\ client = None /\ client' = None
    BY <1>8 DEF ConnectFails, ClientOK, HubInv, ConnOK
  <2>2. reply'["connect"] = "none"
    <3>1. PICK rs : ConnectSettles("err", rs)
      BY <1>8 DEF ConnectFails
    <3> QED BY <3>1, ConnectSettlesFacts DEF HubInv, ReplyOK, Owners
  <2> QED BY <2>1, <2>2 DEF ClientOK
<1>9. ASSUME NEW ch \in Channels, ConnectReissues(ch)
      PROVE  ClientOK'
  <2>1. UNCHANGED <<client, alive>> /\ client # None
    BY <1>9 DEF ConnectReissues, netVars
  <2>2. reply' = [reply EXCEPT !["connect"] = "none"]
    BY <1>9, OpenReissues DEF Put, Step
  <2> QED BY <2>1, <2>2, ClientFrame DEF HubInv, ReplyOK, Owners
<1>10. CASE TimerFires \/ TimerEnds
  <2>1. UNCHANGED <<client, alive, listened>>
    BY <1>10 DEF TimerFires, TimerEnds, netVars
  <2>2. PICK r \in {"ok", "none"} : reply' = reply \/ reply' = [reply EXCEPT !["timer"] = r]
    BY <1>10 DEF TimerFires, TimerEnds, EnsureConnected, Settled, Consumed
  <2> QED BY <2>1, <2>2, ClientFrame DEF HubInv, ReplyOK, Owners
<1>11. ASSUME NEW c \in Conns, ServerAnswers(c)
       PROVE  ClientOK'
  <2>1. c = client /\ client \in alive /\ Quiet /\ UNCHANGED <<client, alive, listened>>
    BY <1>11, OpenAnswers DEF ServerAnswers, Step
  <2>2. reply' = [reply EXCEPT ![Head(wire[c]).owner] = "ok"]
    BY <1>11 DEF ServerAnswers, Settled
  <2>3. \A x \in Owners : reply'[x] \in {"none", "ok"}
    BY <2>1, <2>2 DEF Quiet, HubInv, ReplyOK
  <2> QED BY <2>1, <2>3 DEF ClientOK, Owners
<1>12. ASSUME NEW c \in Conns, ServerRefuses(c)
       PROVE  ClientOK'
  <2>1. c = client /\ client \in alive /\ Quiet /\ Fits(Head(wire[c]))
        /\ UNCHANGED <<client, alive, listened>>
    BY <1>12, OpenAnswers DEF ServerRefuses, netVars, Step
  <2>2. Head(wire[c]).cmd # "listen" /\ reply' = [reply EXCEPT ![Head(wire[c]).owner] = "err"]
    BY <1>12 DEF ServerRefuses, Settled, Step
  <2>3. Head(wire[c]).owner # "connect"
    BY <2>1, <2>2 DEF Fits
  <2>4. reply'["connect"] = "none"
    BY <2>1, <2>2, <2>3 DEF Quiet, HubInv, ReplyOK, Owners
  <2> QED BY <2>1, <2>4 DEF ClientOK
<1>13. ASSUME NEW c \in Conns, ConnectionLost(c)
       PROVE  ClientOK'
  <2>1. client' = None /\ listened' = {} /\ Quiet /\ RejectedOn(reply', reply, c)
    BY <1>13, OpenLost DEF Step
  <2>2. reply'["connect"] # "ok"
    BY <2>1 DEF RejectedOn, Quiet, Owners
  <2> QED BY <2>1, <2>2 DEF ClientOK
<1> QED BY <1>1, <1>2, <1>3, <1>4, <1>5, <1>6, <1>7, <1>8, <1>9, <1>10, <1>11, <1>12, <1>13
        DEF Step, HubNext, ConnectStep, RemoveStep, CloseStep, Close, CloseUnlistens, CloseEnds

(***************************************************************************)
(* The queries that are under way.                                         *)
(***************************************************************************)
LEMMA FitFrame ==
  ASSUME FitOK, \A q \in Queries : OnWire(wire', q) => (OnWire(wire, q) \/ Fits(q)'),
         \A s \in Subs : Sends(wire, s) => task'[s] = task[s] /\ chan'[s] = chan[s],
         Sends(wire, "connect") => visiting' = visiting
  PROVE  FitOK'
<1> SUFFICES ASSUME NEW q \in Queries, OnWire(wire, q) PROVE Fits(q)'
  BY DEF FitOK
<1>1. Fits(q) /\ Sends(wire, q.owner)
  BY OnWireSends DEF FitOK
<1> QED BY <1>1 DEF Fits, Removing

LEMMA FitStep ==
  ASSUME HubInv, Parts, Step
  PROVE  FitOK'
<1> USE HubAssumption DEF Parts
<1>1. CASE UNCHANGED vars
  BY <1>1, FitFrame DEF vars, subVars, connVars
<1>2. ASSUME NEW s \in Subs, NEW ch \in Channels, Listen(s, ch)
      PROVE  FitOK'
  <2>1. UNCHANGED <<wire, visiting>> /\ task[s] = "idle"
        /\ task' = [task EXCEPT ![s] = "connecting"] /\ chan' = [chan EXCEPT ![s] = ch]
    BY <1>2 DEF Listen
  <2>2. ~Sends(wire, s)
    BY <2>1 DEF HubInv, WireOK
  <2> QED BY <2>1, <2>2, FitFrame DEF HubInv, EntriesOK
<1>3. ASSUME NEW s \in Subs, ListenSends(s)
      PROVE  FitOK'
  <2>1. UNCHANGED <<visiting, chan>>
    BY <1>3 DEF ListenSends, connVars
  <2>2. Put(s, "listen", chan[s]) /\ task' = [task EXCEPT ![s] = "listening"] /\ ~Sends(wire, s)
    BY <1>3, OpenListenSends DEF Step
  <2>3. Fits([cmd |-> "listen", ch |-> chan[s], owner |-> s])'
    BY <2>1, <2>2 DEF Fits, HubInv, EntriesOK
  <2> QED BY <2>1, <2>2, <2>3, FitFrame DEF Put, HubInv, EntriesOK
<1>4. ASSUME NEW s \in Subs, ListenReturns(s) \/ Unlistened(s) \/ UnlistenCrashes(s)
      PROVE  FitOK'
  <2>1. UNCHANGED <<wire, visiting, chan>> /\ reply[s] # "none"
    BY <1>4 DEF ListenReturns, Unlistened, UnlistenCrashes, connVars
  <2>2. PICK state \in {"open", "failed", "closed", "crashed"} :
          task' = [task EXCEPT ![s] = state]
    BY <1>4 DEF ListenReturns, Opened, Unlistened, UnlistenCrashes, AfterRemoval
  <2>3. ~Sends(wire, s)
    BY <2>1 DEF HubInv, WireOK, Owners
  <2> QED BY <2>1, <2>2, <2>3, FitFrame DEF HubInv, EntriesOK
<1>5. ASSUME NEW s \in Subs, ListenFails(s) \/ CloseSubscription(s)
      PROVE  FitOK'
  <2>1. UNCHANGED <<visiting, chan>>
    BY <1>5 DEF ListenFails, CloseSubscription
  <2>2. PICK while \in {"abandoning", "unlistening"}, after \in {"failed", "closed"} :
          Removed(s, while, after)
    BY <1>5, OpenRemoves DEF Step
  <2>3. ~Sends(wire, s)
    BY <1>5, OpenRemoves DEF Step
  <2>4. CASE task' = [task EXCEPT ![s] = while] /\ Put(s, "unlisten", chan[s])
    <3>1. Fits([cmd |-> "unlisten", ch |-> chan[s], owner |-> s])'
      BY <2>1, <2>4 DEF Fits, Removing, HubInv, EntriesOK
    <3> QED BY <2>1, <2>3, <2>4, <3>1, FitFrame DEF Put, HubInv, EntriesOK
  <2>5. CASE task' = [task EXCEPT ![s] = after] /\ wire' = wire
    BY <2>1, <2>3, <2>5, FitFrame DEF HubInv, EntriesOK
  <2> QED BY <2>2, <2>4, <2>5 DEF Removed
<1>6. ASSUME NEW s \in Subs, UnlistenDrops(s)
      PROVE  FitOK'
  <2>1. UNCHANGED <<visiting, chan>>
        /\ wire' = [d \in Conns |-> IF d = client THEN <<>> ELSE wire[d]]
    BY <1>6 DEF UnlistenDrops, SessionEnds, connVars
  <2>2. ~Sends(wire, s) /\ \E state \in {"failed", "closed"} : task' = [task EXCEPT ![s] = state]
    BY <1>6, OpenDrops DEF Step
  <2>3. Cleared(wire', wire, client)
    BY <2>1, WireClear DEF HubInv, WireOK
  <2> QED BY <2>1, <2>2, <2>3, FitFrame DEF Cleared, HubInv, EntriesOK
<1>7. CASE Checkout \/ TimerFires \/ TimerEnds
  <2>1. UNCHANGED <<wire, visiting, task, chan>>
    BY <1>7 DEF Checkout, TimerFires, TimerEnds, closing, Step, subVars, connVars
  <2> QED BY <2>1, FitFrame
<1>8. CASE CheckoutFails \/ ConnectSucceeds
  <2>1. UNCHANGED <<wire, task, chan>> /\ (connecting # "listening" \/ reply["connect"] # "none")
    BY <1>8 DEF CheckoutFails, ConnectSucceeds, subVars
  <2>2. ~Sends(wire, "connect")
    BY <2>1 DEF HubInv, WireOK, Owners
  <2> QED BY <2>1, <2>2, FitFrame
<1>9. CASE ConnectFails
  <2>1. UNCHANGED <<task, chan>> /\ reply["connect"] # "none"
        /\ wire' = [d \in Conns |-> IF d = client THEN <<>> ELSE wire[d]]
    BY <1>9 DEF ConnectFails, subVars, SessionEnds
  <2>2. ~Sends(wire, "connect")
    BY <2>1 DEF HubInv, WireOK, Owners
  <2>3. Cleared(wire', wire, client)
    BY <2>1, WireClear DEF HubInv, WireOK
  <2> QED BY <2>1, <2>2, <2>3, FitFrame DEF Cleared
<1>10. ASSUME NEW ch \in Channels, ConnectReissues(ch)
       PROVE  FitOK'
  <2>1. UNCHANGED <<task, chan>> /\ visiting' = ch
    BY <1>10 DEF ConnectReissues, subVars
  <2>2. Put("connect", "listen", ch) /\ ~Sends(wire, "connect")
    BY <1>10, OpenReissues DEF Step
  <2>3. Fits([cmd |-> "listen", ch |-> ch, owner |-> "connect"])'
    BY <2>1 DEF Fits
  <2> QED BY <2>1, <2>2, <2>3, FitFrame DEF Put
<1>11. ASSUME NEW c \in Conns, ServerAnswers(c) \/ ServerRefuses(c)
       PROVE  FitOK'
  <2>1. UNCHANGED <<visiting, task, chan>>
    BY <1>11 DEF ServerAnswers, ServerRefuses, subVars, connVars
  <2>2. \A q \in Queries : OnWire(wire', q) => OnWire(wire, q)
    BY <1>11, OpenAnswers DEF Step
  <2> QED BY <2>1, <2>2, FitFrame
<1>12. ASSUME NEW c \in Conns, ConnectionLost(c)
       PROVE  FitOK'
  <2>1. UNCHANGED <<visiting, task, chan>>
        /\ wire' = [d \in Conns |-> IF d = c THEN <<>> ELSE wire[d]]
    BY <1>12 DEF ConnectionLost, SessionEnds, connVars
  <2>2. Cleared(wire', wire, c)
    BY <2>1, WireClear DEF HubInv, WireOK
  <2> QED BY <2>1, <2>2, FitFrame DEF Cleared
<1> QED BY <1>1, <1>2, <1>3, <1>4, <1>5, <1>6, <1>7, <1>8, <1>9, <1>10, <1>11, <1>12
        DEF Step, HubNext, ListenStep, ConnectStep, RemoveStep, CloseStep, Close, CloseUnlistens,
            CloseEnds

(***************************************************************************)
(* No channel is unlistened while a subscription of the map is on it       *)
(* (notifications.ts:161-171, 286-310).                                    *)
(***************************************************************************)
LEMMA RemovalStep ==
  ASSUME HubInv, Parts, Step
  PROVE  RemovalOK'
<1> USE DEF Parts, RemovalOK
<1>1. ASSUME NEW s \in Subs, NEW ch \in Channels, Listen(s, ch)
      PROVE  RemovalOK'
  <2>1. task[s] = "idle" /\ task' = [task EXCEPT ![s] = "connecting"]
        /\ chan' = [chan EXCEPT ![s] = ch] /\ entries' = entries \cup {s} /\ ~Unlistening(ch)
    BY <1>1 DEF Listen, Step
  <2>2. s \notin entries
    BY <2>1 DEF HubInv, EntriesOK
  <2>3. ChannelsOf(entries)' = ChannelsOf(entries) \cup {ch}
    BY <2>1, <2>2 DEF ChannelsOf, HubInv, EntriesOK
  <2>4. ASSUME NEW o \in Subs, Removing(o)'
        PROVE  Removing(o) /\ chan'[o] = chan[o] /\ chan[o] # ch
    BY <2>1, <2>4 DEF Removing, Unlistening, HubInv, EntriesOK
  <2> QED BY <2>3, <2>4
<1>2. ASSUME NEW s \in Subs, ListenFails(s) \/ CloseSubscription(s)
      PROVE  RemovalOK'
  <2>1. UNCHANGED chan
    BY <1>2 DEF ListenFails, CloseSubscription
  <2>2. PICK while \in {"abandoning", "unlistening"}, after \in {"failed", "closed"} :
          Removed(s, while, after)
    BY <1>2, OpenRemoves DEF Step
  <2>3. ChannelsOf(entries)' = ChannelsOf(entries \ {s})
        /\ ChannelsOf(entries \ {s}) \subseteq ChannelsOf(entries)
    BY <2>1, <2>2 DEF Removed, ChannelsOf
  <2>4. ASSUME NEW o \in Subs, Removing(o)'
        PROVE  Removing(o) \/ (o = s /\ chan[s] \notin ChannelsOf(entries \ {s}))
    BY <2>2, <2>4 DEF Removed, Removing, HubInv, EntriesOK
  <2> QED BY <2>1, <2>3, <2>4
<1>3. ASSUME UNCHANGED <<entries, chan>>, \A o \in Subs : Removing(o)' => Removing(o)
      PROVE  RemovalOK'
  BY <1>3 DEF ChannelsOf
<1>4. ASSUME NEW s \in Subs, ListenSends(s) \/ ListenReturns(s) \/ RemoveStep(s)
      PROVE  RemovalOK'
  <2>1. UNCHANGED <<entries, chan>>
    BY <1>4 DEF ListenSends, ListenReturns, RemoveStep, Unlistened, UnlistenDrops,
       UnlistenCrashes
  <2>2. PICK state \in {"listening", "open", "failed", "closed", "crashed"} :
          task' = [task EXCEPT ![s] = state]
    BY <1>4 DEF ListenSends, ListenReturns, Opened, RemoveStep, Unlistened, UnlistenDrops,
       UnlistenCrashes, AfterRemoval
  <2> QED BY <1>3, <2>1, <2>2 DEF Removing, HubInv, EntriesOK
<1>5. CASE UNCHANGED <<entries, chan, task>>
  BY <1>3, <1>5 DEF Removing
<1>6. CASE \/ UNCHANGED vars \/ Checkout \/ CheckoutFails \/ ConnectStep
           \/ TimerFires \/ TimerEnds
           \/ \E c \in Conns : ServerAnswers(c) \/ ServerRefuses(c) \/ ConnectionLost(c)
  <2>1. UNCHANGED <<entries, chan, task>>
    BY <1>6 DEF vars, subVars, Checkout, CheckoutFails, ConnectStep, ConnectReissues,
       ConnectSucceeds, ConnectFails, TimerFires, TimerEnds, ServerAnswers, ServerRefuses,
       ConnectionLost
  <2> QED BY <1>5, <2>1
<1> QED BY <1>1, <1>2, <1>4, <1>6
        DEF Step, HubNext, ListenStep, CloseStep, Close, CloseUnlistens, CloseEnds

(***************************************************************************)
(* The loop of the connect task over the map (notifications.ts:217-234).   *)
(***************************************************************************)
LEMMA VisitedFrame ==
  ASSUME VisitedOK, UNCHANGED <<visited, visiting, connecting>>,
         ChannelsOf(entries) \subseteq ChannelsOf(entries)',
         client' # None => client # None,
         client' # None => \A ch \in visited : ch \in listened => ch \in listened',
         \A s \in entries' : sub'[s] # "closed"
  PROVE  VisitedOK'
BY DEF VisitedOK

LEMMA VisitedStep ==
  ASSUME HubInv, Parts, Step
  PROVE  VisitedOK'
<1> USE HubAssumption DEF Parts
<1>1. CASE UNCHANGED vars
  BY <1>1 DEF vars, subVars, connVars, VisitedOK, ChannelsOf
<1>2. ASSUME NEW s \in Subs, NEW ch \in Channels, Listen(s, ch)
      PROVE  VisitedOK'
  <2>1. UNCHANGED <<visited, visiting, client, listened>>
        /\ (connecting' = connecting \/ (connecting' = "checkout" /\ connecting = "none"))
    BY <1>2 DEF Listen, EnsureConnected
  <2>2. task[s] = "idle" /\ chan' = [chan EXCEPT ![s] = ch] /\ entries' = entries \cup {s}
        /\ sub' = [sub EXCEPT ![s] = "connecting"]
    BY <1>2 DEF Listen
  <2>3. s \notin entries
    BY <2>2 DEF HubInv, EntriesOK
  <2>4. ChannelsOf(entries) \subseteq ChannelsOf(entries)'
    BY <2>2, <2>3 DEF ChannelsOf, HubInv, EntriesOK
  <2>5. \A o \in entries' : sub'[o] # "closed"
    BY <2>2 DEF VisitedOK, HubInv, EntriesOK
  <2> QED BY <2>1, <2>4, <2>5 DEF VisitedOK
<1>3. ASSUME NEW s \in Subs, ListenSends(s) \/ ListenReturns(s) \/ Unlistened(s)
                            \/ UnlistenCrashes(s)
      PROVE  VisitedOK'
  <2>1. UNCHANGED <<visited, visiting, connecting, chan, entries, client>>
    BY <1>3 DEF ListenSends, ListenReturns, Unlistened, UnlistenCrashes, connVars
  <2>2. client # None => \A ch \in visited : ch \in listened => ch \in listened'
    <3>1. CASE ListenSends(s) \/ ListenReturns(s) \/ UnlistenCrashes(s)
      BY <3>1 DEF ListenSends, ListenReturns, UnlistenCrashes
    <3>2. CASE Unlistened(s)
      <4>1. listened' = listened \ {chan[s]} /\ chan[s] \notin ChannelsOf(entries)
        BY <3>2 DEF Unlistened, RemovalOK
      <4> QED BY <4>1 DEF VisitedOK
    <3> QED BY <1>3, <3>1, <3>2
  <2>3. \A o \in entries : sub'[o] # "closed"
    BY <1>3 DEF ListenSends, ListenReturns, Opened, Unlistened, UnlistenCrashes, VisitedOK,
       HubInv, EntriesOK
  <2> QED BY <2>1, <2>2, <2>3, VisitedFrame DEF ChannelsOf
<1>4. ASSUME NEW s \in Subs, ListenFails(s) \/ CloseSubscription(s)
      PROVE  VisitedOK'
  <2>1. UNCHANGED <<visiting, connecting, chan, client>>
    BY <1>4 DEF ListenFails, CloseSubscription
  <2>2. PICK while \in {"abandoning", "unlistening"}, after \in {"failed", "closed"} :
          Removed(s, while, after)
    BY <1>4, OpenRemoves DEF Step
  <2>3. ChannelsOf(entries)' = ChannelsOf(entries \ {s})
        /\ ChannelsOf(entries) \subseteq ChannelsOf(entries \ {s}) \cup {chan[s]}
    BY <2>1, <2>2 DEF Removed, ChannelsOf
  <2>4. visited' \subseteq visited /\ visited' \subseteq ChannelsOf(entries \ {s})
    BY <2>2, <2>3 DEF Removed, VisitedOK
  <2>5. \A ch \in ChannelsOf(entries \ {s}) : ch \in listened => ch \in listened'
    BY <2>2 DEF Removed
  <2>6. \A o \in entries' : sub'[o] # "closed"
    BY <2>2 DEF Removed, VisitedOK, HubInv, EntriesOK
  <2> QED BY <2>1, <2>3, <2>4, <2>5, <2>6 DEF VisitedOK
<1>5. ASSUME UNCHANGED <<visited, visiting, connecting, chan, entries>>, client' = None,
             sub' = SetStates(entries, "reconnecting")
      PROVE  VisitedOK'
  BY <1>5, VisitedFrame DEF SetStates, ChannelsOf, HubInv, EntriesOK
<1>6. ASSUME NEW s \in Subs, UnlistenDrops(s)
      PROVE  VisitedOK'
  <2>1. UNCHANGED <<visited, visiting, connecting, chan, entries>>
    BY <1>6 DEF UnlistenDrops, connVars
  <2> QED BY <1>5, <1>6, <2>1, OpenDrops DEF Step
<1>7. ASSUME NEW c \in Conns, ConnectionLost(c)
      PROVE  VisitedOK'
  <2>1. UNCHANGED <<visited, visiting, connecting, chan, entries>>
    BY <1>7 DEF ConnectionLost, connVars
  <2> QED BY <1>5, <1>7, <2>1, OpenLost DEF Step
<1>8. CASE Checkout
  <2>1. UNCHANGED <<visited, visiting, chan, entries, sub>> /\ connecting = "checkout"
    BY <1>8 DEF Checkout, closing, Step, subVars
  <2> QED BY <2>1 DEF VisitedOK, ChannelsOf
<1>9. CASE CheckoutFails \/ ConnectSucceeds \/ ConnectFails
  <2>1. connecting' = "none" /\ visiting' = None /\ visited' = {}
    BY <1>9 DEF CheckoutFails, ConnectSucceeds, ConnectFails, ConnectSettles
  <2>2. \A s \in entries' : sub'[s] # "closed"
    BY <1>9 DEF CheckoutFails, ConnectSucceeds, ConnectFails, subVars, SetStates, VisitedOK,
       HubInv, EntriesOK
  <2> QED BY <2>1, <2>2 DEF VisitedOK
<1>10. ASSUME NEW ch \in Channels, ConnectReissues(ch)
       PROVE  VisitedOK'
  <2>1. /\ connecting' = "listening" /\ visiting' = ch /\ visited' = visited \cup {ch}
        /\ ch \in ChannelsOf(entries) /\ listened' = listened \cup ({visiting} \ {None})
        /\ client # None /\ UNCHANGED <<client, sub, chan, entries>>
    BY <1>10 DEF ConnectReissues, Reissued, subVars
  <2>2. ChannelsOf(entries) \subseteq Channels
    BY DEF ChannelsOf, HubInv, EntriesOK
  <2>3. visited \subseteq listened'
    BY <2>1, <2>2 DEF VisitedOK
  <2> QED BY <2>1, <2>3 DEF VisitedOK, ChannelsOf
<1>11. CASE \/ TimerFires \/ TimerEnds
            \/ \E c \in Conns : ServerAnswers(c) \/ ServerRefuses(c)
  <2>1. UNCHANGED <<visited, visiting, chan, entries, sub, client, listened>>
        /\ (connecting' = connecting \/ (connecting' = "checkout" /\ connecting = "none"))
    BY <1>11 DEF TimerFires, TimerEnds, EnsureConnected, ServerAnswers, ServerRefuses, subVars,
       connVars
  <2> QED BY <2>1 DEF VisitedOK, ChannelsOf
<1> QED BY <1>1, <1>2, <1>3, <1>4, <1>6, <1>7, <1>8, <1>9, <1>10, <1>11
        DEF Step, HubNext, ListenStep, ConnectStep, RemoveStep, CloseStep, Close, CloseUnlistens,
            CloseEnds

(***************************************************************************)
(* What the server listens to on the hub's connection.                     *)
(***************************************************************************)
LEMMA ServerFrame ==
  ASSUME ServerOK, HubInv, UNCHANGED <<server, client>>,
         \A ch \in listened' : ch \in listened \/ ch \in server[client],
         \A ch \in listened' : Unlistening(ch) => Unlistening(ch)',
         \A s \in Subs : Answered(s)' => Answered(s) /\ chan'[s] = chan[s],
         reply'["connect"] = "ok" => reply["connect"] = "ok" /\ visiting' = visiting
  PROVE  ServerOK'
BY DEF ServerOK

LEMMA ServerListens ==
  ASSUME HubInv, RestOK, Parts, Step
  PROVE  ServerOK'
<1> USE HubAssumption DEF Parts
<1>1. CASE UNCHANGED vars
  BY <1>1 DEF vars, subVars, connVars, netVars, ServerOK, Answered, Unlistening
<1>2. ASSUME NEW s \in Subs, NEW ch \in Channels, Listen(s, ch)
      PROVE  ServerOK'
  <2>1. UNCHANGED <<visiting, client, listened, server>> /\ task[s] = "idle"
        /\ task' = [task EXCEPT ![s] = "connecting"] /\ chan' = [chan EXCEPT ![s] = ch]
    BY <1>2 DEF Listen, netVars
  <2>2. PICK r \in {"ok", "none"} : reply' = [reply EXCEPT ![s] = r]
    BY <1>2 DEF Listen, EnsureConnected, Settled, Consumed
  <2>3. \A x \in Channels \cup {None} : Unlistening(x) => Unlistening(x)'
    BY <2>1 DEF Unlistening, HubInv, EntriesOK
  <2>4. \A o \in Subs : Answered(o)' => Answered(o) /\ chan'[o] = chan[o]
    BY <2>1, <2>2 DEF Answered, HubInv, EntriesOK, ReplyOK, Owners
  <2>5. reply'["connect"] = reply["connect"]
    BY <2>2 DEF HubInv, ReplyOK, Owners
  <2> QED BY <2>1, <2>3, <2>4, <2>5, ServerFrame DEF Unlistening, HubInv, EntriesOK
<1>3. ASSUME NEW s \in Subs, ListenSends(s)
      PROVE  ServerOK'
  <2>1. UNCHANGED <<visiting, client, listened, server, chan>>
    BY <1>3 DEF ListenSends, connVars, netVars
  <2>2. reply' = [reply EXCEPT ![s] = "none"] /\ task' = [task EXCEPT ![s] = "listening"]
        /\ task[s] = "connecting"
    BY <1>3, OpenListenSends DEF Put, Step
  <2>3. \A x \in listened : Unlistening(x) => Unlistening(x)'
    BY <2>1, <2>2 DEF Unlistening, HubInv, EntriesOK
  <2>4. \A o \in Subs : Answered(o)' => Answered(o) /\ chan'[o] = chan[o]
    BY <2>1, <2>2 DEF Answered, HubInv, EntriesOK, ReplyOK, Owners
  <2>5. reply'["connect"] = reply["connect"]
    BY <2>2 DEF HubInv, ReplyOK, Owners
  <2> QED BY <2>1, <2>3, <2>4, <2>5, ServerFrame
<1>4. ASSUME NEW s \in Subs, ListenReturns(s)
      PROVE  ServerOK'
  <2>1. UNCHANGED <<visiting, client, server, chan>>
        /\ \/ listened' = listened
           \/ listened' = listened \cup {chan[s]} /\ Answered(s)
    BY <1>4 DEF ListenReturns, connVars, netVars, Answered
  <2>2. reply' = [reply EXCEPT ![s] = "none"] /\ task' = [task EXCEPT ![s] = "open"]
        /\ task[s] \in {"connecting", "listening"}
    BY <1>4 DEF ListenReturns, Opened, Consumed
  <2>3. \A x \in listened' : Unlistening(x) => Unlistening(x)'
    BY <2>1, <2>2 DEF Unlistening, HubInv, EntriesOK
  <2>4. \A o \in Subs : Answered(o)' => Answered(o) /\ chan'[o] = chan[o]
    BY <2>1, <2>2 DEF Answered, HubInv, EntriesOK, ReplyOK, Owners
  <2>5. reply'["connect"] = reply["connect"]
    BY <2>2 DEF HubInv, ReplyOK, Owners
  <2>6. \A ch \in listened' : ch \in listened \/ ch \in server[client]
    BY <2>1 DEF ServerOK
  <2> QED BY <2>1, <2>3, <2>4, <2>5, <2>6, ServerFrame
<1>5. ASSUME NEW s \in Subs, ListenFails(s) \/ CloseSubscription(s)
      PROVE  ServerOK'
  <2>1. UNCHANGED <<visiting, client, server, chan>>
    BY <1>5 DEF ListenFails, CloseSubscription, netVars
  <2>2. PICK while \in {"abandoning", "unlistening"}, after \in {"failed", "closed"} :
          Removed(s, while, after)
    BY <1>5, OpenRemoves DEF Step
  <2>3. reply' = [reply EXCEPT ![s] = "none"] /\ listened' \subseteq listened
    BY <2>2 DEF Removed, Put
  <2>4. PICK state \in {"abandoning", "unlistening", "failed", "closed"} :
          task' = [task EXCEPT ![s] = state]
    BY <2>2 DEF Removed
  <2>5. ~Removing(s)
    BY <1>5 DEF ListenFails, CloseSubscription, Removing
  <2>6. \A x \in listened : Unlistening(x) => Unlistening(x)'
    BY <2>1, <2>4, <2>5 DEF Unlistening, Removing, HubInv, EntriesOK
  <2>7. \A o \in Subs : Answered(o)' => Answered(o) /\ chan'[o] = chan[o]
    BY <2>1, <2>3, <2>4 DEF Answered, HubInv, EntriesOK, ReplyOK, Owners
  <2>8. reply'["connect"] = reply["connect"]
    BY <2>3 DEF HubInv, ReplyOK, Owners
  <2> QED BY <2>1, <2>3, <2>6, <2>7, <2>8, ServerFrame
<1>6. ASSUME NEW s \in Subs, Unlistened(s) \/ UnlistenCrashes(s)
      PROVE  ServerOK'
  <2>1. UNCHANGED <<visiting, client, server, chan>> /\ listened' \subseteq listened \ {chan[s]}
        /\ reply' = [reply EXCEPT ![s] = "none"]
    BY <1>6 DEF Unlistened, UnlistenCrashes, Consumed, connVars, netVars
  <2>2. PICK state \in {"failed", "closed", "crashed"} : task' = [task EXCEPT ![s] = state]
    BY <1>6 DEF Unlistened, UnlistenCrashes, AfterRemoval
  <2>3. \A x \in listened' : Unlistening(x) => Unlistening(x)'
    BY <2>1, <2>2 DEF Unlistening, HubInv, EntriesOK
  <2>4. \A o \in Subs : Answered(o)' => Answered(o) /\ chan'[o] = chan[o]
    BY <2>1, <2>2 DEF Answered, HubInv, EntriesOK, ReplyOK, Owners
  <2>5. reply'["connect"] = reply["connect"]
    BY <2>1 DEF HubInv, ReplyOK, Owners
  <2> QED BY <2>1, <2>3, <2>4, <2>5, ServerFrame
<1>7. ASSUME client' = None \/ listened' = {}, \A s \in Subs : ~Answered(s)',
             reply'["connect"] # "ok" \/ visiting' = None
      PROVE  ServerOK'
  BY <1>7 DEF ServerOK
<1>8. ASSUME NEW s \in Subs, UnlistenDrops(s)
      PROVE  ServerOK'
  <2>1. client' = None /\ reply[s] = "err" /\ Removing(s)
        /\ RejectedOn(reply', [reply EXCEPT ![s] = "none"], client)
        /\ \E state \in {"failed", "closed"} : task' = [task EXCEPT ![s] = state]
    BY <1>8, OpenDrops DEF Step
  <2>2. \A x \in Owners : reply'[x] = "ok" => reply[x] = "ok"
    BY <2>1 DEF RejectedOn, HubInv, ReplyOK
  <2>3. \A o \in Subs : ~Answered(o)
    BY <2>1 DEF HubInv, AnsweredOK, Owners
  <2>4. \A o \in Subs : ~Answered(o)'
    BY <2>1, <2>2, <2>3 DEF Answered, HubInv, EntriesOK, Owners
  <2>5. reply["connect"] # "ok"
    BY <2>1 DEF ClientOK, Owners
  <2> QED BY <1>7, <2>1, <2>2, <2>4, <2>5 DEF Owners
<1>9. CASE Checkout
  <2>1. Quiet /\ reply' = [reply EXCEPT !["connect"] = "ok"] /\ listened' = {}
        /\ visiting' = visiting /\ connecting = "checkout"
    BY <1>9 DEF Checkout, Settled, closing, Step
  <2>2. \A o \in Subs : ~Answered(o)'
    BY <2>1 DEF Answered, Quiet, HubInv, ReplyOK, Owners
  <2>3. visiting = None
    BY <2>1 DEF VisitedOK
  <2> QED BY <1>7, <2>1, <2>2, <2>3
<1>10. CASE CheckoutFails
  <2>1. ConnectSettles("err", reply) /\ Quiet /\ UNCHANGED client /\ connecting = "checkout"
    BY <1>10 DEF CheckoutFails
  <2>2. reply'["connect"] # "ok" /\ \A x \in Owners : reply'[x] # "ok"
    BY <2>1, ConnectSettlesFacts DEF Quiet, Owners
  <2>3. client = None
    BY <2>1 DEF HubInv, ConnOK
  <2> QED BY <1>7, <2>1, <2>2, <2>3 DEF Answered, Owners
<1>11. CASE ConnectFails
  <2>1. reply["connect"] = "err" /\ client = None /\ client' = None
        /\ ConnectSettles("err", reply) /\ UNCHANGED task
    BY <1>11 DEF ConnectFails, ClientOK, HubInv, ConnOK, subVars
  <2>2. \A o \in Subs : ~Answered(o)
    BY <2>1 DEF HubInv, AnsweredOK, Owners
  <2>3. reply' = [x \in Owners |-> IF x \in awaiting THEN "err"
                                  ELSE IF x = "connect" THEN "none" ELSE reply[x]]
    BY <2>1, ConnectSettlesFacts
  <2>4. \A o \in Subs : ~Answered(o)'
    BY <2>1, <2>2, <2>3 DEF Answered, Owners
  <2>5. reply'["connect"] # "ok"
    BY <2>3 DEF Owners
  <2> QED BY <1>7, <2>1, <2>4, <2>5
<1>12. CASE ConnectSucceeds
  <2>1. ConnectSettles("ok", reply) /\ reply["connect"] = "ok"
        /\ UNCHANGED <<server, client, chan, task>>
        /\ listened' = listened \cup ({visiting} \ {None})
    BY <1>12 DEF ConnectSucceeds, Reissued, netVars
  <2>2. reply' = [x \in Owners |-> IF x \in awaiting THEN "ok"
                                  ELSE IF x = "connect" THEN "none" ELSE reply[x]]
    BY <2>1, ConnectSettlesFacts
  <2>3. \A o \in Subs : Answered(o)' => Answered(o) /\ chan'[o] = chan[o]
    BY <2>1, <2>2 DEF Answered, HubInv, ReplyOK, Owners
  <2>4. reply'["connect"] # "ok"
    BY <2>2 DEF HubInv, ReplyOK, Owners
  <2>5. \A ch \in listened' : ch \in listened \/ ch \in server[client]
    BY <2>1 DEF ServerOK
  <2>6. \A ch \in listened' : Unlistening(ch) => Unlistening(ch)'
    BY <2>1 DEF Unlistening
  <2> QED BY <2>1, <2>3, <2>4, <2>5, <2>6, ServerFrame
<1>13. ASSUME NEW ch \in Channels, ConnectReissues(ch)
       PROVE  ServerOK'
  <2>1. reply["connect"] = "ok" /\ UNCHANGED <<server, client, chan, task>>
        /\ listened' = listened \cup ({visiting} \ {None})
    BY <1>13 DEF ConnectReissues, Reissued, subVars, netVars
  <2>2. reply' = [reply EXCEPT !["connect"] = "none"]
    BY <1>13, OpenReissues DEF Put, Step
  <2>3. \A o \in Subs : Answered(o)' => Answered(o) /\ chan'[o] = chan[o]
    BY <2>1, <2>2 DEF Answered, HubInv, ReplyOK, Owners
  <2>4. reply'["connect"] # "ok"
    BY <2>2 DEF HubInv, ReplyOK, Owners
  <2>5. \A x \in listened' : x \in listened \/ x \in server[client]
    BY <2>1 DEF ServerOK
  <2>6. \A x \in listened' : Unlistening(x) => Unlistening(x)'
    BY <2>1 DEF Unlistening
  <2> QED BY <2>1, <2>3, <2>4, <2>5, <2>6, ServerFrame
<1>14. CASE TimerFires \/ TimerEnds
  <2>1. UNCHANGED <<server, client, chan, task, listened, visiting>>
    BY <1>14 DEF TimerFires, TimerEnds, subVars, connVars, netVars
  <2>2. PICK r \in {"ok", "none"} : reply' = reply \/ reply' = [reply EXCEPT !["timer"] = r]
    BY <1>14 DEF TimerFires, TimerEnds, EnsureConnected, Settled, Consumed
  <2>3. \A o \in Subs : Answered(o)' => Answered(o) /\ chan'[o] = chan[o]
    BY <2>1, <2>2 DEF Answered, HubInv, ReplyOK, Owners
  <2>4. reply'["connect"] = reply["connect"]
    BY <2>2 DEF HubInv, ReplyOK, Owners
  <2>5. \A x \in listened' : Unlistening(x) => Unlistening(x)'
    BY <2>1 DEF Unlistening
  <2> QED BY <2>1, <2>3, <2>4, <2>5, ServerFrame
<1>15. ASSUME NEW c \in Conns, ServerAnswers(c)
       PROVE  ServerOK'
  <2> DEFINE q == Head(wire[c])
  <2>1. c = client /\ Quiet /\ q \in Queries /\ Fits(q)
    BY <1>15, OpenAnswers DEF Step
  <2>2. server' = [server EXCEPT ![c] = Executed(q, @)]
        /\ reply' = [reply EXCEPT ![q.owner] = "ok"]
        /\ UNCHANGED <<client, listened, visiting, task, chan>>
    BY <1>15 DEF ServerAnswers, Settled, subVars, connVars
  <2> HIDE DEF q
  <2>3. server'[client] = Executed(q, server[client])
    BY <2>1, <2>2 DEF RestOK
  <2>4. \A x \in Owners : reply'[x] = "ok" => x = q.owner
    BY <2>1, <2>2 DEF Quiet, HubInv, ReplyOK
  <2>5. q.cmd = "listen" => server'[client] = server[client] \cup {q.ch}
    BY <2>3 DEF Executed
  <2>6. q.cmd = "unlisten" => server'[client] = server[client] \ {q.ch} /\ Unlistening(q.ch)
    BY <2>1, <2>3 DEF Executed, Fits, Removing, Unlistening
  <2>7. q.cmd \in {"listen", "unlisten"}
    BY <2>1 DEF Fits
  <2>8. \A ch \in listened : ch \in server[client] \/ Unlistening(ch)
    BY <2>1, OpenFacts DEF ServerOK, Step
  <2>9. \A ch \in listened' : ch \in server'[client'] \/ Unlistening(ch)'
    BY <2>2, <2>5, <2>6, <2>7, <2>8 DEF Unlistening
  <2>10. \A s \in Subs : Answered(s)' => chan'[s] \in server'[client']
    <3> SUFFICES ASSUME NEW s \in Subs, Answered(s)' PROVE chan[s] \in server'[client]
      BY <2>2
    <3>1. s = q.owner /\ task[s] = "listening"
      BY <2>2, <2>4 DEF Answered, Owners
    <3>2. q.cmd = "listen" /\ q.ch = chan[s]
      BY <2>1, <3>1 DEF Fits, Removing
    <3> QED BY <2>5, <3>2
  <2>11. reply'["connect"] = "ok" /\ visiting' # None => visiting' \in server'[client']
    <3> SUFFICES ASSUME reply'["connect"] = "ok" PROVE visiting \in server'[client]
      BY <2>2
    <3>1. q.owner = "connect"
      BY <2>4 DEF Owners
    <3>2. q.cmd = "listen" /\ q.ch = visiting
      BY <2>1, <3>1 DEF Fits
    <3> QED BY <2>5, <3>2
  <2> QED BY <2>9, <2>10, <2>11 DEF ServerOK
<1>16. ASSUME NEW c \in Conns, ServerRefuses(c)
       PROVE  ServerOK'
  <2>1. UNCHANGED <<server, client, chan, task, listened, visiting>> /\ Quiet
        /\ reply' = [reply EXCEPT ![Head(wire[c]).owner] = "err"]
    BY <1>16 DEF ServerRefuses, Settled, subVars, connVars
  <2>2. \A x \in Owners : reply'[x] # "ok"
    BY <2>1 DEF Quiet, HubInv, ReplyOK
  <2>3. \A x \in listened' : Unlistening(x) => Unlistening(x)'
    BY <2>1 DEF Unlistening
  <2> QED BY <2>1, <2>2, <2>3, ServerFrame DEF Answered, Owners
<1>17. ASSUME NEW c \in Conns, ConnectionLost(c)
       PROVE  ServerOK'
  <2>1. client' = None /\ Quiet /\ RejectedOn(reply', reply, c)
    BY <1>17, OpenLost DEF Step
  <2>2. \A x \in Owners : reply'[x] # "ok"
    BY <2>1 DEF RejectedOn, Quiet
  <2> QED BY <1>7, <2>1, <2>2 DEF Answered, Owners
<1> QED BY <1>1, <1>2, <1>3, <1>4, <1>5, <1>6, <1>8, <1>9, <1>10, <1>11, <1>12, <1>13, <1>14,
           <1>15, <1>16, <1>17
        DEF Step, HubNext, ListenStep, ConnectStep, RemoveStep, CloseStep, Close, CloseUnlistens,
            CloseEnds

(***************************************************************************)
(* Connected subscriptions.                                                *)
(***************************************************************************)
LEMMA ConnectedFrame ==
  ASSUME ConnectedOK, listened \subseteq listened', UNCHANGED <<sub, chan, entries>>
  PROVE  ConnectedOK'
BY DEF ConnectedOK

LEMMA ConnectedStep ==
  ASSUME HubInv, Parts, Step
  PROVE  ConnectedOK'
<1> USE HubAssumption DEF Parts
<1>1. CASE UNCHANGED vars
  BY <1>1, ConnectedFrame DEF vars, subVars
<1>2. ASSUME NEW s \in Subs, NEW ch \in Channels, Listen(s, ch)
      PROVE  ConnectedOK'
  <2>1. /\ entries' = entries \cup {s} /\ chan' = [chan EXCEPT ![s] = ch]
        /\ sub' = [sub EXCEPT ![s] = "connecting"] /\ listened' = listened
        /\ task[s] = "idle"
    BY <1>2 DEF Listen
  <2> QED BY <2>1 DEF ConnectedOK, HubInv, EntriesOK
<1>3. ASSUME NEW s \in Subs, ListenReturns(s)
      PROVE  ConnectedOK'
  <2>1. /\ chan[s] \in listened' /\ listened \subseteq listened'
        /\ sub' = [sub EXCEPT ![s] = "connected"] /\ UNCHANGED <<chan, entries>>
    BY <1>3 DEF ListenReturns, Opened
  <2> QED BY <2>1 DEF ConnectedOK, HubInv, EntriesOK
<1>4. ASSUME NEW s \in Subs, ListenFails(s) \/ CloseSubscription(s)
      PROVE  ConnectedOK'
  <2>1. PICK while \in {"abandoning", "unlistening"}, after \in {"failed", "closed"} :
          Removed(s, while, after)
    BY <1>4, OpenRemoves DEF Step
  <2>2. entries' = entries \ {s} /\ sub' = [sub EXCEPT ![s] = "closed"] /\ UNCHANGED chan
    BY <1>4, <2>1 DEF Removed, ListenFails, CloseSubscription
  <2>3. \A o \in entries \ {s} : chan[o] \in listened => chan[o] \in listened'
    BY <2>1 DEF Removed, ChannelsOf
  <2> QED BY <2>2, <2>3 DEF ConnectedOK, HubInv, EntriesOK
<1>5. ASSUME NEW s \in Subs, Unlistened(s)
      PROVE  ConnectedOK'
  <2>1. /\ Removing(s) /\ listened' = listened \ {chan[s]}
        /\ UNCHANGED <<sub, chan, entries>>
    BY <1>5 DEF Unlistened
  <2>2. \A o \in entries : chan[o] # chan[s]
    BY <2>1 DEF RemovalOK, ChannelsOf
  <2> QED BY <2>1, <2>2 DEF ConnectedOK
<1>6. CASE Checkout \/ \E s \in Subs : UnlistenCrashes(s)
  <2>1. client = None /\ UNCHANGED <<sub, chan, entries>>
    BY <1>6 DEF Checkout, UnlistenCrashes, HubInv, ConnOK, subVars
  <2>2. listened = {}
    BY <2>1 DEF ClientOK
  <2> QED BY <2>1, <2>2, ConnectedFrame
<1>7. ASSUME sub' = SetStates(entries, "reconnecting"), UNCHANGED entries
      PROVE  ConnectedOK'
  BY <1>7 DEF ConnectedOK, SetStates, HubInv, EntriesOK
<1>8. ASSUME NEW s \in Subs, UnlistenDrops(s)
      PROVE  ConnectedOK'
  BY <1>7, <1>8 DEF UnlistenDrops, Drop
<1>9. ASSUME NEW c \in Conns, ConnectionLost(c)
      PROVE  ConnectedOK'
  BY <1>7, <1>9, OpenLost DEF ConnectionLost, Step
<1>10. CASE ConnectSucceeds
  <2>1. /\ ChannelsOf(entries) \subseteq visited \cup listened'
        /\ listened' = listened \cup ({visiting} \ {None})
        /\ UNCHANGED <<chan, entries>> /\ reply["connect"] = "ok"
    BY <1>10 DEF ConnectSucceeds, Reissued
  <2>2. client # None
    BY <2>1 DEF ClientOK, HubInv, ConnOK
  <2>3. visited \subseteq listened \cup {visiting}
    BY <2>2 DEF VisitedOK
  <2>4. ChannelsOf(entries) \subseteq Channels
    BY DEF ChannelsOf, HubInv, EntriesOK
  <2>5. ChannelsOf(entries) \subseteq listened'
    BY <2>1, <2>3, <2>4
  <2> QED BY <2>1, <2>5 DEF ConnectedOK, ChannelsOf
<1>11. CASE ConnectFails \/ (\E ch \in Channels : ConnectReissues(ch))
  <2>1. listened \subseteq listened' /\ UNCHANGED <<sub, chan, entries>>
    BY <1>11 DEF ConnectFails, ConnectReissues, Reissued, subVars
  <2> QED BY <2>1, ConnectedFrame
<1>12. CASE \/ CheckoutFails \/ TimerFires \/ TimerEnds
            \/ (\E s \in Subs : ListenSends(s))
            \/ (\E c \in Conns : ServerAnswers(c) \/ ServerRefuses(c))
  <2>1. UNCHANGED <<listened, sub, chan, entries>>
    BY <1>12 DEF CheckoutFails, TimerFires, TimerEnds, ListenSends, ServerAnswers,
       ServerRefuses, subVars
  <2> QED BY <2>1, ConnectedFrame
<1> QED BY <1>1, <1>2, <1>3, <1>4, <1>5, <1>6, <1>8, <1>9, <1>10, <1>11, <1>12
        DEF Step, HubNext, ListenStep, ConnectStep, RemoveStep, CloseStep, Close, CloseUnlistens,
            CloseEnds

-----------------------------------------------------------------------------
LEMMA ListenStarts == HubInit => ListenInv
<1> SUFFICES ASSUME HubInit PROVE Parts
  BY DEF ListenInv
<1>1. ClientOK
  BY HubAssumption DEF HubInit, ClientOK, Owners
<1>2. FitOK
  BY DEF HubInit, FitOK, OnWire
<1>3. RemovalOK
  BY DEF HubInit, RemovalOK, Removing
<1>4. VisitedOK
  BY DEF HubInit, VisitedOK
<1>5. ServerOK
  BY DEF HubInit, ServerOK, Answered
<1>6. ConnectedOK
  BY DEF HubInit, ConnectedOK
<1> QED BY <1>1, <1>2, <1>3, <1>4, <1>5, <1>6 DEF Parts

LEMMA NeverReopens ==
  ASSUME [HubNext]_vars, closer' = "none"
  PROVE  closer = "none"
BY DEF HubNext, vars, Listen, ListenStep, ListenSends, ListenReturns, ListenFails,
   CloseSubscription, RemoveStep, Unlistened, UnlistenDrops, UnlistenCrashes, Checkout,
   CheckoutFails, ConnectStep, ConnectReissues, ConnectSucceeds, ConnectFails, TimerFires,
   TimerEnds, Close, CloseStep, CloseUnlistens, CloseEnds, CloseEverySubscription,
   ServerAnswers, ServerRefuses, ConnectionLost

(***************************************************************************)
(* While the hub is open, a subscription that says it is connected is      *)
(* listened to on the hub's connection, unless that connection is lost:    *)
(* closing a subscription takes its channel from no other.                 *)
(***************************************************************************)
THEOREM HubConnectedMeansListening ==
  ~Relisten /\ ~ListenMayFail => (Spec => []ConnectedMeansListening)
<1> SUFFICES ASSUME ~Relisten, ~ListenMayFail
             PROVE  Spec => []ConnectedMeansListening
  OBVIOUS
<1>1. HubInit => ListenInv
  BY ListenStarts
<1>2. HubInv /\ RestOK /\ ListenInv /\ [HubNext]_vars => ListenInv'
  <2> SUFFICES ASSUME HubInv, RestOK, ListenInv, [HubNext]_vars, closer' = "none"
               PROVE  Parts'
    BY DEF ListenInv, closing
  <2>1. Parts /\ Step
    BY NeverReopens DEF ListenInv, closing, Step
  <2> QED BY <2>1, ClientStep, FitStep, RemovalStep, VisitedStep, ServerListens, ConnectedStep
          DEF Parts
<1>3. HubInv /\ ListenInv => ConnectedMeansListening
  <2> SUFFICES ASSUME HubInv, Parts, closer = "none", NEW s \in Subs, task[s] = "open",
                      sub[s] = "connected"
               PROVE  client # None /\ chan[s] \in server[client]
    BY DEF ConnectedMeansListening, ListenInv, closing
  <2>1. s \in entries
    BY DEF HubInv, EntriesOK
  <2>2. chan[s] \in listened
    BY <2>1 DEF Parts, ConnectedOK
  <2>3. client # None
    BY <2>2 DEF Parts, ClientOK
  <2>4. ~Unlistening(chan[s])
    BY <2>1 DEF Parts, RemovalOK, Unlistening, Removing, ChannelsOf
  <2> QED BY <2>2, <2>3, <2>4 DEF Parts, ServerOK
<1> QED BY <1>1, <1>2, <1>3, HubInvariant, HubRest, PTL DEF Spec
=============================================================================
