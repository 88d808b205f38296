----------------------------- MODULE SyncProofs -----------------------------
(***************************************************************************)
(* What synchronization keeps where values only grow, for every number of  *)
(* rows, values, pushes, messages, failures and crashes: a change that the *)
(* remote does not have is in the outbox, neither copy goes back or        *)
(* invents a row, and the outbox records nobody else's changes.            *)
(***************************************************************************)
EXTENDS Sync, SubsequencesProofs

Parties == {TheClient} \cup {Push(p) : p \in Pushers} \cup {Handler(i) : i \in 1 .. MaxWal}

Entries  == [id : Nat, key : Keys, value : Nat \ {0}, op : {"I", "U", "D"}]
Messages == [key : Keys, value : Nat \ {0}, own : BOOLEAN, op : {"I", "U", "D"}]
Data     == [tbl : [Keys -> Nat], outbox : Seq(Entries), lastPush : Nat, exists : BOOLEAN,
             raised : BOOLEAN, made : SUBSET (Keys \X Nat)]
Pushes   == [pc : {"idle", "cursor", "outbox", "rows", "meta", "advance", "truncate"},
             from : Nat, batch : Seq(Entries), noted : Nat, own : BOOLEAN]
Handlers == [pc : {"none", "meta", "begin", "flag", "apply", "commit", "undo", "undo, create",
                   "fetch", "create", "done", "failed"},
             m : {"absent", "fallback", "known"}, retry : BOOLEAN]

\* The scenarios without deletes, where values only grow, and without calls of
\* the application while a message is applied.
Growing == \A s \in Scenarios : s \cap {"delete", "foreign delete", "concurrent calls"} = {}

LocalTypes ==
  /\ may \in Scenarios
  /\ data \in Data /\ saved \in Data /\ nextId \in Nat
  /\ tx \in {"none", "open", "aborted"} /\ applying \in BOOLEAN
  /\ client \in {"idle", "begun"} \cup Pushers
  /\ queue \in Seq(Parties)
  /\ push \in [Pushers -> Pushes]

RemoteTypes ==
  /\ meta \in {"absent", "fallback", "known"}
  /\ remote \in [Keys -> Nat] /\ wal \in Seq(Messages) /\ foreign \subseteq Keys \X Nat
  /\ handler \in [1 .. MaxWal -> Handlers]
  /\ delivered \in 0 .. Len(wal)
  /\ \A i \in 1 .. MaxWal : i > delivered => handler[i].pc = "none"

Types == LocalTypes /\ RemoteTypes

\* The application has a transaction or a statement under way.
Calling == client = "begun" \/ TheClient \in ToSet(queue)

InTransaction(i) == handler[i].pc \in {"flag", "apply", "commit", "undo", "undo, create"}

\* The application and the handlers of messages keep out of each other's way.
ApartInv ==
  /\ Calling => ~Applying
  /\ applying => \E i \in 1 .. MaxWal : InTransaction(i)
  /\ tx # "none" => client = "begun" \/ \E i \in 1 .. MaxWal : InTransaction(i)

Outboxes == ToSet(data.outbox) \cup ToSet(saved.outbox)

\* A remote table r has what the entries of O record up to id.
Sent(id, O, r) == \A e \in O : e.id <= id => e.value <= r[e.key]

\* What it does not have is recorded beyond the cursor.
Queued(d, r) ==
  \A k \in Keys : d.tbl[k] <= r[k] \/
    \E e \in ToSet(d.outbox) : e.key = k /\ e.value = d.tbl[k] /\ e.id > d.lastPush

OutboxInv ==
  /\ \A e \in Outboxes : e.id < nextId
  /\ \A e \in ToSet(saved.outbox) : e \in ToSet(data.outbox) \/ e.value <= remote[e.key]
  /\ \A m \in ToSet(wal) : m.value <= remote[m.key]
  /\ Queued(data, remote) /\ Queued(saved, remote)
  /\ \A d \in {data, saved} : d.lastPush < nextId /\ Sent(d.lastPush, Outboxes, remote)

\* A push has read a cursor, read a batch, or sent it.
Pushing(p) ==
  /\ push[p].pc = "outbox" => push[p].from < nextId /\ Sent(push[p].from, Outboxes, remote)
  /\ push[p].pc \in {"rows", "meta", "advance", "truncate"} =>
       push[p].batch # <<>> /\ LastId(p) < nextId
  /\ push[p].pc \in {"rows", "meta"} => \A e \in Outboxes :
       e.id <= LastId(p) => e \in ToSet(push[p].batch) \/ e.value <= remote[e.key]
  /\ push[p].pc \in {"advance", "truncate"} => Sent(LastId(p), Outboxes, remote)

QueuedInv == OutboxInv /\ \A p \in Pushers : Pushing(p)

\* An open transaction is ahead of what is committed.
AheadInv ==
  /\ tx = "none" => data = saved
  /\ saved.made \subseteq data.made
  /\ \A k \in Keys : saved.tbl[k] <= data.tbl[k]

\* Without automatic pushes the application waits for the one it has asked for.
AloneInv == signals = 0 /\ \A p \in Pushers : push[p].pc # "idle" => client = p

\* The changes a push has read, those a database records and holds, and those the
\* remote has to offer.
Batches   == UNION {ToSet(push[p].batch) : p \in Pushers}
Sending   == {Change(e.key, e.value) : e \in Batches}
Records(d) == {Change(e.key, e.value) : e \in ToSet(d.outbox)}
Holds(d)   == {Change(k, d.tbl[k]) : k \in {j \in Keys : d.tbl[j] # 0}}
Offered   == {Change(m.key, m.value) : m \in ToSet(wal)}
               \cup {Change(k, remote[k]) : k \in {j \in Keys : remote[j] # 0}}

\* The application writes in a transaction.
Writing == client = "begun" /\ "transaction" \in may

\* Only what somebody made and committed travels.
MadeInv ==
  /\ data.made = saved.made \/ Writing
  /\ Sending \cup Offered \cup Records(saved) \cup Holds(saved) \subseteq saved.made \cup foreign
  /\ Records(data) \cup Holds(data) \subseteq data.made \cup foreign

\* Where nobody else writes, what the remote has or gets is a row that is there.
OwnInv ==
  /\ \A c \in Sending \cup Offered \cup Records(saved) : saved.tbl[c[1]] # 0
  /\ \A c \in Records(data) : saved.tbl[c[1]] # 0 \/ (Writing /\ data.tbl[c[1]] # 0)

-----------------------------------------------------------------------------
(***************************************************************************)
(* The remote transaction of a push, row by row.                           *)
(***************************************************************************)
Remotes == [tbl : [Keys -> Nat], wal : Seq(Messages)]

Before == [tbl |-> remote, wal |-> wal]

\* g is the remote after each of the first k rows of the batch b.
Written(b, own, g, k) ==
  g = [n \in 0 .. k |-> IF n = 0 THEN Before ELSE Pushed(g[n - 1], b[n], own)]

LEMMA WrittenExists ==
  ASSUME NEW b, NEW own, NEW n \in Nat
  PROVE  \E g : Written(b, own, g, n)
<1> DEFINE P == {k \in 0 .. n : \E g : Written(b, own, g, k)}
<1>1. 0 \in P
  <2>1. Written(b, own, [k \in 0 .. 0 |-> Before], 0)
    BY DEF Written
  <2> QED BY <2>1
<1>2. ASSUME NEW k \in 0 .. n, k \in P, k < n
      PROVE  k+1 \in P
  <2>1. PICK g : Written(b, own, g, k)
    BY <1>2
  <2> DEFINE h == [j \in 0 .. k+1 |-> IF j <= k THEN g[j] ELSE Pushed(g[k], b[k+1], own)]
  <2>2. \A j \in 0 .. k+1 : h[j] = IF j = 0 THEN Before ELSE Pushed(h[j-1], b[j], own)
    <3> TAKE j \in 0 .. k+1
    <3> HIDE DEF Before
    <3>1. CASE j = 0
      BY <2>1, <3>1 DEF Written
    <3>2. CASE j # 0 /\ j <= k
      <4>1. j-1 \in 0 .. k+1 /\ j-1 \in 0 .. k /\ j \in 0 .. k
        BY <3>2
      <4>2. h[j] = g[j] /\ h[j-1] = g[j-1]
        BY <3>2, <4>1
      <4> QED BY <2>1, <3>2, <4>1, <4>2 DEF Written
    <3>3. CASE j = k+1
      <4>1. h[j] = Pushed(g[k], b[k+1], own) /\ h[j-1] = g[k] /\ j # 0
        BY <3>3
      <4> QED BY <3>3, <4>1
    <3> QED BY <3>1, <3>2, <3>3
  <2>3. Written(b, own, h, k+1)
    <3> HIDE DEF Before
    <3>1. DOMAIN h = 0 .. k+1 /\ h = [j \in 0 .. k+1 |-> h[j]]
      OBVIOUS
    <3> HIDE DEF h
    <3> QED BY <2>2, <3>1 DEF Written
  <2> HIDE DEF h
  <2> QED BY <1>2, <2>3
<1> HIDE DEF P
<1>3. 0 .. n \subseteq P
  BY <1>1, <1>2, InitialSegment
<1> QED BY <1>3 DEF P

\* r is the remote before it, grown by entries of B.
Grows(r, B) ==
  /\ r \in Remotes /\ Len(wal) <= Len(r.wal)
  /\ \A k \in Keys : remote[k] <= r.tbl[k]
  /\ \A k \in Keys : r.tbl[k] # remote[k] => \E e \in B : e.key = k /\ e.value = r.tbl[k]
  /\ \A m \in ToSet(r.wal) : m.value <= r.tbl[m.key]
  /\ \A m \in ToSet(r.wal) : m \in ToSet(wal) \/ \E e \in B : e.key = m.key /\ e.value = m.value

Has(r, B) == \A e \in B : e.value <= r.tbl[e.key]

LEMMA PushedGrows ==
  ASSUME Types, NEW B, B \subseteq Entries, NEW e \in B, NEW own \in BOOLEAN,
         NEW r, Grows(r, B), NEW C, C \subseteq Entries, Has(r, C)
  PROVE  Grows(Pushed(r, e, own), B) /\ Has(Pushed(r, e, own), C \cup {e})
<1> DEFINE s == Pushed(r, e, own)
           m == Message(e.key, r.tbl[e.key], e.value, own)
<1>1. /\ e.key \in Keys /\ e.value \in Nat \ {0} /\ r.tbl \in [Keys -> Nat]
      /\ r.wal \in Seq(Messages) /\ Len(r.wal) \in Nat
  BY DEF Grows, Remotes, Entries
<1>2. CASE ~(r.tbl[e.key] < e.value)
  <2>1. s = r /\ e.value <= r.tbl[e.key]
    BY <1>1, <1>2 DEF Pushed, Takes, Newer
  <2> QED BY <2>1 DEF Has
<1>3. CASE r.tbl[e.key] < e.value
  <2>1. s = [tbl |-> [r.tbl EXCEPT ![e.key] = e.value], wal |-> Append(r.wal, m)]
    BY <1>1, <1>3 DEF Pushed, Takes, Newer
  <2>2. m \in Messages /\ m.key = e.key /\ m.value = e.value
    BY <1>1 DEF Message, Messages
  <2> HIDE DEF m
  <2>3. /\ Append(r.wal, m) \in Seq(Messages) /\ ToSet(Append(r.wal, m)) = ToSet(r.wal) \cup {m}
        /\ Len(Append(r.wal, m)) = Len(r.wal) + 1
    BY <1>1, <2>2, AppendMembers
  <2>4. /\ s.tbl \in [Keys -> Nat] /\ s.tbl[e.key] = e.value
        /\ \A k \in Keys : r.tbl[k] <= s.tbl[k] /\ (k # e.key => s.tbl[k] = r.tbl[k])
    BY <1>1, <1>3, <2>1
  <2>5. s \in Remotes /\ s.wal = Append(r.wal, m)
    BY <2>1, <2>3, <2>4 DEF Remotes
  <2> HIDE DEF s
  <2>6. \A x \in ToSet(r.wal) : x \in Messages
    BY <1>1 DEF ToSet
  <2>7. \A k \in Keys : remote[k] <= s.tbl[k]
    <3> TAKE k \in Keys
    <3>1. remote[k] <= r.tbl[k] /\ r.tbl[k] <= s.tbl[k]
      BY <2>4 DEF Grows
    <3>2. remote[k] \in Nat /\ r.tbl[k] \in Nat /\ s.tbl[k] \in Nat
      BY <1>1, <2>4 DEF Types, RemoteTypes
    <3> QED BY <3>1, <3>2
  <2>8. \A k \in Keys : s.tbl[k] # remote[k] => \E x \in B : x.key = k /\ x.value = s.tbl[k]
    BY <2>4 DEF Grows
  <2>9. \A x \in ToSet(s.wal) : x.value <= s.tbl[x.key]
    <3> SUFFICES ASSUME NEW x \in ToSet(r.wal) PROVE x.value <= s.tbl[x.key]
      BY <1>1, <2>2, <2>3, <2>4, <2>5
    <3>1. x.key \in Keys /\ x.value \in Nat /\ x.value <= r.tbl[x.key]
      BY <2>6 DEF Grows, Messages
    <3>2. r.tbl[x.key] \in Nat /\ s.tbl[x.key] \in Nat /\ r.tbl[x.key] <= s.tbl[x.key]
      BY <1>1, <2>4, <3>1
    <3> QED BY <3>1, <3>2
  <2>10. \A x \in ToSet(s.wal) :
           x \in ToSet(wal) \/ \E y \in B : y.key = x.key /\ y.value = x.value
    BY <2>2, <2>3, <2>5 DEF Grows
  <2>11. Len(wal) <= Len(s.wal)
    <3>1. Len(wal) <= Len(r.wal) /\ Len(s.wal) = Len(r.wal) + 1
      BY <2>3, <2>5 DEF Grows
    <3>2. CASE Len(wal) \in Nat
      BY <1>1, <3>1, <3>2
    <3> QED BY <1>1, <3>1, <3>2
  <2>12. Has(s, C \cup {e})
    <3> SUFFICES ASSUME NEW x \in C \cup {e} PROVE x.value <= s.tbl[x.key]
      BY DEF Has
    <3>1. CASE x = e
      BY <1>1, <2>4, <3>1
    <3>2. CASE x \in C
      <4>1. x.key \in Keys /\ x.value \in Nat /\ x.value <= r.tbl[x.key]
        BY <3>2 DEF Has, Entries
      <4>2. r.tbl[x.key] \in Nat /\ s.tbl[x.key] \in Nat /\ r.tbl[x.key] <= s.tbl[x.key]
        BY <1>1, <2>4, <4>1
      <4> QED BY <4>1, <4>2
    <3> QED BY <3>1, <3>2
  <2> QED BY <2>5, <2>7, <2>8, <2>9, <2>10, <2>11, <2>12 DEF Grows, s
<1> QED BY <1>2, <1>3, <1>1

LEMMA RemoteGrows ==
  ASSUME Types, NEW p \in Pushers, RemoteCommits(p),
         \A m \in ToSet(wal) : m.value <= remote[m.key]
  PROVE  \E r : /\ Grows(r, ToSet(push[p].batch)) /\ Has(r, ToSet(push[p].batch))
                /\ remote' = r.tbl /\ wal' = r.wal /\ Len(wal') <= MaxWal
<1> DEFINE b == push[p].batch
           own == push[p].own
           n == Len(b)
           B == ToSet(b)
           First(k) == {b[i] : i \in 1 .. k}
           g == CHOOSE f : Written(b, own, f, n)
<1>1. b \in Seq(Entries) /\ n \in Nat /\ own \in BOOLEAN
  <2>1. push[p] \in Pushes
    BY DEF Types, LocalTypes
  <2> QED BY <2>1 DEF Pushes
<1>2. remote' = g[n].tbl /\ wal' = g[n].wal /\ Len(g[n].wal) <= MaxWal
  BY DEF RemoteCommits, Written, Before
<1>3. Written(b, own, g, n)
  BY <1>1, WrittenExists
<1> HIDE DEF g, b, own
<1>4. B \subseteq Entries /\ B = First(n) /\ \A i \in 1 .. n : b[i] \in B
  BY <1>1 DEF ToSet
<1>5. /\ g[0] = Before
      /\ \A k \in 0 .. n : k < n => g[k+1] = Pushed(g[k], b[k+1], own)
  <2>1. g[0] = Before
    BY <1>1, <1>3 DEF Written
  <2>2. ASSUME NEW k \in 0 .. n, k < n PROVE g[k+1] = Pushed(g[k], b[k+1], own)
    <3>1. k+1 \in 0 .. n /\ k+1 # 0 /\ (k+1)-1 = k
      BY <1>1, <2>2
    <3> QED BY <1>3, <3>1 DEF Written
  <2> QED BY <2>1, <2>2
<1> DEFINE P == {k \in 0 .. n : Grows(g[k], B) /\ Has(g[k], First(k))}
<1>6. 0 \in P
  <2>1. Grows(Before, B)
    <3>1. Before \in Remotes /\ Before.tbl = remote /\ Before.wal = wal
      BY DEF Before, Remotes, Types, RemoteTypes
    <3>2. Len(wal) \in Nat /\ \A k \in Keys : remote[k] \in Nat
      BY DEF Types, RemoteTypes
    <3> QED BY <3>1, <3>2 DEF Grows
  <2>2. First(0) = {} /\ Has(Before, First(0))
    BY DEF Has
  <2> QED BY <1>1, <1>5, <2>1, <2>2
<1>7. ASSUME NEW k \in 0 .. n, k \in P, k < n
      PROVE  k+1 \in P
  <2>1. k+1 \in 1 .. n /\ b[k+1] \in B /\ g[k+1] = Pushed(g[k], b[k+1], own)
    BY <1>1, <1>4, <1>5, <1>7
  <2>2. First(k+1) = First(k) \cup {b[k+1]}
    <3>1. 1 .. (k+1) = (1 .. k) \cup {k+1}
      BY <1>1
    <3> QED BY <3>1
  <2> DEFINE C == First(k)
  <2>3. C \subseteq Entries /\ Grows(g[k], B) /\ Has(g[k], C)
    BY <1>1, <1>4, <1>7
  <2> HIDE DEF C, P, First, B
  <2> DEFINE r == g[k]
             e == b[k+1]
  <2>4. B \subseteq Entries /\ e \in B /\ Grows(r, B) /\ C \subseteq Entries /\ Has(r, C)
    BY <1>4, <2>1, <2>3
  <2> HIDE DEF r, e
  <2>5. Grows(Pushed(r, e, own), B) /\ Has(Pushed(r, e, own), C \cup {e})
    BY <1>1, <2>4, PushedGrows
  <2>6. g[k+1] = Pushed(r, e, own) /\ First(k+1) = C \cup {e} /\ k+1 \in 0 .. n
    BY <1>1, <2>1, <2>2 DEF C, r, e
  <2> QED BY <2>5, <2>6 DEF P
<1> HIDE DEF P
<1>8. n \in P
  <2>1. 0 .. n \subseteq P
    BY <1>1, <1>6, <1>7, InitialSegment
  <2> QED BY <1>1, <2>1
<1> QED BY <1>2, <1>4, <1>8 DEF P, b

-----------------------------------------------------------------------------
(***************************************************************************)
(* What a statement leaves in the database, and in the queue.              *)
(***************************************************************************)
Same(c, d) ==
  c.tbl = d.tbl /\ c.outbox = d.outbox /\ c.lastPush = d.lastPush /\ c.made = d.made

\* A statement leaves d, for good unless it is in a transaction.
Stores(d) ==
  /\ data' \in Data /\ saved' \in Data /\ Same(data', d)
  /\ IF tx = "none" THEN saved' = data' ELSE saved' = saved
  /\ tx' = tx /\ applying' = applying

LEMMA ExecutesStores ==
  ASSUME Types, NEW d \in Data, Executes(d)
  PROVE  Stores(d)
<1>1. data \in Data /\ saved \in Data
  BY DEF Types, LocalTypes
<1>2. /\ [d EXCEPT !.raised = FALSE] \in Data /\ Same([d EXCEPT !.raised = FALSE], d)
      /\ Same(d, d)
  BY DEF Data, Same
<1> QED BY <1>1, <1>2 DEF Executes, Stores

\* The transaction is over, whoever began it.
Ends ==
  /\ data' \in Data /\ saved' = data' /\ (Same(data', data) \/ Same(data', saved))
  /\ tx' = "none" /\ applying' = FALSE /\ nextId' = nextId

LEMMA EndTxEnds ==
  ASSUME Types, Commit \/ Rollback
  PROVE  Ends
<1>1. data \in Data /\ saved \in Data
  BY DEF Types, LocalTypes
<1>2. \A d \in Data : [d EXCEPT !.raised = FALSE] \in Data /\ Same([d EXCEPT !.raised = FALSE], d)
  BY DEF Data, Same
<1> QED BY <1>1, <1>2 DEF Commit, Rollback, EndTx, Ends

\* Row k becomes v, and is recorded unless the trigger is off; M is made with it.
RowWritten(k, v, M) ==
  /\ data' \in Data /\ saved' \in Data /\ tx' = tx /\ applying' = applying
  /\ IF tx = "none" THEN saved' = data' ELSE saved' = saved
  /\ data'.tbl = [data.tbl EXCEPT ![k] = v] /\ data'.lastPush = data.lastPush
  /\ data'.made = data.made \cup M
  /\ \/ applying /\ data'.outbox = data.outbox /\ nextId' = nextId
     \/ /\ ~applying /\ nextId' = nextId + 1
        /\ \E e \in Entries : /\ e.id = nextId /\ e.key = k /\ e.value = v
                              /\ data'.outbox = Append(data.outbox, e)

LEMMA RowIs ==
  ASSUME Types, NEW k \in Keys, NEW v \in Nat \ {0}
  PROVE  /\ Row(k, v) \in Data /\ Row(k, v).tbl = [data.tbl EXCEPT ![k] = v]
         /\ Row(k, v).lastPush = data.lastPush /\ Row(k, v).made = data.made
         /\ applying => Row(k, v).outbox = data.outbox
         /\ ~applying => \E e \in Entries : /\ e.id = nextId /\ e.key = k /\ e.value = v
                                            /\ Row(k, v).outbox = Append(data.outbox, e)
<1>1. data \in Data /\ nextId \in Nat /\ applying \in BOOLEAN
  BY DEF Types, LocalTypes
<1> DEFINE e == [id |-> nextId, key |-> k, value |-> v,
                 op |-> IF v = 0 THEN "D" ELSE IF data.tbl[k] = 0 THEN "I" ELSE "U"]
<1>2. e \in Entries /\ e.id = nextId /\ e.key = k /\ e.value = v
  BY <1>1 DEF Entries
<1>3. Row(k, v) = [data EXCEPT !.tbl = [data.tbl EXCEPT ![k] = v],
                               !.raised = data.raised \/ ~applying,
                               !.outbox = IF applying THEN data.outbox
                                          ELSE Append(data.outbox, e)]
  BY <1>1 DEF Row, Data
<1> HIDE DEF e
<1> DEFINE t == [data.tbl EXCEPT ![k] = v]
           w == data.raised \/ ~applying
           o == IF applying THEN data.outbox ELSE Append(data.outbox, e)
<1>4. t \in [Keys -> Nat] /\ w \in BOOLEAN /\ o \in Seq(Entries)
  BY <1>1, <1>2 DEF Data
<1>5. /\ applying => o = data.outbox
      /\ ~applying => o = Append(data.outbox, e)
  OBVIOUS
<1>6. Row(k, v) = [data EXCEPT !.tbl = t, !.raised = w, !.outbox = o]
  BY <1>3
<1> HIDE DEF t, w, o
<1>7. /\ Row(k, v) \in Data /\ Row(k, v).tbl = t /\ Row(k, v).outbox = o
      /\ Row(k, v).lastPush = data.lastPush /\ Row(k, v).made = data.made
  BY <1>1, <1>4, <1>6 DEF Data
<1> QED BY <1>2, <1>5, <1>7 DEF t

LEMMA HandlerWritesRow ==
  ASSUME Types, NEW k \in Keys, NEW v \in Nat \ {0}, SetRow(Row(k, v))
  PROVE  RowWritten(k, v, {})
<1> DEFINE d == Row(k, v)
<1>1. d \in Data /\ Stores(d)
  BY RowIs, ExecutesStores DEF SetRow
<1>2. nextId' = IF applying THEN nextId ELSE nextId + 1
  BY DEF SetRow
<1>3. applying \in BOOLEAN
  BY DEF Types, LocalTypes
<1> HIDE DEF d
<1>4. /\ d.tbl = [data.tbl EXCEPT ![k] = v]
      /\ d.lastPush = data.lastPush /\ d.made = data.made
      /\ applying => d.outbox = data.outbox
      /\ ~applying => \E e \in Entries : /\ e.id = nextId /\ e.key = k /\ e.value = v
                                         /\ d.outbox = Append(data.outbox, e)
  BY RowIs DEF d
<1> QED BY <1>1, <1>2, <1>3, <1>4 DEF Stores, Same, RowWritten

LEMMA ClientWritesRow ==
  ASSUME Types, NEW k \in Keys, NEW v \in Nat \ {0},
         SetRow([Row(k, v) EXCEPT !.made = @ \cup {Change(k, v)}])
  PROVE  RowWritten(k, v, {<<k, v>>})
<1> DEFINE r == Row(k, v)
           d == [r EXCEPT !.made = @ \cup {Change(k, v)}]
<1>1. /\ r \in Data /\ r.tbl = [data.tbl EXCEPT ![k] = v]
      /\ r.lastPush = data.lastPush /\ r.made = data.made
      /\ applying => r.outbox = data.outbox
      /\ ~applying => \E e \in Entries : /\ e.id = nextId /\ e.key = k /\ e.value = v
                                         /\ r.outbox = Append(data.outbox, e)
  BY RowIs
<1>0. SetRow(d)
  OBVIOUS
<1> HIDE DEF r
<1>2. /\ d \in Data /\ d.tbl = r.tbl /\ d.lastPush = r.lastPush /\ d.outbox = r.outbox
      /\ d.made = r.made \cup {<<k, v>>}
  <2> DEFINE m == r.made \cup {<<k, v>>}
  <2>1. m \in SUBSET (Keys \X Nat)
    BY <1>1 DEF Data
  <2>2. d = [r EXCEPT !.made = m]
    BY DEF Change
  <2> HIDE DEF m, d
  <2>3. /\ d \in Data /\ d.tbl = r.tbl /\ d.lastPush = r.lastPush /\ d.outbox = r.outbox
        /\ d.made = m
    BY <1>1, <2>1, <2>2 DEF Data
  <2> QED BY <2>3 DEF m
<1> HIDE DEF d
<1>3. Stores(d) /\ nextId' = IF applying THEN nextId ELSE nextId + 1
  BY <1>0, <1>2, ExecutesStores DEF SetRow
<1>4. applying \in BOOLEAN
  BY DEF Types, LocalTypes
<1> QED BY <1>1, <1>2, <1>3, <1>4 DEF Stores, Same, RowWritten

\* What is left of a queue, and who is in it.
LEMMA Served ==
  ASSUME Types, NEW a \in Parties, Turn(a)
  PROVE  /\ a \in ToSet(queue) /\ Tail(queue) \in Seq(Parties)
         /\ ToSet(Tail(queue)) \subseteq ToSet(queue)
BY TailMembers DEF Turn, Types, LocalTypes

LEMMA Queues ==
  ASSUME NEW q \in Seq(Parties), NEW a \in Parties
  PROVE  Append(q, a) \in Seq(Parties) /\ ToSet(Append(q, a)) = ToSet(q) \cup {a}
BY AppendMembers

LEMMA PartiesAre ==
  /\ TheClient \in Parties
  /\ \A p \in Pushers : Push(p) \in Parties /\ Push(p) # TheClient
  /\ \A i \in 1 .. MaxWal : Handler(i) \in Parties /\ Handler(i) # TheClient
BY DEF Parties, TheClient, Push, Handler

\* The queue after what a has to say: nobody else comes into it.
NoOtherQueues(a) == queue' \in Seq(Parties) /\ ToSet(queue') \subseteq ToSet(queue) \cup {a}

LEMMA QueueMoves ==
  ASSUME Types, NEW a \in Parties,
         (Turn(a) /\ (Leaves \/ Goes(a))) \/ Sends(a) \/ queue' = queue
  PROVE  NoOtherQueues(a)
<1>1. queue \in Seq(Parties)
  BY DEF Types, LocalTypes
<1>2. CASE Turn(a) /\ Leaves
  BY <1>2, Served DEF Leaves, NoOtherQueues
<1>3. CASE Turn(a) /\ Goes(a)
  BY <1>3, Served, Queues DEF Goes, NoOtherQueues
<1>4. CASE Sends(a)
  BY <1>1, <1>4, Queues DEF Sends, NoOtherQueues
<1>5. CASE queue' = queue
  BY <1>1, <1>5 DEF NoOtherQueues
<1> QED BY <1>2, <1>3, <1>4, <1>5

-----------------------------------------------------------------------------
(***************************************************************************)
(* The types of the variables.                                             *)
(***************************************************************************)
LEMMA FreshGrows ==
  ASSUME NEW k, NEW M, NEW u \in Nat, NEW v \in Fresh(k, M, u)
  PROVE  v \in Nat \ {0} /\ u < v
BY SyncAssumption DEF Fresh, Values

LEMMA MayNot ==
  ASSUME Growing, Types
  PROVE  "delete" \notin may /\ "foreign delete" \notin may /\ "concurrent calls" \notin may
BY DEF Growing, Types, LocalTypes

\* The changes of the application: a row grows.
LEMMA ClientChangesRow ==
  ASSUME Growing, Types, NEW k \in Keys, ClientChanges(k)
  PROVE  \E v \in Nat \ {0} : data.tbl[k] < v /\ RowWritten(k, v, {<<k, v>>})
<1>1. data.tbl[k] \in Nat
  BY DEF Types, LocalTypes, Data
<1>2. PICK v \in Fresh(k, data.made, data.tbl[k]) \cup {0} :
        (v = 0 => "delete" \in may) /\ SetRow([Row(k, v) EXCEPT !.made = @ \cup {Change(k, v)}])
  BY DEF ClientChanges
<1>3. v \in Nat \ {0} /\ data.tbl[k] < v
  BY <1>1, <1>2, MayNot, FreshGrows
<1> QED BY <1>2, <1>3, ClientWritesRow

\* Those of the handlers.
LEMMA HandlerAppliesRow ==
  ASSUME Types, NEW i \in 1 .. MaxWal, HandlerApplies(i)
  PROVE  \/ /\ UNCHANGED <<data, saved, applying, nextId>>
            /\ tx' = tx \/ (tx # "none" /\ tx' = "aborted")
         \/ i \in 1 .. Len(wal) /\ data.tbl[wal[i].key] < wal[i].value
            /\ RowWritten(wal[i].key, wal[i].value, {})
<1>1. i \in 1 .. Len(wal) /\ wal[i] \in Messages /\ tx \in {"none", "open", "aborted"}
  <2>1. handler[i].pc # "none"
    BY DEF HandlerApplies
  <2>2. wal \in Seq(Messages) /\ delivered \in 0 .. Len(wal) /\ ~(i > delivered)
    BY <2>1 DEF Types, RemoteTypes
  <2>3. Len(wal) \in Nat /\ i \in Nat /\ 1 <= i /\ delivered \in Nat /\ delivered <= Len(wal)
    BY <2>2, SyncAssumption
  <2>4. i \in 1 .. Len(wal)
    BY <2>2, <2>3
  <2> QED BY <2>2, <2>4 DEF Types, LocalTypes
<1>2. wal[i].key \in Keys /\ wal[i].value \in Nat \ {0} /\ data.tbl[wal[i].key] \in Nat
  BY <1>1 DEF Messages, Types, LocalTypes, Data
<1>3. CASE StatementFails
  BY <1>1, <1>3 DEF StatementFails
<1>4. CASE Takes(data.tbl[wal[i].key], wal[i].value) /\ SetRow(Row(wal[i].key, wal[i].value))
  <2>1. data.tbl[wal[i].key] < wal[i].value
    BY <1>2, <1>4 DEF Takes, Newer
  <2> QED BY <1>1, <1>2, <1>4, <2>1, HandlerWritesRow
<1>5. CASE UNCHANGED localVars
  BY <1>5 DEF localVars
<1> QED BY <1>3, <1>4, <1>5 DEF HandlerApplies

\* What a push leaves of the database.
LEMMA AdvanceStores ==
  ASSUME Types, NEW p \in Pushers, Advance(p), tx # "aborted", push[p].batch # <<>>
  PROVE  LastId(p) \in Nat /\ Stores([data EXCEPT !.lastPush = LastId(p)])
         /\ [data EXCEPT !.lastPush = LastId(p)] \in Data /\ LastId(p)' = LastId(p)
<1>1. push[p] \in Pushes /\ data \in Data
  BY DEF Types, LocalTypes
<1>2. push[p].batch \in Seq(Entries)
  BY <1>1 DEF Pushes
<1>3. push[p].batch[Len(push[p].batch)] \in Entries
  BY <1>2
<1>4. LastId(p) \in Nat
  BY <1>3 DEF LastId, Entries
<1>5. [data EXCEPT !.lastPush = LastId(p)] \in Data
  BY <1>1, <1>4 DEF Data
<1>6. push' = [push EXCEPT ![p].pc = "truncate"] /\ Executes([data EXCEPT !.lastPush = LastId(p)])
  BY DEF Advance
<1>7. push'[p].batch = push[p].batch
  BY <1>6 DEF Types, LocalTypes, Pushes
<1> QED BY <1>4, <1>5, <1>6, <1>7, ExecutesStores DEF LastId

LEMMA BeyondMembers ==
  ASSUME NEW s \in Seq(Entries), NEW id
  PROVE  Beyond(s, id) \in Seq(Entries) /\ ToSet(Beyond(s, id)) = {e \in ToSet(s) : e.id > id}
<1> DEFINE S == {e \in ToSet(s) : e.id > id}
<1>1. Beyond(s, id) = Among(s, S)
  BY DEF Beyond
<1>2. ToSet(s) \cap S = S
  OBVIOUS
<1> HIDE DEF S
<1>3. Among(s, S) \in Seq(Entries) /\ ToSet(Among(s, S)) = ToSet(s) \cap S
  BY AmongMembers
<1> QED BY <1>1, <1>2, <1>3 DEF S

LEMMA TruncateStores ==
  ASSUME Types, NEW p \in Pushers, Truncate(p), tx # "aborted"
  PROVE  Stores([data EXCEPT !.outbox = Beyond(@, LastId(p))])
         /\ [data EXCEPT !.outbox = Beyond(@, LastId(p))] \in Data
<1> DEFINE o == Beyond(data.outbox, LastId(p))
<1>1. data \in Data /\ data.outbox \in Seq(Entries)
  BY DEF Types, LocalTypes, Data
<1>2. o \in Seq(Entries)
  BY <1>1, BeyondMembers
<1>3. [data EXCEPT !.outbox = Beyond(@, LastId(p))] = [data EXCEPT !.outbox = o]
  OBVIOUS
<1>4. Executes([data EXCEPT !.outbox = o])
  BY <1>3 DEF Truncate
<1> HIDE DEF o
<1>5. [data EXCEPT !.outbox = o] \in Data
  BY <1>1, <1>2 DEF Data
<1> QED BY <1>3, <1>4, <1>5, ExecutesStores

LEMMA CreateStores ==
  ASSUME Types, NEW i \in 1 .. MaxWal, HandlerCreates(i)
  PROVE  /\ nextId' = nextId
         /\ \/ /\ UNCHANGED <<data, saved, applying>>
               /\ tx' = tx \/ (tx # "none" /\ tx' = "aborted")
            \/ Stores([data EXCEPT !.exists = TRUE])
<1>1. [data EXCEPT !.exists = TRUE] \in Data /\ tx \in {"none", "open", "aborted"}
  BY DEF Types, LocalTypes, Data
<1> QED BY <1>1, ExecutesStores DEF HandlerCreates, StatementFails, localVars

\* Who takes a step keeps the rest of the session as it is.
LEMMA ApplicationTypes ==
  ASSUME Growing, Types, Application
  PROVE  Types'
<1>1. (Turn(TheClient) /\ Leaves) \/ Sends(TheClient)
  BY DEF Application, ClientChanges, ClientSends, ClientReads, ClientBegins, ClientFails,
         ClientEnds
<1>2. queue' \in Seq(Parties)
  BY <1>1, PartiesAre, QueueMoves DEF NoOtherQueues
<1>3. UNCHANGED <<may, push, meta, remote, wal, foreign, delivered, handler>>
  BY DEF Application, ClientChanges, ClientSends, ClientReads, ClientBegins, ClientFails,
         ClientEnds, sessionVars, remoteVars
<1>4. RemoteTypes'
  BY <1>3 DEF Types, RemoteTypes
<1>5. ASSUME NEW k \in Keys, ClientChanges(k) PROVE LocalTypes'
  <2>1. PICK v \in Nat \ {0} : RowWritten(k, v, {<<k, v>>})
    BY <1>5, ClientChangesRow
  <2>2. nextId' \in Nat /\ client' = client
    BY <1>5, <2>1 DEF RowWritten, Types, LocalTypes, ClientChanges
  <2> QED BY <1>2, <1>3, <2>1, <2>2 DEF RowWritten, Types, LocalTypes
<1>6. CASE ClientEnds
  <2>1. Ends /\ client' = "idle"
    BY <1>6, EndTxEnds DEF ClientEnds
  <2> QED BY <1>2, <1>3, <1>4, <2>1 DEF Ends, Types, LocalTypes
<1>7. CASE ClientSends \/ ClientReads
  BY <1>2, <1>3, <1>4, <1>7 DEF ClientSends, ClientReads, localVars, Types, LocalTypes
<1>8. CASE ClientBegins \/ ClientFails
  BY <1>2, <1>3, <1>4, <1>8 DEF ClientBegins, ClientFails, Begin, StatementFails, Types, LocalTypes
<1> QED BY <1>4, <1>5, <1>6, <1>7, <1>8 DEF Application, Types

LEMMA IdlePush == Idle \in Pushes
<1>1. <<>> \in Seq(Entries)
  OBVIOUS
<1> QED BY <1>1 DEF Idle, Pushes

LEMMA PushMoves ==
  ASSUME Types, NEW p \in Pushers,
         NEW pc \in {"idle", "cursor", "outbox", "rows", "meta", "advance", "truncate"},
         push' = [push EXCEPT ![p].pc = pc] \/ PushReturns(p)
  PROVE  push' \in [Pushers -> Pushes]
<1>1. push \in [Pushers -> Pushes]
  BY DEF Types, LocalTypes
<1>2. CASE push' = [push EXCEPT ![p].pc = pc]
  <2>1. [push[p] EXCEPT !.pc = pc] \in Pushes
    BY <1>1 DEF Pushes
  <2> QED BY <1>1, <1>2, <2>1
<1>3. CASE PushReturns(p)
  BY <1>1, <1>3, IdlePush DEF PushReturns
<1> QED BY <1>2, <1>3

LEMMA PushTypes ==
  ASSUME Growing, Types, NEW p \in Pushers, PushStep(p) \/ ClientSyncs(p) \/ PushFails(p),
         QueuedInv
  PROVE  Types'
<1>0. /\ push \in [Pushers -> Pushes] /\ client \in {"idle", "begun"} \cup Pushers
      /\ queue \in Seq(Parties)
  BY DEF Types, LocalTypes
<1>1. (Turn(Push(p)) /\ (Leaves \/ Goes(Push(p)))) \/ Sends(Push(p)) \/ queue' = queue
  BY DEF PushStep, ClientSyncs, AutoPush, ReadCursor, ReadOutbox, PushNeedsMeta, PushReadsMeta,
         PushRow, PushCommits, PushFails, Advance, Truncate
<1>2. queue' \in Seq(Parties)
  BY <1>1, PartiesAre, QueueMoves DEF NoOtherQueues
<1>3. may' = may /\ client' \in {client, "idle", p}
  BY DEF PushStep, ClientSyncs, AutoPush, ReadCursor, ReadOutbox, PushNeedsMeta, PushReadsMeta,
         PushRow, PushCommits, PushFails, Advance, Truncate, PushReturns
<1>4. CASE RemoteCommits(p) /\ (PushCommits(p) \/ PushFails(p))
  <2>1. PICK r : /\ Grows(r, ToSet(push[p].batch)) /\ remote' = r.tbl /\ wal' = r.wal
    <3>1. \A m \in ToSet(wal) : m.value <= remote[m.key]
      BY DEF QueuedInv, OutboxInv
    <3> QED BY <1>4, <3>1, RemoteGrows
  <2>2. /\ remote' \in [Keys -> Nat] /\ wal' \in Seq(Messages) /\ Len(wal) <= Len(wal')
    BY <2>1 DEF Grows, Remotes
  <2>3. UNCHANGED <<meta, foreign, handler, delivered, data, saved, tx, applying, nextId>>
    BY <1>4 DEF PushCommits, PushFails, localVars, sessionVars
  <2>4. push' \in [Pushers -> Pushes]
    BY <1>4, PushMoves DEF PushCommits, PushFails
  <2>5. delivered \in 0 .. Len(wal')
    BY <2>2 DEF Types, RemoteTypes
  <2> QED BY <1>0, <1>2, <1>3, <2>2, <2>3, <2>4, <2>5 DEF Types, LocalTypes, RemoteTypes
<1>5. CASE ~RemoteCommits(p) \/ ~(PushCommits(p) \/ PushFails(p))
  <2>1. UNCHANGED <<remote, wal, foreign, handler, delivered>>
    BY <1>5 DEF PushStep, ClientSyncs, AutoPush, ReadCursor, ReadOutbox, PushNeedsMeta,
           PushReadsMeta, PushRow, PushCommits, PushFails, Advance, Truncate, remoteVars
  <2>2. meta' \in {"absent", "fallback", "known"}
    BY DEF PushStep, ClientSyncs, AutoPush, ReadCursor, ReadOutbox, PushNeedsMeta,
           PushReadsMeta, PushRow, PushCommits, PushFails, Advance, Truncate, sessionVars,
           MetaRead, Types, RemoteTypes
  <2>3. RemoteTypes'
    BY <2>1, <2>2 DEF Types, RemoteTypes
  <2>4. push' \in [Pushers -> Pushes]
    <3>1. CASE ClientSyncs(p) \/ AutoPush(p) \/ PushNeedsMeta(p) \/ PushReadsMeta(p)
               \/ PushCommits(p) \/ PushFails(p) \/ Advance(p) \/ Truncate(p)
      BY <3>1, PushMoves DEF ClientSyncs, AutoPush, PushNeedsMeta, PushReadsMeta, PushCommits,
           PushFails, Advance, Truncate
    <3>2. CASE ReadCursor(p)
      <4>1. data.lastPush \in Nat
        BY DEF Types, LocalTypes, Data
      <4>2. \/ PushReturns(p)
            \/ push' = [push EXCEPT ![p] = [push[p] EXCEPT !.pc = "outbox", !.from = data.lastPush]]
        BY <1>0, <3>2 DEF ReadCursor
      <4>3. [push[p] EXCEPT !.pc = "outbox", !.from = data.lastPush] \in Pushes
        BY <1>0, <4>1 DEF Pushes
      <4> QED BY <1>0, <4>2, <4>3, IdlePush DEF PushReturns
    <3>3. CASE ReadOutbox(p)
      <4> DEFINE rows == Beyond(data.outbox, push[p].from)
                 own == "origin" \in may /\ \A q \in Pushers : ~push[q].own
      <4>1. rows \in Seq(Entries)
        BY BeyondMembers DEF Types, LocalTypes, Data
      <4>2. own \in BOOLEAN
        OBVIOUS
      <4>3. \/ PushReturns(p)
            \/ push' = [push EXCEPT ![p] = [push[p] EXCEPT !.pc = "rows", !.batch = rows,
                                                           !.own = own]]
        BY <1>0, <3>3 DEF ReadOutbox
      <4> HIDE DEF rows, own
      <4>4. [push[p] EXCEPT !.pc = "rows", !.batch = rows, !.own = own] \in Pushes
        BY <1>0, <4>1, <4>2 DEF Pushes
      <4> QED BY <1>0, <4>3, <4>4, IdlePush DEF PushReturns
    <3>4. CASE PushRow(p)
      <4>1. push' = [push EXCEPT ![p] = [push[p] EXCEPT !.noted = push[p].noted + 1]]
        BY <1>0, <3>4 DEF PushRow
      <4>2. [push[p] EXCEPT !.noted = push[p].noted + 1] \in Pushes
        <5>1. push[p] \in Pushes
          BY <1>0
        <5>2. push[p].noted \in Nat
          BY <5>1 DEF Pushes
        <5>3. push[p].noted + 1 \in Nat
          BY <5>2
        <5> QED BY <5>1, <5>3 DEF Pushes
      <4> QED BY <1>0, <4>1, <4>2
    <3> QED BY <3>1, <3>2, <3>3, <3>4 DEF PushStep
  <2>5. data' \in Data /\ saved' \in Data /\ UNCHANGED <<tx, applying, nextId>>
    <3>1. CASE Advance(p) /\ tx # "aborted"
      <4>1. push[p].batch # <<>>
        BY <3>1 DEF QueuedInv, Pushing, Advance
      <4> QED BY <3>1, <4>1, AdvanceStores DEF Stores, Advance
    <3>2. CASE Truncate(p) /\ tx # "aborted"
      BY <3>2, TruncateStores DEF Stores, Truncate
    <3>3. CASE ~(Advance(p) /\ tx # "aborted") /\ ~(Truncate(p) /\ tx # "aborted")
      <4>1. UNCHANGED <<data, saved, tx, applying, nextId>>
        BY <3>3 DEF PushStep, ClientSyncs, AutoPush, ReadCursor, ReadOutbox, PushNeedsMeta,
               PushReadsMeta, PushRow, PushCommits, PushFails, Advance, Truncate, localVars
      <4> QED BY <4>1 DEF Types, LocalTypes
    <3> QED BY <3>1, <3>2, <3>3
  <2>6. LocalTypes'
    BY <1>0, <1>2, <1>3, <2>4, <2>5 DEF Types, LocalTypes
  <2> QED BY <2>3, <2>6 DEF Types
<1> QED BY <1>4, <1>5

\* A step of the handler of message i changes what it keeps of i only.
OneHandler(i) ==
  /\ handler' \in [1 .. MaxWal -> Handlers]
  /\ \A j \in 1 .. MaxWal : j # i => handler'[j] = handler[j]

LEMMA HandlerGoes ==
  ASSUME Types, NEW i \in 1 .. MaxWal,
         NEW pc \in {"none", "meta", "begin", "flag", "apply", "commit", "undo", "undo, create",
                     "fetch", "create", "done", "failed"},
         Goto(i, pc)
  PROVE  OneHandler(i) /\ handler'[i].pc = pc
<1>1. handler \in [1 .. MaxWal -> Handlers]
  BY DEF Types, RemoteTypes
<1>2. [handler[i] EXCEPT !.pc = pc] \in Handlers /\ [handler[i] EXCEPT !.pc = pc].pc = pc
  BY <1>1 DEF Handlers
<1>3. handler' = [handler EXCEPT ![i] = [handler[i] EXCEPT !.pc = pc]]
  BY <1>1 DEF Goto
<1> QED BY <1>1, <1>2, <1>3 DEF OneHandler

LEMMA HandlerRestarts ==
  ASSUME Types, NEW i \in 1 .. MaxWal, NEW m \in {"absent", "fallback", "known"},
         NEW retry \in BOOLEAN,
         handler' = [handler EXCEPT ![i] = [pc |-> "begin", m |-> m, retry |-> retry]]
  PROVE  OneHandler(i) /\ handler'[i].pc = "begin"
<1>1. handler \in [1 .. MaxWal -> Handlers]
  BY DEF Types, RemoteTypes
<1>2. [pc |-> "begin", m |-> m, retry |-> retry] \in Handlers
  BY DEF Handlers
<1> QED BY <1>1, <1>2 DEF OneHandler

\* The places of a handler, and who may be where.
LEMMA HandlerPlaces ==
  ASSUME Types, NEW i \in 1 .. MaxWal, HandlerStep(i)
  PROVE  /\ OneHandler(i) /\ meta' \in {"absent", "fallback", "known"}
         /\ Deliver(i) \/ (Active(i) /\ delivered' = delivered)
<1>0. meta \in {"absent", "fallback", "known"} /\ handler \in [1 .. MaxWal -> Handlers]
  BY DEF Types, RemoteTypes
<1>1. MetaRead \in {"absent", "fallback", "known"}
  BY DEF MetaRead
<1>2. ASSUME NEW m \in {"absent", "fallback", "known"}, CheckEcho(i, m)
      PROVE  OneHandler(i)
  BY <1>2, HandlerGoes, HandlerRestarts DEF CheckEcho
<1>3. CASE Deliver(i)
  BY <1>0, <1>2, <1>3, HandlerGoes DEF Deliver
<1>4. CASE ReadMeta(i)
  <2>1. OneHandler(i) /\ meta' \in {"absent", "fallback", "known"}
    BY <1>0, <1>1, <1>2, <1>4, HandlerGoes DEF ReadMeta
  <2> QED BY <1>4, <2>1 DEF ReadMeta, Active
<1>5. CASE HandlerBegins(i)
  BY <1>0, <1>5, HandlerGoes DEF HandlerBegins, Active, sessionVars
<1>6. CASE HandlerFlags(i)
  <2>1. OneHandler(i)
    <3>1. Goto(i, "undo") \/ Goto(i, "apply")
      BY <1>6 DEF HandlerFlags, Flagged
    <3> QED BY <3>1, HandlerGoes
  <2> QED BY <1>0, <1>6, <2>1 DEF HandlerFlags, Flagged, Active, sessionVars
<1>7. CASE HandlerApplies(i)
  <2>1. OneHandler(i)
    <3>1. Goto(i, "commit") \/ Goto(i, "undo") \/ Goto(i, "undo, create")
      BY <1>7 DEF HandlerApplies
    <3> QED BY <3>1, HandlerGoes
  <2> QED BY <1>0, <1>7, <2>1 DEF HandlerApplies, Active, sessionVars
<1>8. CASE HandlerCommits(i)
  BY <1>0, <1>8, HandlerGoes DEF HandlerCommits, Active, sessionVars
<1>9. CASE HandlerUndoes(i)
  <2>1. OneHandler(i)
    <3>1. Goto(i, "failed") \/ Goto(i, "fetch")
      BY <1>9 DEF HandlerUndoes
    <3> QED BY <3>1, HandlerGoes
  <2> QED BY <1>0, <1>9, <2>1 DEF HandlerUndoes, Active, sessionVars
<1>10. CASE HandlerFetches(i)
  BY <1>0, <1>10, HandlerGoes DEF HandlerFetches, Active, sessionVars
<1>11. CASE HandlerCreates(i)
  <2>1. meta' \in {"absent", "fallback", "known"}
    BY <1>0, <1>11 DEF HandlerCreates
  <2>2. \/ handler' = [handler EXCEPT ![i] = [pc |-> "begin", m |-> meta', retry |-> TRUE]]
        \/ Goto(i, "failed")
    BY <1>11 DEF HandlerCreates
  <2>3. OneHandler(i)
    BY <2>1, <2>2, HandlerGoes, HandlerRestarts
  <2> QED BY <1>11, <2>1, <2>3 DEF HandlerCreates, Active
<1> QED BY <1>3, <1>4, <1>5, <1>6, <1>7, <1>8, <1>9, <1>10, <1>11 DEF HandlerStep

LEMMA HandlerQueues ==
  ASSUME Types, NEW i \in 1 .. MaxWal, HandlerStep(i)
  PROVE  NoOtherQueues(Handler(i))
<1>1. \/ Turn(Handler(i)) /\ (Leaves \/ Goes(Handler(i)))
      \/ Sends(Handler(i)) \/ queue' = queue
  <2>1. CASE Deliver(i)
    BY <2>1 DEF Deliver, Sends
  <2>2. CASE ~Deliver(i)
    BY <2>2 DEF HandlerStep, ReadMeta, HandlerBegins, HandlerFlags, Flagged, HandlerApplies,
         HandlerCommits, HandlerUndoes, HandlerFetches, HandlerCreates
  <2> QED BY <2>1, <2>2
<1> QED BY <1>1, PartiesAre, QueueMoves

\* What a handler leaves of the database.
HandlerLeaves(i) ==
  \/ /\ UNCHANGED <<data, saved, applying, nextId>>
     /\ \/ tx' = tx \/ (tx # "none" /\ tx' = "aborted")
        \/ tx = "none" /\ tx' = "open" /\ handler'[i].pc = "flag"
  \/ UNCHANGED <<data, saved, tx, nextId>> /\ applying' = (applying \/ tx = "open")
     /\ handler'[i].pc \in {"undo", "apply"}
  \/ Ends
  \/ Stores([data EXCEPT !.exists = TRUE]) /\ nextId' = nextId
  \/ /\ handler[i].pc = "apply"
     /\ i \in 1 .. Len(wal) /\ data.tbl[wal[i].key] < wal[i].value
     /\ RowWritten(wal[i].key, wal[i].value, {})

LEMMA HandlerData ==
  ASSUME Types, NEW i \in 1 .. MaxWal, HandlerStep(i)
  PROVE  HandlerLeaves(i)
<1>1. CASE Deliver(i) \/ ReadMeta(i) \/ HandlerFetches(i)
  BY <1>1 DEF Deliver, ReadMeta, HandlerFetches, localVars, HandlerLeaves
<1>2. CASE HandlerBegins(i)
  <2>1. tx \in {"none", "open", "aborted"}
    BY DEF Types, LocalTypes
  <2>2. CASE tx = "aborted"
    BY <1>2, <2>2 DEF HandlerBegins, Begin, HandlerLeaves
  <2>3. CASE tx # "aborted"
    BY <1>2, <2>1, <2>3, HandlerGoes DEF HandlerBegins, Begin, HandlerLeaves
  <2> QED BY <2>2, <2>3
<1>3. CASE HandlerFlags(i)
  <2>1. handler'[i].pc \in {"undo", "apply"}
    <3>1. Goto(i, "undo") \/ Goto(i, "apply")
      BY <1>3 DEF HandlerFlags, Flagged
    <3> QED BY <3>1, HandlerGoes
  <2> QED BY <1>3, <2>1 DEF HandlerFlags, Flagged, HandlerLeaves
<1>4. CASE HandlerApplies(i)
  <2>1. handler[i].pc = "apply"
    BY <1>4 DEF HandlerApplies
  <2> QED BY <1>4, <2>1, HandlerAppliesRow DEF HandlerLeaves
<1>5. CASE HandlerCommits(i) \/ HandlerUndoes(i)
  BY <1>5, EndTxEnds DEF HandlerCommits, HandlerUndoes, HandlerLeaves
<1>6. CASE HandlerCreates(i)
  BY <1>6, CreateStores DEF HandlerLeaves
<1> QED BY <1>1, <1>2, <1>3, <1>4, <1>5, <1>6 DEF HandlerStep

LEMMA HandlerTypes ==
  ASSUME Types, NEW i \in 1 .. MaxWal, HandlerStep(i)
  PROVE  Types'
<1>1. /\ OneHandler(i) /\ meta' \in {"absent", "fallback", "known"}
      /\ Deliver(i) \/ (Active(i) /\ delivered' = delivered)
  BY HandlerPlaces
<1>2. UNCHANGED <<may, client, push, remote, wal, foreign>>
  BY DEF HandlerStep, Deliver, ReadMeta, HandlerBegins, HandlerFlags, Flagged, HandlerApplies,
         HandlerCommits, HandlerUndoes, HandlerFetches, HandlerCreates, sessionVars, remoteVars
<1>3. Len(wal) \in Nat /\ i \in Nat /\ delivered \in Nat /\ delivered <= Len(wal)
  <2>1. wal \in Seq(Messages) /\ delivered \in 0 .. Len(wal)
    BY DEF Types, RemoteTypes
  <2> QED BY <2>1, SyncAssumption
<1>4. /\ delivered' \in 0 .. Len(wal) /\ delivered <= delivered' /\ i <= delivered'
  <2>1. CASE Deliver(i)
    <3>1. delivered' = i /\ i = delivered + 1 /\ i <= Len(wal)
      BY <2>1 DEF Deliver
    <3> QED BY <1>3, <3>1
  <2>2. CASE Active(i) /\ delivered' = delivered
    <3>1. ~(i > delivered)
      BY <2>2 DEF Active, Types, RemoteTypes
    <3>2. i <= delivered
      BY <1>3, <3>1
    <3> QED BY <1>3, <2>2, <3>2
  <2> QED BY <1>1, <2>1, <2>2
<1>5. \A j \in 1 .. MaxWal : j > delivered' => handler'[j].pc = "none"
  <2> SUFFICES ASSUME NEW j \in 1 .. MaxWal, j > delivered' PROVE handler'[j].pc = "none"
    OBVIOUS
  <2>1. j \in Nat /\ delivered' \in Nat /\ j # i /\ j > delivered
    BY <1>3, <1>4, SyncAssumption
  <2>2. handler'[j] = handler[j] /\ handler[j].pc = "none"
    BY <1>1, <2>1 DEF OneHandler, Types, RemoteTypes
  <2> QED BY <2>2
<1>6. RemoteTypes'
  BY <1>1, <1>2, <1>4, <1>5 DEF OneHandler, Types, RemoteTypes
<1>7. queue' \in Seq(Parties)
  BY HandlerQueues DEF NoOtherQueues
<1>8. /\ data' \in Data /\ saved' \in Data /\ nextId' \in Nat
      /\ tx' \in {"none", "open", "aborted"} /\ applying' \in BOOLEAN
  <2>1. /\ data \in Data /\ saved \in Data /\ nextId \in Nat
        /\ tx \in {"none", "open", "aborted"} /\ applying \in BOOLEAN
    BY DEF Types, LocalTypes
  <2>2. CASE Ends \/ (Stores([data EXCEPT !.exists = TRUE]) /\ nextId' = nextId)
    BY <2>1, <2>2 DEF Ends, Stores
  <2>3. CASE RowWritten(wal[i].key, wal[i].value, {})
    BY <2>1, <2>3 DEF RowWritten
  <2>4. CASE ~(Ends \/ (Stores([data EXCEPT !.exists = TRUE]) /\ nextId' = nextId)
               \/ RowWritten(wal[i].key, wal[i].value, {}))
    BY <2>1, <2>4, HandlerData DEF HandlerLeaves
  <2> QED BY <2>2, <2>3, <2>4
<1>9. LocalTypes'
  BY <1>2, <1>7, <1>8 DEF Types, LocalTypes
<1> QED BY <1>6, <1>9 DEF Types

LEMMA OutsideTypes ==
  ASSUME Growing, Types,
         (\E k \in Keys : ForeignChanges(k)) \/ Expire \/ InitialSync \/ StartPuller \/ Crash
  PROVE  Types'
<1>0. /\ remote \in [Keys -> Nat] /\ wal \in Seq(Messages) /\ foreign \subseteq Keys \X Nat
      /\ data \in Data /\ saved \in Data /\ handler \in [1 .. MaxWal -> Handlers]
      /\ delivered \in 0 .. Len(wal) /\ Len(wal) \in Nat
  BY DEF Types, LocalTypes, RemoteTypes
<1>1. ASSUME NEW k \in Keys, ForeignChanges(k) PROVE Types'
  <2>1. PICK v \in Fresh(k, foreign, remote[k]) \cup {0} :
          /\ v = 0 => "foreign delete" \in may
          /\ remote' = [remote EXCEPT ![k] = v]
          /\ wal' = Append(wal, Message(k, remote[k], v, FALSE))
          /\ foreign' = foreign \cup {Change(k, v)}
    BY <1>1 DEF ForeignChanges
  <2>2. v \in Nat \ {0}
    BY <1>0, <2>1, MayNot, FreshGrows
  <2> DEFINE m == Message(k, remote[k], v, FALSE)
  <2>3. m \in Messages /\ wal' = Append(wal, m)
    BY <2>1, <2>2 DEF Message, Messages
  <2> HIDE DEF m
  <2>4. wal' \in Seq(Messages) /\ Len(wal') = Len(wal) + 1
    BY <1>0, <2>3
  <2>5. remote' \in [Keys -> Nat] /\ foreign' \subseteq Keys \X Nat
    <3>1. <<k, v>> \in Keys \X Nat /\ Change(k, v) = <<k, v>>
      BY <2>2 DEF Change
    <3>2. foreign' \subseteq Keys \X Nat
      BY <1>0, <2>1, <3>1
    <3>3. [remote EXCEPT ![k] = v] \in [Keys -> Nat]
      BY <1>0, <2>2
    <3> QED BY <2>1, <3>2, <3>3
  <2>6. delivered \in 0 .. Len(wal')
    BY <1>0, <2>4
  <2>7. UNCHANGED <<may, data, saved, tx, applying, nextId, client, queue, push, meta, handler,
                    delivered>>
    BY <1>1 DEF ForeignChanges, localVars, sessionVars
  <2> QED BY <2>4, <2>5, <2>6, <2>7 DEF Types, LocalTypes, RemoteTypes
<1>2. CASE Expire
  BY <1>2 DEF Expire, localVars, remoteVars, Types, LocalTypes, RemoteTypes
<1>3. CASE InitialSync
  <2>1. data' \in Data /\ saved' \in Data
    <3>1. CASE UNCHANGED <<data, saved>>
      BY <1>0, <3>1
    <3>2. CASE ~UNCHANGED <<data, saved>>
      <4> DEFINE t == [k \in Keys |-> IF remote[k] > 0 /\ Newer(data.tbl[k], remote[k])
                                      THEN remote[k] ELSE data.tbl[k]]
      <4>1. data' = [data EXCEPT !.tbl = t, !.exists = TRUE] /\ saved' = data'
        BY <1>3, <3>2 DEF InitialSync
      <4>2. t \in [Keys -> Nat]
        BY <1>0 DEF Data
      <4> HIDE DEF t
      <4> QED BY <1>0, <4>1, <4>2 DEF Data
    <3> QED BY <3>1, <3>2
  <2>2. meta' \in {"absent", "fallback", "known"}
    BY <1>3 DEF InitialSync, Types, RemoteTypes
  <2>3. UNCHANGED <<may, tx, applying, nextId, client, queue, push, remote, wal, foreign,
                    handler, delivered>>
    BY <1>3 DEF InitialSync, remoteVars
  <2> QED BY <2>1, <2>2, <2>3 DEF Types, LocalTypes, RemoteTypes
<1>4. CASE StartPuller
  <2>1. delivered' \in 0 .. Len(wal) /\ delivered <= delivered'
    BY <1>0, <1>4 DEF StartPuller
  <2>2. UNCHANGED <<may, data, saved, tx, applying, nextId, client, queue, push, meta, remote,
                    wal, foreign, handler>>
    BY <1>4 DEF StartPuller, localVars, sessionVars
  <2>3. \A j \in 1 .. MaxWal : j > delivered' => j > delivered
    BY <1>0, <2>1, SyncAssumption
  <2> QED BY <2>1, <2>2, <2>3 DEF Types, LocalTypes, RemoteTypes
<1>5. CASE Crash
  <2>1. delivered' \in 0 .. Len(wal)
    BY <1>0, <1>5 DEF Crash
  <2>2. \A j \in 1 .. MaxWal :
          handler'[j] = IF j > delivered' THEN Unseen
                        ELSE IF Active(j) THEN [handler[j] EXCEPT !.pc = "failed"]
                        ELSE handler[j]
    BY <1>5 DEF Crash
  <2>3. DOMAIN handler' = 1 .. MaxWal /\ handler' = [j \in 1 .. MaxWal |-> handler'[j]]
    BY <1>5 DEF Crash
  <2>4. \A j \in 1 .. MaxWal : handler'[j] \in Handlers
    <3> TAKE j \in 1 .. MaxWal
    <3>1. Unseen \in Handlers /\ [handler[j] EXCEPT !.pc = "failed"] \in Handlers
          /\ handler[j] \in Handlers
      BY <1>0 DEF Unseen, Handlers
    <3> QED BY <2>2, <3>1
  <2>5. \A j \in 1 .. MaxWal : j > delivered' => handler'[j].pc = "none"
    <3> SUFFICES ASSUME NEW j \in 1 .. MaxWal, j > delivered' PROVE handler'[j].pc = "none"
      OBVIOUS
    <3>1. handler'[j] = Unseen
      BY <2>2
    <3> QED BY <3>1 DEF Unseen
  <2>6. push' \in [Pushers -> Pushes] /\ queue' \in Seq(Parties)
    BY <1>5, IdlePush DEF Crash
  <2>7. /\ data' = saved /\ tx' = "none" /\ applying' = FALSE /\ client' = "idle"
        /\ meta' = "absent" /\ UNCHANGED <<may, saved, nextId, remote, wal, foreign>>
    BY <1>5 DEF Crash, remoteVars
  <2>8. LocalTypes'
    BY <2>6, <2>7 DEF Types, LocalTypes
  <2>9. RemoteTypes'
    BY <2>1, <2>3, <2>4, <2>5, <2>7 DEF Types, RemoteTypes
  <2> QED BY <2>8, <2>9 DEF Types
<1> QED BY <1>1, <1>2, <1>3, <1>4, <1>5

LEMMA TypesStep ==
  ASSUME Growing, Types, QueuedInv, [SyncNext]_vars
  PROVE  Types'
<1>1. CASE UNCHANGED vars
  BY <1>1 DEF vars, localVars, remoteVars, Types, LocalTypes, RemoteTypes
<1>2. CASE SyncNext
  BY <1>2, ApplicationTypes, PushTypes, HandlerTypes, OutsideTypes DEF SyncNext
<1> QED BY <1>1, <1>2

-----------------------------------------------------------------------------
(***************************************************************************)
(* The application and the handlers.                                       *)
(***************************************************************************)
LEMMA ApplicationAlone ==
  ASSUME Growing, Types, ApartInv, Application
  PROVE  handler' = handler /\ ~Applying
<1>1. handler' = handler
  BY DEF Application, ClientChanges, ClientSends, ClientReads, ClientBegins, ClientFails,
         ClientEnds
<1>2. CASE ClientSends
  BY <1>1, <1>2, MayNot DEF ClientSends, MayCall
<1>3. CASE Turn(TheClient)
  BY <1>1, <1>3, PartiesAre, Served DEF ApartInv, Calling
<1> QED BY <1>2, <1>3 DEF Application, ClientChanges, ClientReads, ClientBegins, ClientFails,
                          ClientEnds

LEMMA ApplicationApart ==
  ASSUME Growing, Types, ApartInv, Application
  PROVE  ApartInv'
<1>0. handler' = handler
  BY ApplicationAlone
<1>1. ~Applying
  BY ApplicationAlone
<1>2. ~Applying' /\ ~applying
  <2>1. \A i \in 1 .. MaxWal : ~InTransaction(i)
    BY <1>1 DEF Applying, Active, InTransaction
  <2> QED BY <1>0, <1>1, <2>1 DEF ApartInv, Applying, Active
<1>3. ~applying' /\ (tx' # "none" => client' = "begun")
  <2>0. tx # "none" => client = "begun"
    BY <1>1 DEF ApartInv, Applying, Active, InTransaction
  <2>1. ASSUME NEW k \in Keys, ClientChanges(k)
        PROVE  ~applying' /\ (tx' # "none" => client' = "begun")
    <3>1. PICK v \in Nat \ {0} : RowWritten(k, v, {<<k, v>>})
      BY <2>1, ClientChangesRow
    <3>2. tx' = tx /\ applying' = applying /\ client' = client
      BY <2>1, <3>1 DEF RowWritten, ClientChanges
    <3> QED BY <1>2, <2>0, <3>2
  <2>2. CASE ClientEnds
    BY <2>2, EndTxEnds DEF ClientEnds, Ends
  <2>3. CASE ClientSends \/ ClientReads \/ ClientBegins \/ ClientFails
    <3>1. applying' = applying
      BY <2>3 DEF ClientSends, ClientReads, ClientBegins, ClientFails, localVars, Begin,
         StatementFails
    <3>2. client' = "begun" \/ (client' = client /\ (tx' = tx \/ client = "begun"))
      BY <2>3 DEF ClientSends, ClientReads, ClientBegins, ClientFails, localVars, Begin
    <3> QED BY <1>2, <2>0, <3>1, <3>2
  <2> QED BY <2>1, <2>2, <2>3 DEF Application
<1> QED BY <1>2, <1>3 DEF ApartInv

LEMMA PushKeeps ==
  ASSUME Types, QueuedInv, NEW p \in Pushers,
         PushStep(p) \/ ClientSyncs(p) \/ PushFails(p)
  PROVE  UNCHANGED <<handler, tx, applying>>
<1>1. CASE Advance(p) /\ tx # "aborted"
  <2>1. push[p].batch # <<>>
    BY <1>1 DEF QueuedInv, Pushing, Advance
  <2> QED BY <1>1, <2>1, AdvanceStores DEF Stores, Advance
<1>2. CASE Truncate(p) /\ tx # "aborted"
  BY <1>2, TruncateStores DEF Stores, Truncate
<1>3. CASE ~(Advance(p) /\ tx # "aborted") /\ ~(Truncate(p) /\ tx # "aborted")
  BY <1>3 DEF PushStep, ClientSyncs, AutoPush, ReadCursor, ReadOutbox, PushNeedsMeta,
     PushReadsMeta, PushRow, PushCommits, PushFails, Advance, Truncate, localVars
<1> QED BY <1>1, <1>2, <1>3

LEMMA PushApart ==
  ASSUME Types, ApartInv, QueuedInv, NEW p \in Pushers,
         PushStep(p) \/ ClientSyncs(p) \/ PushFails(p)
  PROVE  ApartInv'
<1>1. (Turn(Push(p)) /\ (Leaves \/ Goes(Push(p)))) \/ Sends(Push(p)) \/ queue' = queue
  BY DEF PushStep, ClientSyncs, AutoPush, ReadCursor, ReadOutbox, PushNeedsMeta, PushReadsMeta,
         PushRow, PushCommits, PushFails, Advance, Truncate
<1>2. TheClient \in ToSet(queue') => TheClient \in ToSet(queue)
  BY <1>1, PartiesAre, QueueMoves DEF NoOtherQueues
<1>3. client' = "begun" <=> client = "begun"
  <2>1. p # "begun"
    BY SyncAssumption
  <2> QED BY <2>1 DEF PushStep, ClientSyncs, AutoPush, ReadCursor, ReadOutbox, PushNeedsMeta,
             PushReadsMeta, PushRow, PushCommits, PushFails, Advance, Truncate, PushReturns
<1>4. UNCHANGED <<handler, tx, applying>>
  BY PushKeeps
<1> QED BY <1>2, <1>3, <1>4 DEF ApartInv, Calling, Applying, Active, InTransaction

\* A handler is in a transaction until it ends it.
LEMMA HandlerInTransaction ==
  ASSUME Types, NEW i \in 1 .. MaxWal, HandlerStep(i), InTransaction(i)
  PROVE  InTransaction(i)' \/ Ends
<1>1. CASE HandlerFlags(i)
  <2>1. Goto(i, "undo") \/ Goto(i, "apply")
    BY <1>1 DEF HandlerFlags, Flagged
  <2> QED BY <2>1, HandlerGoes DEF InTransaction
<1>2. CASE HandlerApplies(i)
  <2>1. Goto(i, "commit") \/ Goto(i, "undo") \/ Goto(i, "undo, create")
    BY <1>2 DEF HandlerApplies
  <2> QED BY <2>1, HandlerGoes DEF InTransaction
<1>3. CASE HandlerCommits(i) \/ HandlerUndoes(i)
  BY <1>3, EndTxEnds DEF HandlerCommits, HandlerUndoes
<1>4. ~ReadMeta(i) /\ ~HandlerBegins(i) /\ ~HandlerFetches(i) /\ ~HandlerCreates(i)
  BY DEF InTransaction, ReadMeta, HandlerBegins, HandlerFetches, HandlerCreates
<1>5. ~Deliver(i)
  <2>1. SUFFICES ASSUME Deliver(i) PROVE FALSE
    OBVIOUS
  <2>0. wal \in Seq(Messages) /\ delivered \in 0 .. Len(wal)
    BY DEF Types, RemoteTypes
  <2>2. i = delivered + 1
    BY <2>1 DEF Deliver
  <2>3. i > delivered
    BY <2>0, <2>2
  <2> QED BY <2>3 DEF Types, RemoteTypes, InTransaction
<1> QED BY <1>1, <1>2, <1>3, <1>4, <1>5 DEF HandlerStep

LEMMA HandlerApart ==
  ASSUME Growing, Types, ApartInv, NEW i \in 1 .. MaxWal, HandlerStep(i)
  PROVE  ApartInv'
<1>1. /\ OneHandler(i) /\ (Deliver(i) \/ Active(i))
      /\ client' = client /\ NoOtherQueues(Handler(i))
  <2>1. client' = client
    BY DEF HandlerStep, Deliver, ReadMeta, HandlerBegins, HandlerFlags, Flagged, HandlerApplies,
       HandlerCommits, HandlerUndoes, HandlerFetches, HandlerCreates
  <2> QED BY <2>1, HandlerPlaces, HandlerQueues
<1>2. ~Calling
  BY <1>1, MayNot DEF Deliver, Calling, ApartInv, Applying
<1>3. ~Calling'
  BY <1>1, <1>2, PartiesAre DEF NoOtherQueues, Calling
<1>4. Ends \/ ((\E j \in 1 .. MaxWal : InTransaction(j)) =>
                 \E j \in 1 .. MaxWal : InTransaction(j)')
  <2> SUFFICES ASSUME ~Ends, NEW j \in 1 .. MaxWal, InTransaction(j)
               PROVE  InTransaction(j)'
    OBVIOUS
  <2>1. CASE j = i
    <3>0. InTransaction(i)
      BY <2>1
    <3>1. InTransaction(i)'
      BY <3>0, HandlerInTransaction
    <3> QED BY <2>1, <3>1 DEF InTransaction
  <2>2. CASE j # i
    BY <1>1, <2>2 DEF OneHandler, InTransaction
  <2> QED BY <2>1, <2>2
<1>5. applying' => \E j \in 1 .. MaxWal : InTransaction(j)'
  BY <1>4, HandlerData DEF HandlerLeaves, ApartInv, Ends, Stores, RowWritten, InTransaction
<1>6. tx' # "none" => \E j \in 1 .. MaxWal : InTransaction(j)'
  BY <1>2, <1>4, HandlerData DEF HandlerLeaves, ApartInv, Ends, Stores, RowWritten, InTransaction,
     Calling
<1> QED BY <1>3, <1>5, <1>6 DEF ApartInv

LEMMA OutsideApart ==
  ASSUME Types, ApartInv,
         (\E k \in Keys : ForeignChanges(k)) \/ Expire \/ InitialSync \/ StartPuller \/ Crash
  PROVE  ApartInv'
<1>1. CASE Crash
  BY <1>1 DEF Crash, ApartInv, Calling, ToSet
<1>2. CASE (\E k \in Keys : ForeignChanges(k)) \/ Expire \/ InitialSync \/ StartPuller
  <2>1. UNCHANGED <<client, queue, handler, tx, applying>>
    BY <1>2 DEF ForeignChanges, Expire, InitialSync, StartPuller, localVars
  <2> QED BY <2>1 DEF ApartInv, Calling, Applying, Active, InTransaction
<1> QED BY <1>1, <1>2

LEMMA ApartStep ==
  ASSUME Growing, Types, ApartInv, QueuedInv, [SyncNext]_vars
  PROVE  ApartInv'
<1>1. CASE UNCHANGED vars
  BY <1>1 DEF vars, localVars, ApartInv, Calling, Applying, Active, InTransaction
<1>2. CASE SyncNext
  BY <1>2, ApplicationApart, PushApart, HandlerApart, OutsideApart DEF SyncNext
<1> QED BY <1>1, <1>2

-----------------------------------------------------------------------------
(***************************************************************************)
(* The outbox.  What is recorded gets greater numbers, and the remote      *)
(* grows: what a push has read or sent stays read or sent.                 *)
(***************************************************************************)
LEMMA OutboxTypes ==
  ASSUME Types
  PROVE  /\ Outboxes \subseteq Entries /\ nextId \in Nat /\ remote \in [Keys -> Nat]
         /\ data \in Data /\ saved \in Data /\ data.outbox \in Seq(Entries)
         /\ saved.outbox \in Seq(Entries) /\ data.lastPush \in Nat /\ saved.lastPush \in Nat
<1>1. data \in Data /\ saved \in Data /\ nextId \in Nat /\ remote \in [Keys -> Nat]
  BY DEF Types, LocalTypes, RemoteTypes
<1>2. /\ data.outbox \in Seq(Entries) /\ saved.outbox \in Seq(Entries)
      /\ data.lastPush \in Nat /\ saved.lastPush \in Nat
  BY <1>1 DEF Data
<1>3. ToSet(data.outbox) \subseteq Entries /\ ToSet(saved.outbox) \subseteq Entries
  BY <1>2 DEF ToSet
<1> QED BY <1>1, <1>2, <1>3 DEF Outboxes

LEMMA OutboxTypesNext ==
  ASSUME Types'
  PROVE  /\ Outboxes' \subseteq Entries /\ nextId' \in Nat /\ remote' \in [Keys -> Nat]
         /\ data' \in Data /\ saved' \in Data /\ data'.outbox \in Seq(Entries)
         /\ saved'.outbox \in Seq(Entries) /\ data'.lastPush \in Nat /\ saved'.lastPush \in Nat
<1>1. data' \in Data /\ saved' \in Data /\ nextId' \in Nat /\ remote' \in [Keys -> Nat]
  BY DEF Types, LocalTypes, RemoteTypes
<1>2. /\ data'.outbox \in Seq(Entries) /\ saved'.outbox \in Seq(Entries)
      /\ data'.lastPush \in Nat /\ saved'.lastPush \in Nat
  BY <1>1 DEF Data
<1>3. ToSet(data'.outbox) \subseteq Entries /\ ToSet(saved'.outbox) \subseteq Entries
  BY <1>2 DEF ToSet
<1> QED BY <1>1, <1>2, <1>3 DEF Outboxes

LEMMA PushFields ==
  ASSUME Types, NEW p \in Pushers
  PROVE  /\ push[p] \in Pushes /\ push[p].from \in Nat /\ push[p].batch \in Seq(Entries)
         /\ push[p].batch # <<>> => LastId(p) \in Nat
<1>1. push[p] \in Pushes
  BY DEF Types, LocalTypes
<1>2. push[p].from \in Nat /\ push[p].batch \in Seq(Entries)
  BY <1>1 DEF Pushes
<1>3. ASSUME push[p].batch # <<>> PROVE LastId(p) \in Nat
  <2>1. push[p].batch[Len(push[p].batch)] \in Entries
    BY <1>2, <1>3
  <2> QED BY <2>1 DEF LastId, Entries
<1> QED BY <1>1, <1>2, <1>3

\* The remote table r and the entries O before n become s and P.
Ages(O, n, r, P, s) ==
  /\ \A e \in P : e \in O \/ e.id >= n
  /\ \A k \in Keys : r[k] <= s[k]

LEMMA SentStays ==
  ASSUME NEW O, O \subseteq Entries, NEW P, P \subseteq Entries, NEW n \in Nat,
         NEW r \in [Keys -> Nat], NEW s \in [Keys -> Nat], Ages(O, n, r, P, s),
         NEW id \in Nat, id < n, Sent(id, O, r)
  PROVE  Sent(id, P, s)
<1> SUFFICES ASSUME NEW e \in P, e.id <= id PROVE e.value <= s[e.key]
  BY DEF Sent
<1>1. e.id \in Nat /\ e.key \in Keys /\ e.value \in Nat
  BY DEF Entries
<1>2. e \in O
  BY <1>1 DEF Ages
<1>3. e.value <= r[e.key] /\ r[e.key] <= s[e.key] /\ r[e.key] \in Nat /\ s[e.key] \in Nat
  BY <1>1, <1>2 DEF Sent, Ages
<1> QED BY <1>1, <1>3

Aging == Ages(Outboxes, nextId, remote, Outboxes', remote') /\ nextId <= nextId'

LEMMA SentAges ==
  ASSUME Types, Types', Aging, NEW id \in Nat, id < nextId, Sent(id, Outboxes, remote)
  PROVE  id < nextId' /\ Sent(id, Outboxes', remote')
<1>1. /\ Outboxes \subseteq Entries /\ Outboxes' \subseteq Entries /\ nextId \in Nat
      /\ remote \in [Keys -> Nat] /\ remote' \in [Keys -> Nat] /\ nextId' \in Nat
  BY OutboxTypes, OutboxTypesNext
<1>2. Ages(Outboxes, nextId, remote, Outboxes', remote') /\ nextId <= nextId'
  BY DEF Aging
<1>3. id < nextId'
  BY <1>1, <1>2
<1> QED BY <1>1, <1>2, <1>3, SentStays

LEMMA PushingAges ==
  ASSUME Types, Types', Aging, NEW p \in Pushers, push'[p] = push[p], Pushing(p)
  PROVE  Pushing(p)'
<1>0. LastId(p)' = LastId(p)
  BY DEF LastId
<1>1. /\ push[p].from \in Nat /\ push[p].batch \in Seq(Entries)
      /\ push[p].batch # <<>> => LastId(p) \in Nat
  BY PushFields
<1>2. push[p].pc = "outbox" => push[p].from < nextId' /\ Sent(push[p].from, Outboxes', remote')
  BY <1>1, SentAges DEF Pushing
<1>3. ASSUME push[p].pc \in {"rows", "meta", "advance", "truncate"}
      PROVE  push[p].batch # <<>> /\ LastId(p) \in Nat /\ LastId(p) < nextId /\ LastId(p) < nextId'
  <2>1. push[p].batch # <<>> /\ LastId(p) \in Nat /\ LastId(p) < nextId
    BY <1>1, <1>3 DEF Pushing
  <2>2. nextId \in Nat /\ nextId' \in Nat /\ nextId <= nextId'
    BY DEF Types, LocalTypes, Aging
  <2> QED BY <2>1, <2>2
<1>4. push[p].pc \in {"advance", "truncate"} => Sent(LastId(p), Outboxes', remote')
  BY <1>3, SentAges DEF Pushing
<1>5. ASSUME push[p].pc \in {"rows", "meta"}, NEW e \in Outboxes', e.id <= LastId(p)
      PROVE  e \in ToSet(push[p].batch) \/ e.value <= remote'[e.key]
  <2>1. e \in Entries /\ nextId \in Nat /\ remote \in [Keys -> Nat] /\ remote' \in [Keys -> Nat]
    BY OutboxTypes, OutboxTypesNext
  <2>2. e.id \in Nat /\ e.key \in Keys /\ e.value \in Nat
    BY <2>1 DEF Entries
  <2>3. e \in Outboxes
    BY <1>3, <1>5, <2>1, <2>2 DEF Aging, Ages
  <2>4. e \in ToSet(push[p].batch) \/ e.value <= remote[e.key]
    BY <1>5, <2>3 DEF Pushing
  <2>5. remote[e.key] <= remote'[e.key] /\ remote[e.key] \in Nat /\ remote'[e.key] \in Nat
    BY <2>1, <2>2 DEF Aging, Ages
  <2> QED BY <2>2, <2>4, <2>5
<1> QED BY <1>0, <1>2, <1>3, <1>4, <1>5 DEF Pushing

\* A statement that records nothing, or the end of a transaction.
Resumes ==
  /\ nextId' = nextId /\ remote' = remote /\ wal' = wal
  /\ \/ Same(data', data) /\ Same(saved', saved)
     \/ saved' = data' /\ (Same(data', data) \/ Same(data', saved))

LEMMA OutboxResumes ==
  ASSUME Types, Types', OutboxInv, Resumes
  PROVE  OutboxInv' /\ Aging
<1>1. nextId \in Nat /\ remote \in [Keys -> Nat]
  BY OutboxTypes
<1>2. Outboxes' \subseteq Outboxes
  BY DEF Resumes, Same, Outboxes
<1>3. \A k \in Keys : remote[k] <= remote[k]
  BY <1>1
<1>4. Aging
  BY <1>1, <1>2, <1>3 DEF Aging, Ages, Resumes
<1>5. Queued(data, remote)' /\ Queued(saved, remote)'
  BY DEF OutboxInv, Resumes, Same, Queued
<1>6. \A d \in {data', saved'} : d.lastPush < nextId /\ Sent(d.lastPush, Outboxes', remote)
  <2>1. \A d \in {data', saved'} : d.lastPush \in {data.lastPush, saved.lastPush}
    BY DEF Resumes, Same
  <2>2. \A l \in {data.lastPush, saved.lastPush} : l < nextId /\ Sent(l, Outboxes, remote)
    BY DEF OutboxInv
  <2>3. \A l : Sent(l, Outboxes, remote) => Sent(l, Outboxes', remote)
    BY <1>2 DEF Sent
  <2> QED BY <2>1, <2>2, <2>3
<1>7. \A e \in ToSet(saved.outbox)' : e \in ToSet(data.outbox)' \/ e.value <= remote[e.key]
  BY DEF OutboxInv, Resumes, Same
<1> QED BY <1>2, <1>4, <1>5, <1>6, <1>7 DEF OutboxInv, Resumes

LEMMA OutboxGetsRow ==
  ASSUME Types, Types', OutboxInv, UNCHANGED <<remote, wal>>,
         NEW k \in Keys, NEW v \in Nat \ {0}, NEW M, RowWritten(k, v, M),
         applying => v <= remote[k]
  PROVE  OutboxInv' /\ Aging
<1>1. /\ Outboxes \subseteq Entries /\ Outboxes' \subseteq Entries /\ nextId \in Nat
      /\ remote \in [Keys -> Nat] /\ data.outbox \in Seq(Entries) /\ saved.outbox \in Seq(Entries)
      /\ data.lastPush \in Nat /\ saved.lastPush \in Nat /\ data \in Data /\ nextId' \in Nat
  BY OutboxTypes, OutboxTypesNext
<1> DEFINE D == ToSet(data.outbox)
           N == ToSet(data'.outbox)
<1>2. /\ nextId' \in {nextId, nextId + 1} /\ D \subseteq N
      /\ \A e \in N : e \in D \/ (e.id = nextId /\ nextId' = nextId + 1)
      /\ applying \/ \E e \in N : e.key = k /\ e.value = v /\ e.id = nextId
  <2>1. CASE applying /\ data'.outbox = data.outbox /\ nextId' = nextId
    BY <2>1
  <2>2. CASE ~applying /\ nextId' = nextId + 1
    <3>1. PICK x \in Entries : /\ x.id = nextId /\ x.key = k /\ x.value = v
                               /\ data'.outbox = Append(data.outbox, x)
      BY <2>2 DEF RowWritten
    <3>2. N = D \cup {x}
      BY <1>1, <3>1, AppendMembers
    <3> QED BY <2>2, <3>1, <3>2
  <2> QED BY <2>1, <2>2 DEF RowWritten
<1>3. /\ saved' \in {saved, data'} /\ data'.lastPush = data.lastPush
      /\ data'.tbl = [data.tbl EXCEPT ![k] = v]
  BY DEF RowWritten
<1>4. /\ \A e \in Outboxes' : e \in Outboxes \/ (e.id = nextId /\ nextId' = nextId + 1)
  BY <1>2, <1>3 DEF Outboxes
<1>5. nextId <= nextId' /\ \A e \in Outboxes' : e.id < nextId'
  <2>1. nextId <= nextId'
    BY <1>1, <1>2
  <2>2. ASSUME NEW e \in Outboxes' PROVE e.id < nextId'
    <3>1. e.id \in Nat
      BY <1>1 DEF Entries
    <3>2. CASE e \in Outboxes
      BY <1>1, <2>1, <3>1, <3>2 DEF OutboxInv
    <3>3. CASE e.id = nextId /\ nextId' = nextId + 1
      BY <1>1, <3>3
    <3> QED BY <1>4, <3>2, <3>3
  <2> QED BY <2>1, <2>2
<1>6. Aging
  <2>1. \A j \in Keys : remote[j] <= remote[j]
    BY <1>1
  <2>2. \A e \in Outboxes' : e \in Outboxes \/ e.id >= nextId
    BY <1>1, <1>4
  <2> QED BY <1>5, <2>1, <2>2 DEF Aging, Ages
<1>7. \A e \in ToSet(saved'.outbox) : e \in N \/ e.value <= remote[e.key]
  BY <1>2, <1>3 DEF OutboxInv
<1>8. Queued(data', remote)
  <2> SUFFICES ASSUME NEW j \in Keys
               PROVE  data'.tbl[j] <= remote[j] \/
                        \E e \in N : e.key = j /\ e.value = data'.tbl[j] /\ e.id > data.lastPush
    BY <1>3 DEF Queued
  <2>1. CASE j = k
    <3>1. data'.tbl[j] = v
      BY <1>1, <1>3, <2>1 DEF Data
    <3>2. nextId > data.lastPush
      BY <1>1 DEF OutboxInv
    <3> QED BY <1>2, <2>1, <3>1, <3>2
  <2>2. CASE j # k
    <3>1. data'.tbl[j] = data.tbl[j]
      BY <1>1, <1>3, <2>2 DEF Data
    <3> QED BY <1>2, <3>1 DEF OutboxInv, Queued
  <2> QED BY <2>1, <2>2
<1>9. Queued(saved', remote)
  BY <1>3, <1>8 DEF OutboxInv
<1>10. \A d \in {data', saved'} : d.lastPush < nextId' /\ Sent(d.lastPush, Outboxes', remote')
  <2>1. \A d \in {data', saved'} : d.lastPush \in {data.lastPush, saved.lastPush}
    BY <1>3
  <2>2. \A l \in {data.lastPush, saved.lastPush} :
          l \in Nat /\ l < nextId /\ Sent(l, Outboxes, remote)
    BY <1>1 DEF OutboxInv
  <2>3. \A l \in {data.lastPush, saved.lastPush} : l < nextId' /\ Sent(l, Outboxes', remote')
    BY <1>6, <2>2, SentAges
  <2> QED BY <2>1, <2>3
<1>11. \A m \in ToSet(wal') : m.value <= remote'[m.key]
  BY DEF OutboxInv
<1> QED BY <1>5, <1>6, <1>7, <1>8, <1>9, <1>10, <1>11 DEF OutboxInv

\* The remote grows.
LEMMA OutboxMeetsRemote ==
  ASSUME Types, Types', OutboxInv, UNCHANGED <<data, saved, nextId>>,
         \A k \in Keys : remote[k] <= remote'[k],
         \A m \in ToSet(wal') : m.value <= remote'[m.key]
  PROVE  OutboxInv' /\ Aging
<1>1. /\ Outboxes \subseteq Entries /\ nextId \in Nat /\ remote \in [Keys -> Nat]
      /\ data \in Data /\ saved \in Data /\ data.lastPush \in Nat /\ saved.lastPush \in Nat
  BY OutboxTypes
<1>2. remote' \in [Keys -> Nat]
  BY OutboxTypesNext
<1>3. Outboxes' = Outboxes
  BY DEF Outboxes
<1>4. Aging
  BY <1>1, <1>3 DEF Aging, Ages
<1>5. ASSUME NEW d \in {data, saved} PROVE Queued(d, remote')
  <2> SUFFICES ASSUME NEW k \in Keys, d.tbl[k] <= remote[k]
               PROVE  d.tbl[k] <= remote'[k]
    BY DEF Queued, OutboxInv
  <2>1. d.tbl[k] \in Nat /\ remote[k] \in Nat /\ remote'[k] \in Nat
    BY <1>1, <1>2 DEF Data
  <2> QED BY <2>1
<1>6. \A e \in ToSet(saved.outbox) : e \in ToSet(data.outbox) \/ e.value <= remote'[e.key]
  <2> SUFFICES ASSUME NEW e \in ToSet(saved.outbox), e.value <= remote[e.key]
               PROVE  e.value <= remote'[e.key]
    BY DEF OutboxInv
  <2>1. e \in Entries
    BY <1>1 DEF Outboxes
  <2>2. e.value \in Nat /\ remote[e.key] \in Nat /\ remote'[e.key] \in Nat
        /\ remote[e.key] <= remote'[e.key]
    BY <1>1, <1>2, <2>1 DEF Entries
  <2> QED BY <2>2
<1>7. ASSUME NEW d \in {data, saved}
      PROVE  d.lastPush < nextId /\ Sent(d.lastPush, Outboxes, remote')
  <2>1. d.lastPush \in Nat /\ d.lastPush < nextId /\ Sent(d.lastPush, Outboxes, remote)
    BY <1>1 DEF OutboxInv
  <2> QED BY <1>3, <1>4, <2>1, SentAges
<1> QED BY <1>3, <1>4, <1>5, <1>6, <1>7 DEF OutboxInv

LEMMA OthersPush ==
  ASSUME Types, Types', Aging, QueuedInv, NEW p \in Pushers, Pushing(p)',
         \A q \in Pushers : q # p => push'[q] = push[q]
  PROVE  \A q \in Pushers : Pushing(q)'
<1> SUFFICES ASSUME NEW q \in Pushers, q # p PROVE Pushing(q)'
  BY DEF Pushing, LastId
<1>1. push'[q] = push[q] /\ Pushing(q)
  BY DEF QueuedInv
<1> QED BY <1>1, PushingAges

LEMMA PushesStay ==
  ASSUME Types, Types', Aging, QueuedInv, push' = push
  PROVE  \A q \in Pushers : Pushing(q)'
<1> SUFFICES ASSUME NEW q \in Pushers PROVE Pushing(q)'
  OBVIOUS
<1>1. push'[q] = push[q] /\ Pushing(q)
  BY DEF QueuedInv
<1> QED BY <1>1, PushingAges

LEMMA ApplicationQueued ==
  ASSUME Growing, Types, Types', ApartInv, QueuedInv, Application
  PROVE  QueuedInv'
<1>1. UNCHANGED <<remote, wal, push>>
  BY DEF Application, ClientChanges, ClientSends, ClientReads, ClientBegins, ClientFails,
         ClientEnds, remoteVars
<1>2. OutboxInv' /\ Aging
  <2>1. ASSUME NEW k \in Keys, ClientChanges(k) PROVE OutboxInv' /\ Aging
    <3>1. PICK v \in Nat \ {0} : RowWritten(k, v, {<<k, v>>})
      BY <2>1, ClientChangesRow
    <3>2. Calling
      BY <2>1, PartiesAre, Served DEF ClientChanges, Calling
    <3>3. ~applying
      BY <3>2 DEF ApartInv, Applying, Active, InTransaction
    <3> QED BY <1>1, <3>1, <3>3, OutboxGetsRow DEF QueuedInv
  <2>2. CASE ClientEnds
    BY <1>1, <2>2, EndTxEnds, OutboxResumes DEF ClientEnds, Ends, Resumes, QueuedInv
  <2>3. CASE ClientSends \/ ClientReads \/ ClientBegins \/ ClientFails
    <3>1. UNCHANGED <<data, saved, nextId>>
      BY <2>3 DEF ClientSends, ClientReads, ClientBegins, ClientFails, Begin, StatementFails,
         localVars
    <3> QED BY <1>1, <3>1, OutboxResumes DEF Resumes, Same, QueuedInv
  <2> QED BY <2>1, <2>2, <2>3 DEF Application
<1> QED BY <1>1, <1>2, PushesStay DEF QueuedInv

LEMMA HandlerQueued ==
  ASSUME Types, Types', QueuedInv, NEW i \in 1 .. MaxWal, HandlerStep(i)
  PROVE  QueuedInv'
<1>1. UNCHANGED <<remote, wal, push>>
  BY DEF HandlerStep, Deliver, ReadMeta, HandlerBegins, HandlerFlags, Flagged, HandlerApplies,
         HandlerCommits, HandlerUndoes, HandlerFetches, HandlerCreates, remoteVars
<1>2. OutboxInv' /\ Aging
  <2>1. CASE UNCHANGED <<data, saved, nextId>>
    BY <1>1, <2>1, OutboxResumes DEF Resumes, Same, QueuedInv
  <2>2. CASE Ends
    BY <1>1, <2>2, OutboxResumes DEF Ends, Resumes, QueuedInv
  <2>3. CASE Stores([data EXCEPT !.exists = TRUE]) /\ nextId' = nextId
    <3>1. Same(data', data) /\ saved' \in {saved, data'}
      BY <2>3 DEF Stores, Same, Types, LocalTypes, Data
    <3> QED BY <1>1, <2>3, <3>1, OutboxResumes DEF Resumes, Same, QueuedInv
  <2>4. CASE /\ i \in 1 .. Len(wal)
             /\ RowWritten(wal[i].key, wal[i].value, {})
    <3>1. wal \in Seq(Messages)
      BY DEF Types, RemoteTypes
    <3>2. wal[i] \in Messages /\ wal[i] \in ToSet(wal)
      BY <2>4, <3>1 DEF ToSet
    <3>3. wal[i].key \in Keys /\ wal[i].value \in Nat \ {0}
          /\ wal[i].value <= remote[wal[i].key]
      BY <3>2 DEF Messages, QueuedInv, OutboxInv
    <3> QED BY <1>1, <2>4, <3>3, OutboxGetsRow DEF QueuedInv
  <2> QED BY <2>1, <2>2, <2>3, <2>4, HandlerData DEF HandlerLeaves
<1> QED BY <1>1, <1>2, PushesStay DEF QueuedInv

\* What a step of a push leaves of itself.
PushNow(p, q) == push' \in [Pushers -> Pushes] /\ push'[p] = q
                 /\ \A o \in Pushers : o # p => push'[o] = push[o]

LEMMA PushIs ==
  ASSUME Types, Types', NEW p \in Pushers, NEW q, push' = [push EXCEPT ![p] = q]
  PROVE  PushNow(p, q)
BY DEF Types, LocalTypes, PushNow

LEMMA ReturnsIdle ==
  ASSUME Types, Types', NEW p \in Pushers, PushReturns(p)
  PROVE  PushNow(p, Idle) /\ Pushing(p)'
<1>1. PushNow(p, Idle)
  BY PushIs DEF PushReturns
<1> QED BY <1>1 DEF PushNow, Idle, Pushing

\* A push reads the outbox beyond the cursor it has read: what is not in its
\* batch, and not later, the remote has.
LEMMA BatchRead ==
  ASSUME Types, Types', QueuedInv, NEW p \in Pushers, ReadOutbox(p), ~PushReturns(p)
  PROVE  Pushing(p)'
<1> DEFINE rows == Beyond(data.outbox, push[p].from)
           own  == "origin" \in may /\ \A q \in Pushers : ~push[q].own
           P    == [push[p] EXCEPT !.pc = "rows", !.batch = rows, !.own = own]
<1>1. /\ push \in [Pushers -> Pushes] /\ push[p] \in Pushes /\ push[p].from \in Nat
      /\ data.outbox \in Seq(Entries) /\ Outboxes \subseteq Entries /\ nextId \in Nat
      /\ remote \in [Keys -> Nat]
  BY OutboxTypes, PushFields DEF Types, LocalTypes
<1>2. rows # <<>> /\ push' = [push EXCEPT ![p] = P]
  BY <1>1 DEF ReadOutbox
<1>3. rows \in Seq(Entries) /\ ToSet(rows) = {e \in ToSet(data.outbox) : e.id > push[p].from}
  BY <1>1, BeyondMembers
<1>4. UNCHANGED <<data, saved, nextId, remote>> /\ Outboxes' = Outboxes
  BY DEF ReadOutbox, localVars, remoteVars, Outboxes
<1> HIDE DEF rows, own
<1>5. push'[p].pc = "rows" /\ push'[p].batch = rows
  BY <1>1, <1>2 DEF Pushes
<1>6. LastId(p)' < nextId
  <2>1. Len(rows) \in Nat /\ Len(rows) # 0
    BY <1>2, <1>3
  <2>2. rows[Len(rows)] \in ToSet(rows)
    BY <2>1 DEF ToSet
  <2>3. rows[Len(rows)] \in Outboxes
    BY <1>3, <2>2 DEF Outboxes
  <2> QED BY <1>5, <2>3 DEF LastId, QueuedInv, OutboxInv
<1>7. ASSUME NEW e \in Outboxes PROVE e \in ToSet(rows) \/ e.value <= remote[e.key]
  <2>1. e.id \in Nat
    BY <1>1 DEF Entries
  <2>2. CASE e.id <= push[p].from
    <3>1. Sent(push[p].from, Outboxes, remote)
      BY DEF ReadOutbox, QueuedInv, Pushing
    <3> QED BY <2>2, <3>1 DEF Sent
  <2>3. CASE e.id > push[p].from /\ e \in ToSet(data.outbox)
    BY <1>3, <2>3
  <2>4. CASE e \in ToSet(saved.outbox) /\ e \notin ToSet(data.outbox)
    BY <2>4 DEF QueuedInv, OutboxInv
  <2> QED BY <1>1, <2>1, <2>2, <2>3, <2>4 DEF Outboxes
<1> QED BY <1>2, <1>4, <1>5, <1>6, <1>7 DEF Pushing

\* A row is in the batch or the remote has it: then the remote has it.
LEMMA BatchSent ==
  ASSUME Types, Types', QueuedInv, NEW p \in Pushers, PushCommits(p)
  PROVE  Pushing(p)'
<1>1. PICK r : /\ Grows(r, ToSet(push[p].batch)) /\ Has(r, ToSet(push[p].batch))
               /\ remote' = r.tbl
  BY RemoteGrows DEF PushCommits, QueuedInv, OutboxInv
<1>2. /\ push \in [Pushers -> Pushes] /\ Outboxes \subseteq Entries /\ remote \in [Keys -> Nat]
      /\ remote' \in [Keys -> Nat]
  BY OutboxTypes, OutboxTypesNext DEF Types, LocalTypes
<1>3. push'[p].pc = "advance" /\ push'[p].batch = push[p].batch /\ push[p].pc = "rows"
  BY <1>2 DEF PushCommits, Pushes
<1>4. UNCHANGED <<nextId>> /\ Outboxes' = Outboxes /\ LastId(p)' = LastId(p)
  BY <1>3 DEF PushCommits, localVars, Outboxes, LastId
<1>5. ASSUME NEW e \in Outboxes, e.id <= LastId(p) PROVE e.value <= remote'[e.key]
  <2>1. e.key \in Keys /\ e.value \in Nat
    BY <1>2 DEF Entries
  <2>2. remote[e.key] <= remote'[e.key] /\ remote[e.key] \in Nat /\ remote'[e.key] \in Nat
    BY <1>1, <1>2, <2>1 DEF Grows
  <2>3. e \in ToSet(push[p].batch) \/ e.value <= remote[e.key]
    BY <1>3, <1>5 DEF QueuedInv, Pushing
  <2> QED BY <1>1, <2>1, <2>2, <2>3 DEF Has
<1> QED BY <1>3, <1>4, <1>5 DEF Pushing, QueuedInv, Sent

\* The cursor is set to what has been sent.
LEMMA OutboxAdvances ==
  ASSUME Types, Types', QueuedInv, NEW p \in Pushers, Advance(p), tx # "aborted"
  PROVE  OutboxInv' /\ Aging /\ Pushing(p)'
<1>0. push[p].pc = "advance" /\ push[p].batch # <<>>
  BY DEF Advance, QueuedInv, Pushing
<1> DEFINE d == [data EXCEPT !.lastPush = LastId(p)]
<1>1. /\ LastId(p) \in Nat /\ Stores(d) /\ d \in Data /\ LastId(p)' = LastId(p)
  BY <1>0, AdvanceStores
<1>2. /\ d.lastPush = LastId(p) /\ d.tbl = data.tbl /\ d.outbox = data.outbox
  BY DEF Types, LocalTypes, Data
<1> HIDE DEF d
<1>3. /\ data'.lastPush = LastId(p) /\ data'.tbl = data.tbl /\ data'.outbox = data.outbox
      /\ saved' \in {saved, data'}
  BY <1>1, <1>2 DEF Stores, Same
<1>4. UNCHANGED <<nextId, remote, wal>>
  BY DEF Advance, remoteVars
<1>5. /\ Outboxes \subseteq Entries /\ nextId \in Nat /\ remote \in [Keys -> Nat]
      /\ data.outbox \in Seq(Entries)
  BY OutboxTypes
<1>6. LastId(p) < nextId /\ Sent(LastId(p), Outboxes, remote)
  BY <1>0 DEF QueuedInv, Pushing
<1>7. Outboxes' \subseteq Outboxes
  BY <1>3 DEF Outboxes
<1>8. Aging
  BY <1>4, <1>5, <1>7 DEF Aging, Ages
<1>9. Queued(data', remote)
  <2> SUFFICES ASSUME NEW k \in Keys, NEW e \in ToSet(data.outbox), e.key = k,
                      e.value = data.tbl[k], ~(e.id > LastId(p))
               PROVE  data.tbl[k] <= remote[k]
    BY <1>3 DEF Queued, QueuedInv, OutboxInv
  <2>1. e.id \in Nat /\ e \in Outboxes
    BY <1>5 DEF Outboxes, Entries
  <2>2. e.id <= LastId(p)
    BY <1>1, <2>1
  <2> QED BY <1>6, <2>1, <2>2 DEF Sent
<1>10. Queued(saved', remote)
  BY <1>3, <1>9 DEF QueuedInv, OutboxInv
<1>11. ASSUME NEW l \in {data'.lastPush, saved'.lastPush}
       PROVE  l < nextId /\ Sent(l, Outboxes', remote)
  <2>1. l < nextId /\ Sent(l, Outboxes, remote)
    BY <1>3, <1>6 DEF QueuedInv, OutboxInv
  <2> QED BY <1>7, <2>1 DEF Sent
<1>12. OutboxInv'
  <2>1. \A e \in Outboxes' : e.id < nextId
    BY <1>7 DEF QueuedInv, OutboxInv
  <2>2. \A e \in ToSet(saved'.outbox) : e \in ToSet(data'.outbox) \/ e.value <= remote[e.key]
    BY <1>3 DEF QueuedInv, OutboxInv
  <2>3. \A m \in ToSet(wal) : m.value <= remote[m.key]
    BY DEF QueuedInv, OutboxInv
  <2> QED BY <1>4, <1>9, <1>10, <1>11, <2>1, <2>2, <2>3 DEF OutboxInv
<1>13. push'[p].pc = "truncate" /\ push'[p].batch = push[p].batch
  BY DEF Advance, Types, LocalTypes, Pushes
<1>14. Pushing(p)'
  BY <1>0, <1>1, <1>3, <1>4, <1>6, <1>11, <1>13 DEF Pushing
<1> QED BY <1>8, <1>12, <1>14

\* What is deleted has been sent.
LEMMA OutboxTruncates ==
  ASSUME Types, Types', QueuedInv, NEW p \in Pushers, Truncate(p), tx # "aborted"
  PROVE  OutboxInv' /\ Aging
<1>0. push[p].pc = "truncate" /\ push[p].batch # <<>>
  BY DEF Truncate, QueuedInv, Pushing
<1> DEFINE d == [data EXCEPT !.outbox = Beyond(@, LastId(p))]
<1>1. LastId(p) \in Nat /\ Stores(d) /\ d \in Data
  BY <1>0, PushFields, TruncateStores
<1>2. /\ d.lastPush = data.lastPush /\ d.tbl = data.tbl /\ d.outbox = Beyond(data.outbox, LastId(p))
  BY DEF Types, LocalTypes, Data
<1> HIDE DEF d
<1>5. /\ Outboxes \subseteq Entries /\ nextId \in Nat /\ remote \in [Keys -> Nat]
      /\ data.outbox \in Seq(Entries)
  BY OutboxTypes
<1>3. /\ data'.lastPush = data.lastPush /\ data'.tbl = data.tbl
      /\ ToSet(data'.outbox) = {e \in ToSet(data.outbox) : e.id > LastId(p)}
      /\ saved' \in {saved, data'}
  BY <1>1, <1>2, <1>5, BeyondMembers DEF Stores, Same
<1>4. UNCHANGED <<nextId, remote, wal>>
  BY DEF Truncate, remoteVars
<1>6. Sent(LastId(p), Outboxes, remote)
  BY <1>0 DEF QueuedInv, Pushing
<1>7. Outboxes' \subseteq Outboxes
  BY <1>3 DEF Outboxes
<1>8. Aging
  BY <1>4, <1>5, <1>7 DEF Aging, Ages
<1>9. ASSUME NEW e \in ToSet(data.outbox)
      PROVE  e \in ToSet(data'.outbox) \/ e.value <= remote[e.key]
  <2>1. e.id \in Nat /\ e \in Outboxes
    BY <1>5 DEF Outboxes, Entries
  <2>2. CASE e.id > LastId(p)
    BY <1>3, <2>2
  <2>3. CASE e.id <= LastId(p)
    BY <1>6, <2>1, <2>3 DEF Sent
  <2> QED BY <1>1, <2>1, <2>2, <2>3
<1>10. Queued(data', remote)
  <2> SUFFICES ASSUME NEW k \in Keys, NEW e \in ToSet(data.outbox), e.key = k,
                      e.value = data.tbl[k], e \notin ToSet(data'.outbox)
               PROVE  data.tbl[k] <= remote[k]
    BY <1>3 DEF Queued, QueuedInv, OutboxInv
  <2> QED BY <1>9
<1>11. Queued(saved', remote)
  BY <1>3, <1>10 DEF QueuedInv, OutboxInv
<1>12. ASSUME NEW l \in {data'.lastPush, saved'.lastPush}
       PROVE  l < nextId /\ Sent(l, Outboxes', remote)
  <2>1. l < nextId /\ Sent(l, Outboxes, remote)
    BY <1>3 DEF QueuedInv, OutboxInv
  <2> QED BY <1>7, <2>1 DEF Sent
<1>13. \A e \in ToSet(saved'.outbox) : e \in ToSet(data'.outbox) \/ e.value <= remote[e.key]
  <2>1. CASE saved' = saved
    BY <1>9, <2>1 DEF QueuedInv, OutboxInv
  <2> QED BY <1>3, <2>1
<1>14. OutboxInv'
  <2>1. \A e \in Outboxes' : e.id < nextId
    BY <1>7 DEF QueuedInv, OutboxInv
  <2>3. \A m \in ToSet(wal) : m.value <= remote[m.key]
    BY DEF QueuedInv, OutboxInv
  <2> QED BY <1>4, <1>10, <1>11, <1>12, <1>13, <2>1, <2>3 DEF OutboxInv
<1> QED BY <1>8, <1>14

LEMMA PushQueued ==
  ASSUME Growing, Types, Types', QueuedInv, NEW p \in Pushers,
         PushStep(p) \/ ClientSyncs(p) \/ PushFails(p)
  PROVE  QueuedInv'
<1>0. push \in [Pushers -> Pushes]
  BY DEF Types, LocalTypes
<1>1. \A q \in Pushers : q # p => push'[q] = push[q]
  BY <1>0 DEF PushStep, ClientSyncs, AutoPush, ReadCursor, ReadOutbox, PushNeedsMeta,
     PushReadsMeta, PushRow, PushCommits, PushFails, Advance, Truncate, PushReturns
<1>2. OutboxInv' /\ Aging
  <2>1. CASE Advance(p) /\ tx # "aborted"
    BY <2>1, OutboxAdvances
  <2>2. CASE Truncate(p) /\ tx # "aborted"
    BY <2>2, OutboxTruncates
  <2>3. CASE RemoteCommits(p) /\ (PushCommits(p) \/ PushFails(p))
    <3>1. PICK r : Grows(r, ToSet(push[p].batch)) /\ remote' = r.tbl /\ wal' = r.wal
      BY <2>3, RemoteGrows DEF QueuedInv, OutboxInv
    <3>2. UNCHANGED <<data, saved, nextId>>
      BY <2>3 DEF PushCommits, PushFails, localVars
    <3> QED BY <3>1, <3>2, OutboxMeetsRemote DEF Grows, QueuedInv
  <2>4. CASE /\ ~(Advance(p) /\ tx # "aborted") /\ ~(Truncate(p) /\ tx # "aborted")
             /\ ~(RemoteCommits(p) /\ (PushCommits(p) \/ PushFails(p)))
    <3>1. UNCHANGED <<data, saved, nextId, remote, wal>>
      BY <2>4 DEF PushStep, ClientSyncs, AutoPush, ReadCursor, ReadOutbox, PushNeedsMeta,
         PushReadsMeta, PushRow, PushCommits, PushFails, Advance, Truncate, localVars, remoteVars
    <3> QED BY <3>1, OutboxResumes DEF Resumes, Same, QueuedInv
  <2> QED BY <2>1, <2>2, <2>3, <2>4
<1>3. Pushing(p)'
  <2>0. Pushing(p)
    BY DEF QueuedInv
  <2>1. CASE PushReturns(p)
    BY <2>1, ReturnsIdle
  <2>2. CASE AutoPush(p) \/ ClientSyncs(p)
    <3>1. push'[p].pc = "cursor"
      BY <1>0, <2>2 DEF AutoPush, ClientSyncs, Pushes
    <3> QED BY <3>1 DEF Pushing
  <2>3. CASE ReadCursor(p) /\ ~PushReturns(p)
    <3>1. push'[p].pc = "outbox" /\ push'[p].from = data.lastPush
      BY <1>0, <2>3 DEF ReadCursor, Pushes
    <3>2. UNCHANGED <<data, saved, nextId, remote>>
      BY <2>3 DEF ReadCursor, localVars, remoteVars
    <3> QED BY <3>1, <3>2 DEF Pushing, QueuedInv, OutboxInv, Outboxes
  <2>4. CASE ReadOutbox(p) /\ ~PushReturns(p)
    BY <2>4, BatchRead
  <2>5. CASE (PushNeedsMeta(p) \/ PushReadsMeta(p) \/ PushRow(p)) /\ ~PushReturns(p)
    <3>1. push[p].pc \in {"rows", "meta"} /\ push'[p].pc \in {"rows", "meta"}
          /\ push'[p].batch = push[p].batch
      BY <1>0, <2>5 DEF PushNeedsMeta, PushReadsMeta, PushRow, Pushes
    <3>2. UNCHANGED <<data, saved, nextId, remote>>
      BY <2>5 DEF PushNeedsMeta, PushReadsMeta, PushRow, localVars, remoteVars
    <3> QED BY <2>0, <3>1, <3>2 DEF Pushing, LastId, Outboxes
  <2>6. CASE PushCommits(p)
    BY <2>6, BatchSent
  <2>7. CASE Advance(p) /\ ~PushReturns(p)
    <3>1. tx # "aborted"
      BY <2>7 DEF Advance
    <3> QED BY <2>7, <3>1, OutboxAdvances
  <2>8. Truncate(p) \/ PushFails(p) => PushReturns(p)
    BY DEF Truncate, PushFails
  <2> QED BY <2>1, <2>2, <2>3, <2>4, <2>5, <2>6, <2>7, <2>8 DEF PushStep
<1> QED BY <1>1, <1>2, <1>3, OthersPush DEF QueuedInv

\* The initial copy takes newer rows of the remote only.
LEMMA OutboxCopies ==
  ASSUME Types, Types', OutboxInv, InitialSync
  PROVE  OutboxInv' /\ Aging
<1>1. UNCHANGED <<nextId, remote, wal>>
  BY DEF InitialSync, remoteVars
<1>2. CASE UNCHANGED <<data, saved>>
  BY <1>1, <1>2, OutboxResumes DEF Resumes, Same
<1>3. CASE ~UNCHANGED <<data, saved>>
  <2> DEFINE t == [k \in Keys |-> IF remote[k] > 0 /\ Newer(data.tbl[k], remote[k])
                                  THEN remote[k] ELSE data.tbl[k]]
  <2>1. data' = [data EXCEPT !.tbl = t, !.exists = TRUE] /\ saved' = data'
    BY <1>3 DEF InitialSync
  <2>2. /\ remote \in [Keys -> Nat] /\ data \in Data /\ nextId \in Nat
    BY OutboxTypes
  <2>3. data'.tbl = t /\ data'.outbox = data.outbox /\ data'.lastPush = data.lastPush
    BY <2>1, <2>2 DEF Data
  <2>4. \A k \in Keys : t[k] \in {remote[k], data.tbl[k]}
    OBVIOUS
  <2>5. Outboxes' \subseteq Outboxes
    BY <2>1, <2>3 DEF Outboxes
  <2>6. Aging
    BY <1>1, <2>2, <2>5 DEF Aging, Ages
  <2> HIDE DEF t
  <2>7. Queued(data', remote)
    <3> SUFFICES ASSUME NEW k \in Keys
                 PROVE  t[k] <= remote[k] \/ \E e \in ToSet(data.outbox) :
                          e.key = k /\ e.value = t[k] /\ e.id > data.lastPush
      BY <2>3 DEF Queued
    <3>1. remote[k] <= remote[k]
      BY <2>2
    <3> QED BY <2>4, <3>1 DEF OutboxInv, Queued
  <2>8. data.lastPush < nextId /\ Sent(data.lastPush, Outboxes', remote)
    BY <2>5 DEF OutboxInv, Sent
  <2>9. \A e \in Outboxes' : e.id < nextId
    BY <2>5 DEF OutboxInv
  <2>10. \A m \in ToSet(wal) : m.value <= remote[m.key]
    BY DEF OutboxInv
  <2>11. \A d \in {data', saved'} : d.lastPush = data.lastPush /\ Queued(d, remote)
    BY <2>1, <2>3, <2>7
  <2> QED BY <1>1, <2>1, <2>6, <2>8, <2>9, <2>10, <2>11 DEF OutboxInv
<1> QED BY <1>2, <1>3

LEMMA OutsideQueued ==
  ASSUME Growing, Types, Types', QueuedInv,
         (\E k \in Keys : ForeignChanges(k)) \/ Expire \/ InitialSync \/ StartPuller \/ Crash
  PROVE  QueuedInv'
<1>1. ASSUME NEW k \in Keys, ForeignChanges(k) PROVE QueuedInv'
  <2>1. PICK v \in Fresh(k, foreign, remote[k]) \cup {0} :
          /\ v = 0 => "foreign delete" \in may
          /\ remote' = [remote EXCEPT ![k] = v]
          /\ wal' = Append(wal, Message(k, remote[k], v, FALSE))
    BY <1>1 DEF ForeignChanges
  <2>2. remote \in [Keys -> Nat] /\ wal \in Seq(Messages)
    BY DEF Types, RemoteTypes
  <2>3. v \in Nat \ {0} /\ remote[k] < v
    BY <2>1, <2>2, MayNot, FreshGrows
  <2> DEFINE m == Message(k, remote[k], v, FALSE)
  <2>4. m \in Messages /\ wal' = Append(wal, m) /\ m.key = k /\ m.value = v
    BY <2>1, <2>3 DEF Message, Messages
  <2> HIDE DEF m
  <2>5. ToSet(wal') = ToSet(wal) \cup {m}
    BY <2>2, <2>4, AppendMembers
  <2>6. \A j \in Keys : remote[j] <= remote'[j]
    <3> TAKE j \in Keys
    <3>1. remote[j] \in Nat /\ remote'[j] = IF j = k THEN v ELSE remote[j]
      BY <2>1, <2>2
    <3>2. v \in Nat
      BY <2>3
    <3> QED BY <2>3, <3>1, <3>2
  <2>7. ASSUME NEW x \in ToSet(wal') PROVE x.value <= remote'[x.key]
    <3>1. CASE x = m
      <4>1. remote'[k] = v /\ v \in Nat
        BY <2>1, <2>2, <2>3
      <4> QED BY <2>4, <3>1, <4>1
    <3>2. CASE x \in ToSet(wal)
      <4>1. x \in Messages
        BY <2>2, <3>2 DEF ToSet
      <4>2. x.key \in Keys /\ x.value \in Nat
        BY <4>1 DEF Messages
      <4>3. x.value <= remote[x.key] /\ remote[x.key] <= remote'[x.key]
        BY <2>6, <3>2, <4>2 DEF QueuedInv, OutboxInv
      <4>4. remote[x.key] \in Nat /\ remote'[x.key] \in Nat
        BY <2>2, <4>2, OutboxTypesNext
      <4> QED BY <4>2, <4>3, <4>4
    <3> QED BY <2>5, <3>1, <3>2
  <2>8. UNCHANGED <<data, saved, nextId, push>>
    BY <1>1 DEF ForeignChanges, localVars
  <2>9. OutboxInv' /\ Aging
    BY <2>6, <2>7, <2>8, OutboxMeetsRemote DEF QueuedInv
  <2> QED BY <2>8, <2>9, PushesStay DEF QueuedInv
<1>2. CASE Expire \/ StartPuller
  <2>1. UNCHANGED <<data, saved, nextId, push, remote, wal>>
    BY <1>2 DEF Expire, StartPuller, localVars, remoteVars
  <2>2. OutboxInv' /\ Aging
    BY <2>1, OutboxResumes DEF Resumes, Same, QueuedInv
  <2> QED BY <2>1, <2>2, PushesStay DEF QueuedInv
<1>3. CASE InitialSync
  <2>1. OutboxInv' /\ Aging
    BY <1>3, OutboxCopies DEF QueuedInv
  <2>2. push' = push
    BY <1>3 DEF InitialSync
  <2> QED BY <2>1, <2>2, PushesStay DEF QueuedInv
<1>4. CASE Crash
  <2>1. data' = saved /\ UNCHANGED <<saved, nextId, remote, wal>>
        /\ push' = [p \in Pushers |-> Idle]
    BY <1>4 DEF Crash, remoteVars
  <2>2. OutboxInv'
    BY <2>1, OutboxResumes DEF Resumes, Same, QueuedInv
  <2>3. \A p \in Pushers : Pushing(p)'
    BY <2>1 DEF Pushing, Idle
  <2> QED BY <2>2, <2>3 DEF QueuedInv
<1> QED BY <1>1, <1>2, <1>3, <1>4

LEMMA QueuedStep ==
  ASSUME Growing, Types, Types', ApartInv, QueuedInv, [SyncNext]_vars
  PROVE  QueuedInv'
<1>1. CASE UNCHANGED vars
  <2>1. UNCHANGED <<data, saved, nextId, push, remote, wal>>
    BY <1>1 DEF vars, localVars, remoteVars
  <2>2. OutboxInv' /\ Aging
    BY <2>1, OutboxResumes DEF Resumes, Same, QueuedInv
  <2> QED BY <2>1, <2>2, PushesStay DEF QueuedInv
<1>2. CASE SyncNext
  BY <1>2, ApplicationQueued, PushQueued, HandlerQueued, OutsideQueued DEF SyncNext
<1> QED BY <1>1, <1>2

LEMMA Starts ==
  ASSUME SyncInit
  PROVE  Types /\ ApartInv /\ QueuedInv
<1>0. /\ queue = <<>> /\ wal = <<>> /\ remote = [k \in Keys |-> 0] /\ nextId = 1
      /\ delivered = 0 /\ foreign = {} /\ push = [p \in Pushers |-> Idle] /\ client = "idle"
      /\ tx = "none" /\ applying = FALSE /\ meta = "absent" /\ may \in Scenarios
      /\ handler = [i \in 1 .. MaxWal |-> Unseen]
  BY DEF SyncInit
<1>1. /\ data \in Data /\ saved = data /\ data.outbox = <<>> /\ data.lastPush = 0
      /\ data.tbl = [k \in Keys |-> 0]
  <2> DEFINE b == "missing table" \notin may
  <2>0. <<>> \in Seq(Entries) /\ [k \in Keys |-> 0] \in [Keys -> Nat]
        /\ {} \in SUBSET (Keys \X Nat)
    OBVIOUS
  <2>1. /\ data = [tbl |-> [k \in Keys |-> 0], outbox |-> <<>>, lastPush |-> 0,
                   exists |-> b, raised |-> FALSE, made |-> {}]
        /\ saved = data /\ b \in BOOLEAN
    BY DEF SyncInit
  <2> HIDE DEF b
  <2> QED BY <2>0, <2>1 DEF Data
<1>2. <<>> \in Seq(Parties) /\ <<>> \in Seq(Messages) /\ Len(<<>>) = 0 /\ ToSet(<<>>) = {}
  BY DEF ToSet
<1>3. LocalTypes
  <2>1. push \in [Pushers -> Pushes]
    BY <1>0, IdlePush
  <2> QED BY <1>0, <1>1, <1>2, <2>1 DEF LocalTypes
<1>4. RemoteTypes
  <2>1. Unseen \in Handlers /\ Unseen.pc = "none"
    BY DEF Unseen, Handlers
  <2>2. wal \in Seq(Messages) /\ delivered \in 0 .. Len(wal)
    BY <1>0, <1>2
  <2>3. handler \in [1 .. MaxWal -> Handlers] /\ \A i \in 1 .. MaxWal : handler[i].pc = "none"
    BY <1>0, <2>1
  <2> QED BY <1>0, <2>2, <2>3 DEF RemoteTypes
<1>5. ApartInv
  BY <1>0, <1>2 DEF ApartInv, Calling
<1>6. OutboxInv
  <2>1. Outboxes = {} /\ ToSet(wal) = {} /\ ToSet(saved.outbox) = {}
    BY <1>0, <1>1, <1>2 DEF Outboxes
  <2>2. \A d \in {data, saved} : d = data
    BY <1>1
  <2>3. data.lastPush < nextId /\ Sent(data.lastPush, Outboxes, remote)
    BY <1>0, <1>1, <2>1 DEF Sent
  <2>4. Queued(data, remote)
    BY <1>0, <1>1 DEF Queued
  <2> QED BY <1>1, <2>1, <2>2, <2>3, <2>4 DEF OutboxInv
<1>7. \A p \in Pushers : Pushing(p)
  BY DEF SyncInit, Pushing, Idle
<1> QED BY <1>3, <1>4, <1>5, <1>6, <1>7 DEF Types, QueuedInv

-----------------------------------------------------------------------------
(***************************************************************************)
(* Where values only grow and the application waits for messages being     *)
(* applied, its statements are never in the transaction of a handler, and  *)
(* what the remote does not have is in the outbox beyond the cursor, in    *)
(* what is committed and in what an open transaction shows: through        *)
(* overlapping pushes, lost answers, rolled-back cursors and crashes       *)
(* (pusher.ts:31-166, puller.ts:57-142, schema.ts:134-158).                *)
(***************************************************************************)
THEOREM SyncQueued == Growing => (Spec => [](Types /\ ApartInv /\ QueuedInv))
<1> SUFFICES ASSUME Growing PROVE Spec => [](Types /\ ApartInv /\ QueuedInv)
  OBVIOUS
<1>1. SyncInit => Types /\ ApartInv /\ QueuedInv
  BY Starts
<1>2. Types /\ ApartInv /\ QueuedInv /\ [SyncNext]_vars => (Types /\ ApartInv /\ QueuedInv)'
  BY TypesStep, ApartStep, QueuedStep
<1> QED BY <1>1, <1>2, PTL DEF Spec

-----------------------------------------------------------------------------
(***************************************************************************)
(* What a step changes: the two databases move by changes that are offered *)
(* or made, the remote by what is sent to it, and not both at a time.      *)
(***************************************************************************)
\* n is d with changes of M, made now, or of those offered.
Derived(n, d, M) ==
  /\ n.made = d.made \cup M
  /\ \A k \in Keys : n.tbl[k] = d.tbl[k] \/
       (d.tbl[k] < n.tbl[k] /\ Change(k, n.tbl[k]) \in Offered \cup M)
  /\ \A e \in ToSet(n.outbox) : e \in ToSet(d.outbox) \/ Change(e.key, e.value) \in Offered \cup M

LocalMoves(M) ==
  /\ M \subseteq Keys \X Nat
  /\ \/ Derived(data', data, M)
     \/ M = {} /\ Derived(data', saved, {})
  /\ saved' = data' \/ (saved' = saved /\ tx' # "none") \/ UNCHANGED <<data, saved, tx>>
  /\ saved' = data' \/ ((Writing \/ M # {}) => Writing')
  /\ \A c \in M : data'.tbl[c[1]] # 0

RemoteMoves ==
  \/ UNCHANGED <<remote, wal, foreign>>
  \/ /\ UNCHANGED <<data, saved, tx>>
     /\ foreign \subseteq foreign' /\ ("foreign write" \notin may => foreign' = foreign)
     /\ \A k \in Keys : remote'[k] = remote[k] \/
          (remote[k] < remote'[k] /\ Change(k, remote'[k]) \in Sending \cup (foreign' \ foreign))
     /\ \A m \in ToSet(wal') : m \in ToSet(wal) \/
          Change(m.key, m.value) \in Sending \cup (foreign' \ foreign)

BatchesMove ==
  \A p \in Pushers : \/ ToSet(push'[p].batch) \subseteq Batches
                     \/ ToSet(push'[p].batch) \subseteq ToSet(data.outbox) /\ push[p].pc # "idle"

Moves(M) == LocalMoves(M) /\ RemoteMoves /\ BatchesMove

LEMMA SameDerived ==
  ASSUME NEW n, NEW d, Same(n, d)
  PROVE  Derived(n, d, {})
BY DEF Same, Derived

LEMMA EndingMoves ==
  ASSUME saved' = data', Same(data', data) \/ Same(data', saved)
  PROVE  LocalMoves({})
BY SameDerived DEF LocalMoves

LEMMA HoldingMoves ==
  ASSUME Types, AheadInv, UNCHANGED <<data, saved>>,
         tx' = tx \/ tx' # "none", Writing => Writing'
  PROVE  LocalMoves({})
BY SameDerived DEF LocalMoves, Same

\* A statement that changes no row and records nothing.
LEMMA StoringMoves ==
  ASSUME Types, NEW d, Stores(d), d.tbl = data.tbl, d.made = data.made,
         ToSet(d.outbox) \subseteq ToSet(data.outbox), Writing => Writing'
  PROVE  LocalMoves({})
<1>1. Derived(data', data, {})
  BY DEF Stores, Same, Derived
<1>2. saved' = data' \/ (saved' = saved /\ tx' # "none")
  BY DEF Stores
<1> QED BY <1>1, <1>2 DEF LocalMoves

\* A row is written.
LEMMA WritingMoves ==
  ASSUME Types, NEW k \in Keys, NEW v \in Nat \ {0}, data.tbl[k] < v, NEW M,
         M \subseteq {Change(k, v)}, RowWritten(k, v, M), Change(k, v) \in Offered \cup M,
         Writing => Writing', M # {} => tx = "none" \/ Writing
  PROVE  LocalMoves(M)
<1>1. data \in Data /\ data.outbox \in Seq(Entries)
  BY OutboxTypes
<1>2. data'.tbl[k] = v /\ \A j \in Keys : j # k => data'.tbl[j] = data.tbl[j]
  BY <1>1 DEF RowWritten, Data
<1>3. \A e \in ToSet(data'.outbox) :
        e \in ToSet(data.outbox) \/ Change(e.key, e.value) = Change(k, v)
  <2>1. CASE data'.outbox = data.outbox
    BY <2>1
  <2>2. ASSUME NEW x \in Entries, x.key = k, x.value = v, data'.outbox = Append(data.outbox, x)
        PROVE  \A e \in ToSet(data'.outbox) :
                 e \in ToSet(data.outbox) \/ Change(e.key, e.value) = Change(k, v)
    BY <1>1, <2>2, AppendMembers
  <2> QED BY <2>1, <2>2 DEF RowWritten
<1>4. Derived(data', data, M)
  <2>1. data'.made = data.made \cup M
    BY DEF RowWritten
  <2>2. ASSUME NEW j \in Keys
        PROVE  data'.tbl[j] = data.tbl[j] \/
                 (data.tbl[j] < data'.tbl[j] /\ Change(j, data'.tbl[j]) \in Offered \cup M)
    BY <1>2
  <2> QED BY <1>3, <2>1, <2>2 DEF Derived
<1>5. saved' = data' \/ (saved' = saved /\ tx' # "none")
  BY DEF RowWritten
<1>6. M \subseteq Keys \X Nat
  BY DEF Change
<1>7. (M # {} => saved' = data' \/ Writing) /\ \A c \in M : data'.tbl[c[1]] # 0
  BY <1>2 DEF RowWritten, Change
<1> QED BY <1>4, <1>5, <1>6, <1>7 DEF LocalMoves

LEMMA ApplicationMoves ==
  ASSUME Growing, Types, Types', ApartInv, AheadInv, Application
  PROVE  \E M : Moves(M)
<1>1. UNCHANGED <<remote, wal, foreign, push>>
  BY DEF Application, ClientChanges, ClientSends, ClientReads, ClientBegins, ClientFails,
         ClientEnds, remoteVars
<1>2. RemoteMoves /\ BatchesMove
  BY <1>1 DEF RemoteMoves, BatchesMove, Batches
<1>3. ASSUME NEW k \in Keys, ClientChanges(k) PROVE \E M : LocalMoves(M)
  <2>0. Writing => Writing'
    BY <1>3 DEF ClientChanges, Writing
  <2>1. PICK v \in Nat \ {0} : data.tbl[k] < v /\ RowWritten(k, v, {<<k, v>>})
    BY <1>3, ClientChangesRow
  <2>2. Calling
    BY <1>3, PartiesAre, Served DEF ClientChanges, Calling
  <2>3. tx = "none" \/ Writing
    BY <1>3, <2>2 DEF ClientChanges, ApartInv, Applying, Active, InTransaction, Writing
  <2>4. {<<k, v>>} = {Change(k, v)}
    BY DEF Change
  <2> QED BY <2>0, <2>1, <2>3, <2>4, WritingMoves
<1>4. ASSUME ClientEnds PROVE LocalMoves({})
  BY <1>4, EndTxEnds, EndingMoves DEF ClientEnds, Ends
<1>5. ASSUME ClientSends \/ ClientReads \/ ClientBegins \/ ClientFails PROVE LocalMoves({})
  <2>1. UNCHANGED <<data, saved>> /\ (tx' = tx \/ tx' # "none") /\ (Writing => Writing')
    BY <1>5 DEF ClientSends, ClientReads, ClientBegins, ClientFails, Begin, StatementFails,
       localVars, Writing
  <2> QED BY <2>1, HoldingMoves
<1>6. \E M : LocalMoves(M)
  BY <1>3, <1>4, <1>5 DEF Application
<1>7. PICK M : LocalMoves(M)
  BY <1>6
<1> QED BY <1>2, <1>7 DEF Moves

LEMMA HandlerMoves ==
  ASSUME Types, Types', AheadInv, NEW i \in 1 .. MaxWal, HandlerStep(i)
  PROVE  Moves({})
<1>1. UNCHANGED <<remote, wal, foreign, push>>
  BY DEF HandlerStep, Deliver, ReadMeta, HandlerBegins, HandlerFlags, Flagged, HandlerApplies,
         HandlerCommits, HandlerUndoes, HandlerFetches, HandlerCreates, remoteVars
<1>0. Writing => Writing'
  BY DEF HandlerStep, Deliver, ReadMeta, HandlerBegins, HandlerFlags, Flagged, HandlerApplies,
         HandlerCommits, HandlerUndoes, HandlerFetches, HandlerCreates, Writing
<1>2. RemoteMoves /\ BatchesMove
  BY <1>1 DEF RemoteMoves, BatchesMove, Batches
<1>3. ASSUME UNCHANGED <<data, saved>>, tx' = tx \/ tx' # "none" PROVE LocalMoves({})
  BY <1>0, <1>3, HoldingMoves
<1>4. ASSUME Ends PROVE LocalMoves({})
  BY <1>4, EndingMoves DEF Ends
<1>5. ASSUME Stores([data EXCEPT !.exists = TRUE]) PROVE LocalMoves({})
  <2> DEFINE d == [data EXCEPT !.exists = TRUE]
  <2>1. d.tbl = data.tbl /\ d.made = data.made /\ d.outbox = data.outbox
    BY DEF Types, LocalTypes, Data
  <2> HIDE DEF d
  <2> QED BY <1>0, <1>5, <2>1, StoringMoves DEF d
<1>6. ASSUME i \in 1 .. Len(wal), data.tbl[wal[i].key] < wal[i].value,
             RowWritten(wal[i].key, wal[i].value, {})
      PROVE  LocalMoves({})
  <2>1. wal \in Seq(Messages)
    BY DEF Types, RemoteTypes
  <2>2. wal[i] \in Messages /\ wal[i] \in ToSet(wal)
    BY <1>6, <2>1 DEF ToSet
  <2>3. /\ wal[i].key \in Keys /\ wal[i].value \in Nat \ {0}
        /\ Change(wal[i].key, wal[i].value) \in Offered
    BY <2>2 DEF Messages, Offered
  <2> QED BY <1>0, <1>6, <2>3, WritingMoves
<1> QED BY <1>2, <1>3, <1>4, <1>5, <1>6, HandlerData DEF HandlerLeaves, Moves

LEMMA PushesMove ==
  ASSUME Growing, Types, Types', AheadInv, QueuedInv, NEW p \in Pushers,
         PushStep(p) \/ ClientSyncs(p) \/ PushFails(p)
  PROVE  Moves({})
<1>0. push \in [Pushers -> Pushes] /\ data \in Data /\ data.outbox \in Seq(Entries)
  BY OutboxTypes DEF Types, LocalTypes
<1>4. Writing => Writing'
  <2>1. p # "begun"
    BY SyncAssumption
  <2> QED BY <2>1 DEF PushStep, ClientSyncs, AutoPush, ReadCursor, ReadOutbox, PushNeedsMeta,
             PushReadsMeta, PushRow, PushCommits, PushFails, Advance, Truncate, PushReturns,
             Writing
<1>1. BatchesMove
  <2>1. \A q \in Pushers : q # p => push'[q] = push[q]
    BY <1>0 DEF PushStep, ClientSyncs, AutoPush, ReadCursor, ReadOutbox, PushNeedsMeta,
       PushReadsMeta, PushRow, PushCommits, PushFails, Advance, Truncate, PushReturns
  <2>2. \/ ToSet(push'[p].batch) \subseteq Batches
        \/ ToSet(push'[p].batch) \subseteq ToSet(data.outbox) /\ push[p].pc # "idle"
    <3>1. CASE PushReturns(p)
      BY <1>0, <3>1 DEF PushReturns, Idle, ToSet
    <3>2. CASE ReadOutbox(p) /\ ~PushReturns(p)
      <4> DEFINE rows == Beyond(data.outbox, push[p].from)
                 own  == "origin" \in may /\ \A q \in Pushers : ~push[q].own
                 P    == [push[p] EXCEPT !.pc = "rows", !.batch = rows, !.own = own]
      <4>1. push' = [push EXCEPT ![p] = P]
        BY <1>0, <3>2 DEF ReadOutbox
      <4> HIDE DEF rows, own
      <4>2. push'[p].batch = rows
        BY <1>0, <4>1 DEF Pushes
      <4>3. ToSet(rows) \subseteq ToSet(data.outbox)
        BY <1>0, BeyondMembers DEF rows
      <4> QED BY <3>2, <4>2, <4>3 DEF ReadOutbox
    <3>3. CASE ~ReadOutbox(p) /\ ~PushReturns(p)
      <4>1. push'[p].batch = push[p].batch
        BY <1>0, <3>3 DEF PushStep, ClientSyncs, AutoPush, ReadCursor, PushNeedsMeta,
           PushReadsMeta, PushRow, PushCommits, PushFails, Advance, Truncate, Pushes
      <4> QED BY <4>1 DEF Batches
    <3> QED BY <3>1, <3>2, <3>3
  <2> QED BY <2>1, <2>2 DEF BatchesMove, Batches
<1>2. LocalMoves({})
  <2>1. CASE Advance(p) /\ tx # "aborted"
    <3> DEFINE d == [data EXCEPT !.lastPush = LastId(p)]
    <3>1. push[p].batch # <<>>
      BY <2>1 DEF QueuedInv, Pushing, Advance
    <3>2. Stores(d)
      BY <2>1, <3>1, AdvanceStores
    <3>3. d.tbl = data.tbl /\ d.made = data.made /\ d.outbox = data.outbox
      BY <1>0 DEF Data
    <3> HIDE DEF d
    <3> QED BY <1>4, <3>2, <3>3, StoringMoves
  <2>2. CASE Truncate(p) /\ tx # "aborted"
    <3> DEFINE o == Beyond(data.outbox, LastId(p))
               d == [data EXCEPT !.outbox = Beyond(@, LastId(p))]
    <3>1. Stores(d)
      BY <2>2, TruncateStores
    <3>2. ToSet(o) \subseteq ToSet(data.outbox)
      BY <1>0, BeyondMembers
    <3>3. d.tbl = data.tbl /\ d.made = data.made /\ d.outbox = o
      BY <1>0 DEF Data
    <3> HIDE DEF d, o
    <3> QED BY <1>4, <3>1, <3>2, <3>3, StoringMoves
  <2>3. CASE ~(Advance(p) /\ tx # "aborted") /\ ~(Truncate(p) /\ tx # "aborted")
    <3>1. UNCHANGED <<data, saved, tx>>
      BY <2>3 DEF PushStep, ClientSyncs, AutoPush, ReadCursor, ReadOutbox, PushNeedsMeta,
         PushReadsMeta, PushRow, PushCommits, PushFails, Advance, Truncate, localVars
    <3> QED BY <1>4, <3>1, HoldingMoves
  <2> QED BY <2>1, <2>2, <2>3
<1>3. RemoteMoves
  <2>1. CASE RemoteCommits(p) /\ (PushCommits(p) \/ PushFails(p))
    <3> DEFINE B == ToSet(push[p].batch)
    <3>1. PICK r : Grows(r, B) /\ remote' = r.tbl /\ wal' = r.wal
      BY <2>1, RemoteGrows DEF QueuedInv, OutboxInv
    <3>2. UNCHANGED <<data, saved, tx, foreign>>
      BY <2>1 DEF PushCommits, PushFails, localVars
    <3>3. \A e \in B : Change(e.key, e.value) \in Sending
      BY DEF Sending, Batches
    <3> HIDE DEF B
    <3>4. ASSUME NEW k \in Keys
          PROVE  remote'[k] = remote[k] \/
                   (remote[k] < remote'[k] /\ Change(k, remote'[k]) \in Sending)
      <4>1. remote[k] <= remote'[k] /\ remote[k] \in Nat /\ remote'[k] \in Nat
        BY <3>1, OutboxTypes, OutboxTypesNext DEF Grows
      <4>2. remote'[k] # remote[k] => \E e \in B : e.key = k /\ e.value = remote'[k]
        BY <3>1 DEF Grows
      <4> QED BY <3>3, <4>1, <4>2
    <3>5. \A m \in ToSet(wal') : m \in ToSet(wal) \/ Change(m.key, m.value) \in Sending
      BY <3>1, <3>3 DEF Grows
    <3> QED BY <3>2, <3>4, <3>5 DEF RemoteMoves
  <2>2. CASE ~(RemoteCommits(p) /\ (PushCommits(p) \/ PushFails(p)))
    <3>1. UNCHANGED <<remote, wal, foreign>>
      BY <2>2 DEF PushStep, ClientSyncs, AutoPush, ReadCursor, ReadOutbox, PushNeedsMeta,
         PushReadsMeta, PushRow, PushCommits, PushFails, Advance, Truncate, remoteVars
    <3> QED BY <3>1 DEF RemoteMoves
  <2> QED BY <2>1, <2>2
<1> QED BY <1>1, <1>2, <1>3 DEF Moves

LEMMA OutsideMoves ==
  ASSUME Growing, Types, Types', AheadInv,
         (\E k \in Keys : ForeignChanges(k)) \/ Expire \/ InitialSync \/ StartPuller \/ Crash
  PROVE  Moves({})
<1>1. ASSUME NEW k \in Keys, ForeignChanges(k) PROVE Moves({})
  <2>1. PICK v \in Fresh(k, foreign, remote[k]) \cup {0} :
          /\ v = 0 => "foreign delete" \in may
          /\ v # 0 => "foreign write" \in may
          /\ remote' = [remote EXCEPT ![k] = v]
          /\ wal' = Append(wal, Message(k, remote[k], v, FALSE))
          /\ foreign' = foreign \cup {Change(k, v)}
    BY <1>1 DEF ForeignChanges
  <2>2. remote \in [Keys -> Nat] /\ wal \in Seq(Messages)
    BY DEF Types, RemoteTypes
  <2>3. v \in Nat \ {0} /\ remote[k] < v
    BY <2>1, <2>2, MayNot, FreshGrows
  <2> DEFINE m == Message(k, remote[k], v, FALSE)
  <2>4. m \in Messages /\ wal' = Append(wal, m) /\ m.key = k /\ m.value = v
    BY <2>1, <2>3 DEF Message, Messages
  <2> HIDE DEF m
  <2>5. ToSet(wal') = ToSet(wal) \cup {m}
    BY <2>2, <2>4, AppendMembers
  <2>6. UNCHANGED <<data, saved, tx, push>> /\ (Writing => Writing')
    BY <1>1 DEF ForeignChanges, localVars, Writing
  <2>7. Change(k, v) \notin foreign
    <3>1. v \in Fresh(k, foreign, remote[k])
      BY <2>1, <2>3
    <3>2. \A c \in foreign : c[2] # v
      BY <3>1 DEF Fresh
    <3> QED BY <3>2 DEF Change
  <2>8. Change(k, v) \in foreign' \ foreign
    BY <2>1, <2>7
  <2>9. ASSUME NEW j \in Keys
        PROVE  remote'[j] = remote[j] \/
                 (remote[j] < remote'[j] /\ Change(j, remote'[j]) \in foreign' \ foreign)
    BY <2>1, <2>2, <2>3, <2>8
  <2>10. \A x \in ToSet(wal') : x \in ToSet(wal) \/ Change(x.key, x.value) \in foreign' \ foreign
    BY <2>4, <2>5, <2>8
  <2>11. foreign \subseteq foreign' /\ "foreign write" \in may
    BY <2>1, <2>3
  <2>12. RemoteMoves
    BY <2>6, <2>9, <2>10, <2>11 DEF RemoteMoves
  <2> QED BY <2>6, <2>12, HoldingMoves DEF Moves, BatchesMove, Batches
<1>2. CASE Expire \/ StartPuller
  <2>1. UNCHANGED <<data, saved, tx, push, remote, wal, foreign>> /\ (Writing => Writing')
    BY <1>2 DEF Expire, StartPuller, localVars, remoteVars, Writing
  <2> QED BY <2>1, HoldingMoves DEF Moves, BatchesMove, Batches, RemoteMoves
<1>3. CASE InitialSync
  <2>1. UNCHANGED <<tx, push, remote, wal, foreign>> /\ (Writing => Writing')
    BY <1>3 DEF InitialSync, remoteVars, Writing
  <2>2. CASE UNCHANGED <<data, saved>>
    BY <2>1, <2>2, HoldingMoves DEF Moves, BatchesMove, Batches, RemoteMoves
  <2>3. CASE ~UNCHANGED <<data, saved>>
    <3> DEFINE t == [k \in Keys |-> IF remote[k] > 0 /\ Newer(data.tbl[k], remote[k])
                                    THEN remote[k] ELSE data.tbl[k]]
    <3>1. data' = [data EXCEPT !.tbl = t, !.exists = TRUE] /\ saved' = data'
      BY <1>3, <2>3 DEF InitialSync
    <3>2. remote \in [Keys -> Nat] /\ data \in Data
      BY OutboxTypes
    <3>3. data'.tbl = t /\ data'.outbox = data.outbox /\ data'.made = data.made
      BY <3>1, <3>2 DEF Data
    <3>4. ASSUME NEW k \in Keys
          PROVE  t[k] = data.tbl[k] \/ (data.tbl[k] < t[k] /\ Change(k, t[k]) \in Offered)
      <4>1. CASE remote[k] > 0 /\ Newer(data.tbl[k], remote[k])
        <5>1. t[k] = remote[k] /\ data.tbl[k] < remote[k] /\ remote[k] # 0
          BY <3>2, <4>1 DEF Newer
        <5> QED BY <5>1 DEF Offered
      <4> QED BY <4>1
    <3> HIDE DEF t
    <3>5. Derived(data', data, {})
      BY <3>3, <3>4 DEF Derived
    <3>6. LocalMoves({})
      BY <3>1, <3>5 DEF LocalMoves
    <3> QED BY <2>1, <3>6 DEF Moves, BatchesMove, Batches, RemoteMoves
  <2> QED BY <2>2, <2>3
<1>4. CASE Crash
  <2>1. data' = saved /\ saved' = saved /\ UNCHANGED <<remote, wal, foreign>>
        /\ push' = [p \in Pushers |-> Idle]
    BY <1>4 DEF Crash, remoteVars
  <2>2. LocalMoves({})
    BY <2>1, EndingMoves DEF Same
  <2>3. BatchesMove
    BY <2>1 DEF BatchesMove, Idle, ToSet
  <2> QED BY <2>1, <2>2, <2>3 DEF Moves, RemoteMoves
<1> QED BY <1>1, <1>2, <1>3, <1>4

LEMMA StepMoves ==
  ASSUME Growing, Types, Types', ApartInv, QueuedInv, AheadInv, [SyncNext]_vars
  PROVE  \E M : Moves(M)
<1>1. CASE UNCHANGED vars
  <2>1. UNCHANGED <<data, saved, tx, push, remote, wal, foreign>> /\ (Writing => Writing')
    BY <1>1 DEF vars, localVars, remoteVars, Writing
  <2> QED BY <2>1, HoldingMoves DEF Moves, BatchesMove, Batches, RemoteMoves
<1>2. CASE SyncNext
  BY <1>2, ApplicationMoves, PushesMove, HandlerMoves, OutsideMoves DEF SyncNext
<1> QED BY <1>1, <1>2

-----------------------------------------------------------------------------
(***************************************************************************)
(* What is committed only grows, and has been made by somebody.            *)
(***************************************************************************)
LEMMA DerivedGrows ==
  ASSUME NEW n \in Data, NEW d \in Data, NEW M, Derived(n, d, M)
  PROVE  d.made \subseteq n.made /\ \A k \in Keys : d.tbl[k] <= n.tbl[k]
<1>1. \A k \in Keys : d.tbl[k] \in Nat /\ n.tbl[k] \in Nat
  BY DEF Data
<1>2. \A k \in Keys : n.tbl[k] = d.tbl[k] \/ d.tbl[k] < n.tbl[k]
  BY DEF Derived
<1>3. \A k \in Keys : d.tbl[k] <= n.tbl[k]
  BY <1>1, <1>2
<1> QED BY <1>3 DEF Derived

LEMMA AheadStep ==
  ASSUME Types, Types', AheadInv, NEW M, Moves(M)
  PROVE  /\ AheadInv' /\ saved.made \subseteq saved'.made
         /\ \A k \in Keys : saved.tbl[k] <= saved'.tbl[k]
<1>1. data \in Data /\ saved \in Data /\ data' \in Data /\ saved' \in Data
  BY OutboxTypes, OutboxTypesNext
<1>2. \A k \in Keys : /\ data.tbl[k] \in Nat /\ saved.tbl[k] \in Nat
                      /\ data'.tbl[k] \in Nat /\ saved'.tbl[k] \in Nat
  BY <1>1 DEF Data
<1>3. saved.made \subseteq data'.made /\ \A k \in Keys : saved.tbl[k] <= data'.tbl[k]
  <2>1. CASE Derived(data', data, M)
    <3>1. data.made \subseteq data'.made /\ \A k \in Keys : data.tbl[k] <= data'.tbl[k]
      BY <1>1, <2>1, DerivedGrows
    <3>2. saved.made \subseteq data.made /\ \A k \in Keys : saved.tbl[k] <= data.tbl[k]
      BY DEF AheadInv
    <3> QED BY <1>2, <3>1, <3>2
  <2>2. CASE Derived(data', saved, {})
    BY <1>1, <2>2, DerivedGrows
  <2> QED BY <2>1, <2>2 DEF Moves, LocalMoves
<1>4. \A k \in Keys : saved.tbl[k] <= saved.tbl[k] /\ data'.tbl[k] <= data'.tbl[k]
  BY <1>2
<1>5. saved' = data' \/ (saved' = saved /\ tx' # "none") \/ UNCHANGED <<data, saved, tx>>
  BY DEF Moves, LocalMoves
<1>6. tx' = "none" => data' = saved'
  BY <1>5 DEF AheadInv
<1> QED BY <1>3, <1>4, <1>5, <1>6 DEF AheadInv

LEMMA OffersMove ==
  ASSUME NEW M, Moves(M)
  PROVE  Offered' \subseteq Offered \cup Sending \cup (foreign' \ foreign)
         /\ foreign \subseteq foreign'
<1>1. CASE UNCHANGED <<remote, wal, foreign>>
  BY <1>1 DEF Offered
<1>2. CASE ~UNCHANGED <<remote, wal, foreign>>
  <2> DEFINE S == Sending \cup (foreign' \ foreign)
  <2>1. /\ \A k \in Keys : remote'[k] = remote[k] \/ Change(k, remote'[k]) \in S
        /\ \A m \in ToSet(wal') : m \in ToSet(wal) \/ Change(m.key, m.value) \in S
        /\ foreign \subseteq foreign'
    BY <1>2 DEF Moves, RemoteMoves
  <2> HIDE DEF S
  <2>2. ASSUME NEW m \in ToSet(wal') PROVE Change(m.key, m.value) \in Offered \cup S
    BY <2>1 DEF Offered
  <2>3. ASSUME NEW k \in Keys, remote'[k] # 0 PROVE Change(k, remote'[k]) \in Offered \cup S
    BY <2>1, <2>3 DEF Offered
  <2>4. Offered' \subseteq Offered \cup S
    BY <2>2, <2>3 DEF Offered, Change
  <2> QED BY <2>1, <2>4 DEF S
<1> QED BY <1>1, <1>2

\* Those who can write in a transaction are not pushed for meanwhile.
Overlaps(s) == "transaction" \in s /\ "autopush" \in s

LEMMA PushesSeeCommitted ==
  ASSUME ~Overlaps(may), "autopush" \notin may => AloneInv, NEW p \in Pushers,
         push[p].pc # "idle"
  PROVE  ~Writing
<1>1. p # "begun"
  BY SyncAssumption
<1> QED BY <1>1 DEF Overlaps, AloneInv, Writing

LEMMA SendingMoves ==
  ASSUME ~Overlaps(may), "autopush" \notin may => AloneInv, NEW M, Moves(M)
  PROVE  Sending' \subseteq Sending \/ (~Writing /\ Sending' \subseteq Sending \cup Records(data))
<1>1. \A p \in Pushers : \/ ToSet(push'[p].batch) \subseteq Batches
                         \/ ToSet(push'[p].batch) \subseteq ToSet(data.outbox) /\ ~Writing
  BY PushesSeeCommitted DEF Moves, BatchesMove
<1>2. Batches' \subseteq Batches \/ (~Writing /\ Batches' \subseteq Batches \cup ToSet(data.outbox))
  BY <1>1 DEF Batches
<1> QED BY <1>2 DEF Sending, Records

\* What a database has of its own, it keeps, and it takes what is offered.
LEMMA DerivedHas ==
  ASSUME NEW n, NEW d, NEW M, Derived(n, d, M), NEW F,
         Records(d) \cup Holds(d) \cup Offered \subseteq d.made \cup F
  PROVE  Records(n) \cup Holds(n) \subseteq n.made \cup F
<1> DEFINE H == n.made \cup F
<1>1. Records(d) \subseteq H /\ Holds(d) \subseteq H /\ Offered \cup M \subseteq H
  BY DEF Derived
<1> HIDE DEF H
<1>2. ASSUME NEW k \in Keys, n.tbl[k] # 0 PROVE Change(k, n.tbl[k]) \in H
  <2>1. CASE n.tbl[k] = d.tbl[k]
    BY <1>1, <1>2, <2>1 DEF Holds
  <2>2. CASE Change(k, n.tbl[k]) \in Offered \cup M
    BY <1>1, <2>2
  <2> QED BY <2>1, <2>2 DEF Derived
<1>3. ASSUME NEW e \in ToSet(n.outbox) PROVE Change(e.key, e.value) \in H
  <2>1. CASE e \in ToSet(d.outbox)
    BY <1>1, <2>1 DEF Records
  <2>2. CASE Change(e.key, e.value) \in Offered \cup M
    BY <1>1, <2>2
  <2> QED BY <2>1, <2>2 DEF Derived
<1>4. Holds(n) \subseteq H
  BY <1>2 DEF Holds
<1>5. Records(n) \subseteq H
  BY <1>3 DEF Records
<1> QED BY <1>4, <1>5 DEF H

LEMMA MadeStep ==
  ASSUME Types, Types', AheadInv, MadeInv, ~Overlaps(may), "autopush" \notin may => AloneInv,
         NEW M, Moves(M)
  PROVE  MadeInv'
<1>1. saved.made \subseteq saved'.made
  BY AheadStep
<1>2. /\ Offered' \subseteq Offered \cup Sending \cup (foreign' \ foreign)
      /\ foreign \subseteq foreign'
  BY OffersMove
<1>3. data'.made = saved'.made \/ Writing'
  <2>1. CASE saved' = saved /\ M = {} /\ ~Writing
    <3>1. data.made = saved.made
      BY <2>1 DEF MadeInv
    <3>2. Derived(data', data, {}) \/ Derived(data', saved, {})
      BY <2>1 DEF Moves, LocalMoves
    <3>3. data'.made = data.made \/ data'.made = saved.made
      BY <3>2 DEF Derived
    <3> QED BY <2>1, <3>1, <3>3
  <2>2. CASE ~(saved' = saved /\ M = {} /\ ~Writing)
    BY <2>2 DEF Moves, LocalMoves
  <2> QED BY <2>1, <2>2
<1>4. Sending' \subseteq saved.made \cup foreign
  <2>1. CASE ~Writing
    <3>1. data.made = saved.made
      BY <2>1 DEF MadeInv
    <3>2. Sending \cup Records(data) \subseteq saved.made \cup foreign
      BY <3>1 DEF MadeInv
    <3> QED BY <3>2, SendingMoves
  <2>2. CASE Writing
    BY <2>2, SendingMoves DEF MadeInv
  <2> QED BY <2>1, <2>2
<1>5. Offered' \subseteq saved.made \cup foreign'
  BY <1>2 DEF MadeInv
<1>6. Records(data') \cup Holds(data') \subseteq data'.made \cup foreign
  <2>1. CASE Derived(data', data, M)
    <3>1. Records(data) \cup Holds(data) \cup Offered \subseteq data.made \cup foreign
      BY DEF MadeInv, AheadInv
    <3> QED BY <2>1, <3>1, DerivedHas
  <2>2. CASE Derived(data', saved, {})
    <3>1. Records(saved) \cup Holds(saved) \cup Offered \subseteq saved.made \cup foreign
      BY DEF MadeInv
    <3> QED BY <2>2, <3>1, DerivedHas
  <2> QED BY <2>1, <2>2 DEF Moves, LocalMoves
<1>7. Records(saved') \cup Holds(saved') \subseteq saved'.made \cup foreign
  <2>1. CASE saved' = data'
    BY <1>6, <2>1
  <2>2. CASE saved' = saved
    BY <2>2 DEF MadeInv
  <2> QED BY <2>1, <2>2 DEF Moves, LocalMoves
<1>8. /\ Records(data)' = Records(data') /\ Holds(data)' = Holds(data')
      /\ Records(saved)' = Records(saved') /\ Holds(saved)' = Holds(saved')
  BY DEF Records, Holds
<1> QED BY <1>1, <1>2, <1>3, <1>4, <1>5, <1>6, <1>7, <1>8 DEF MadeInv

LEMMA KeysTravel ==
  ASSUME Types
  PROVE  \A c \in Sending \cup Offered \cup Records(data) \cup Records(saved) : c[1] \in Keys
<1>1. ASSUME NEW p \in Pushers PROVE ToSet(push[p].batch) \subseteq Entries
  <2>1. push[p].batch \in Seq(Entries)
    BY PushFields
  <2> QED BY <2>1 DEF ToSet
<1>2. Batches \subseteq Entries
  BY <1>1 DEF Batches
<1>3. ToSet(data.outbox) \subseteq Entries /\ ToSet(saved.outbox) \subseteq Entries
  BY OutboxTypes DEF Outboxes
<1>4. ToSet(wal) \subseteq Messages
  <2>1. wal \in Seq(Messages)
    BY DEF Types, RemoteTypes
  <2> QED BY <2>1 DEF ToSet
<1>5. \A k, v : Change(k, v)[1] = k
  BY DEF Change
<1>6. \A e \in Entries : e.key \in Keys
  BY DEF Entries
<1>7. \A m \in ToSet(wal) : m.key \in Keys
  BY <1>4 DEF Messages
<1>8. \A c \in Sending : c[1] \in Keys
  BY <1>2, <1>5, <1>6 DEF Sending
<1>9. \A c \in Records(data) \cup Records(saved) : c[1] \in Keys
  BY <1>3, <1>5, <1>6 DEF Records
<1>10. \A c \in Offered : c[1] \in Keys
  BY <1>5, <1>7 DEF Offered
<1> QED BY <1>8, <1>9, <1>10

LEMMA Exceeds == \A m, n \in Nat : m > n => ~(m <= n)
OBVIOUS

LEMMA Positive == \A m, n \in Nat : m <= n /\ m # 0 => n # 0
OBVIOUS

LEMMA OwnStep ==
  ASSUME Types, Types', AheadInv, OwnInv, ~Overlaps(may), "autopush" \notin may => AloneInv,
         "foreign write" \notin may, NEW M, Moves(M)
  PROVE  OwnInv'
<1>1. \A k \in Keys : saved.tbl[k] <= saved'.tbl[k] /\ saved.tbl[k] \in Nat /\ saved'.tbl[k] \in Nat
  BY AheadStep, OutboxTypes, OutboxTypesNext DEF Data
<1>2. \A k \in Keys : saved.tbl[k] # 0 => saved'.tbl[k] # 0
  BY <1>1, Positive
<1>3. ASSUME NEW c \in Sending \cup Offered \cup Records(saved) PROVE saved'.tbl[c[1]] # 0
  <2>1. c[1] \in Keys
    BY KeysTravel
  <2>2. saved.tbl[c[1]] # 0
    BY DEF OwnInv
  <2> QED BY <1>2, <2>1, <2>2
<1>4. ASSUME NEW c \in Sending' PROVE saved'.tbl[c[1]] # 0
  <2>1. CASE c \in Sending
    BY <1>3, <2>1
  <2>2. CASE ~Writing /\ c \in Records(data)
    <3>1. c[1] \in Keys /\ saved.tbl[c[1]] # 0
      BY <2>2, KeysTravel DEF OwnInv
    <3> QED BY <1>2, <3>1
  <2> QED BY <2>1, <2>2, SendingMoves
<1>5. Offered' \subseteq Offered \cup Sending
  <2>1. foreign' = foreign
    BY DEF Moves, RemoteMoves
  <2> QED BY <2>1, OffersMove
<1>6. ASSUME NEW c \in Records(data')
      PROVE  saved'.tbl[c[1]] # 0 \/ (Writing' /\ data'.tbl[c[1]] # 0)
  <2>1. CASE c \in Offered \cup Records(saved)
    BY <1>3, <2>1
  <2>2. CASE c \in M
    BY <2>2 DEF Moves, LocalMoves
  <2>3. CASE c \in Records(data) /\ Derived(data', data, M)
    <3>1. c[1] \in Keys
      BY <2>3, KeysTravel
    <3>2. CASE saved.tbl[c[1]] # 0
      BY <1>2, <3>1, <3>2
    <3>3. CASE Writing /\ data.tbl[c[1]] # 0
      <4>1. /\ data.tbl[c[1]] <= data'.tbl[c[1]]
            /\ data.tbl[c[1]] \in Nat /\ data'.tbl[c[1]] \in Nat
        BY <2>3, <3>1, DerivedGrows, OutboxTypes, OutboxTypesNext DEF Data
      <4>2. data'.tbl[c[1]] # 0
        BY <3>3, <4>1, Positive
      <4>3. saved' = data' \/ Writing'
        BY <3>3 DEF Moves, LocalMoves
      <4> QED BY <4>2, <4>3
    <3> QED BY <2>3, <3>2, <3>3 DEF OwnInv
  <2>4. \/ c \in Offered \cup Records(saved) \cup M
        \/ c \in Records(data) /\ Derived(data', data, M)
    <3>1. PICK e \in ToSet(data'.outbox) : c = Change(e.key, e.value)
      BY DEF Records
    <3>2. CASE Derived(data', data, M)
      BY <3>1, <3>2 DEF Derived, Records
    <3>3. CASE M = {} /\ Derived(data', saved, {})
      BY <3>1, <3>3 DEF Derived, Records
    <3> QED BY <3>2, <3>3 DEF Moves, LocalMoves
  <2> QED BY <2>1, <2>2, <2>3, <2>4
<1>7. ASSUME NEW c \in Records(saved') PROVE saved'.tbl[c[1]] # 0
  <2>1. CASE saved' = data'
    BY <1>6, <1>7, <2>1
  <2>2. CASE saved' = saved
    BY <1>3, <1>7, <2>2
  <2> QED BY <2>1, <2>2 DEF Moves, LocalMoves
<1>8. Records(data)' = Records(data') /\ Records(saved)' = Records(saved')
  BY DEF Records
<1> QED BY <1>3, <1>4, <1>5, <1>6, <1>7, <1>8 DEF OwnInv

\* No step but those of the push it awaits is taken for the application.
LEMMA AloneStep ==
  ASSUME Types, Types', AloneInv, "autopush" \notin may, [SyncNext]_vars
  PROVE  AloneInv'
<1>0. push \in [Pushers -> Pushes] /\ "idle" \notin Pushers /\ "begun" \notin Pushers
  BY SyncAssumption DEF Types, LocalTypes
<1>1. CASE UNCHANGED vars
  BY <1>1 DEF vars, localVars, AloneInv
<1>2. CASE Application
  <2>1. push' = push /\ signals' = signals
    BY <1>2 DEF Application, ClientChanges, ClientSends, ClientReads, ClientBegins, ClientFails,
       ClientEnds, SetRow, Executes, Begin, StatementFails, Commit, Rollback, EndTx, localVars
  <2>2. client' = client \/ client \in {"idle", "begun"}
    BY <1>2 DEF Application, ClientChanges, ClientSends, ClientReads, ClientBegins, ClientFails,
       ClientEnds
  <2> QED BY <1>0, <2>1, <2>2 DEF AloneInv
<1>3. ASSUME NEW p \in Pushers, PushStep(p) \/ ClientSyncs(p) \/ PushFails(p) PROVE AloneInv'
  <2>1. \A q \in Pushers : q # p => push'[q] = push[q] /\ push[q].pc = "idle"
    <3>1. \A q \in Pushers : q # p => push'[q] = push[q]
      BY <1>0, <1>3 DEF PushStep, ClientSyncs, AutoPush, ReadCursor, ReadOutbox, PushNeedsMeta,
         PushReadsMeta, PushRow, PushCommits, PushFails, Advance, Truncate, PushReturns
    <3>2. client = p \/ client = "idle"
      BY <1>3 DEF PushStep, ClientSyncs, AutoPush, ReadCursor, ReadOutbox, PushNeedsMeta,
         PushReadsMeta, PushRow, PushCommits, PushFails, Advance, Truncate, AloneInv
    <3> QED BY <1>0, <3>1, <3>2 DEF AloneInv
  <2>2. signals' = signals
    BY <1>3 DEF PushStep, ClientSyncs, AutoPush, ReadCursor, ReadOutbox, PushNeedsMeta,
       PushReadsMeta, PushRow, PushCommits, PushFails, Advance, Truncate, Executes, localVars,
       AloneInv
  <2>3. PushReturns(p) \/ client' = p
    BY <1>3 DEF PushStep, ClientSyncs, AutoPush, ReadCursor, ReadOutbox, PushNeedsMeta,
       PushReadsMeta, PushRow, PushCommits, PushFails, Advance, Truncate, AloneInv
  <2>4. PushReturns(p) => push'[p].pc = "idle"
    BY <1>0 DEF PushReturns, Idle
  <2> QED BY <2>1, <2>2, <2>3, <2>4 DEF AloneInv
<1>4. ASSUME NEW i \in 1 .. MaxWal, HandlerStep(i) PROVE AloneInv'
  <2>1. push' = push /\ client' = client
    BY <1>4 DEF HandlerStep, Deliver, ReadMeta, HandlerBegins, HandlerFlags, Flagged,
       HandlerApplies, HandlerCommits, HandlerUndoes, HandlerFetches, HandlerCreates
  <2>2. signals' = signals
    BY <1>4 DEF HandlerStep, Deliver, ReadMeta, HandlerBegins, HandlerFlags, Flagged,
       HandlerApplies, HandlerCommits, HandlerUndoes, HandlerFetches, HandlerCreates, SetRow,
       Executes, Begin, StatementFails, Commit, Rollback, EndTx, localVars
  <2> QED BY <2>1, <2>2 DEF AloneInv
<1>5. CASE (\E k \in Keys : ForeignChanges(k)) \/ Expire \/ InitialSync \/ StartPuller
  <2>1. UNCHANGED <<push, client, signals>>
    BY <1>5 DEF ForeignChanges, Expire, InitialSync, StartPuller, localVars
  <2> QED BY <2>1 DEF AloneInv
<1>6. CASE Crash
  BY <1>6 DEF Crash, Idle, AloneInv
<1> QED BY <1>1, <1>2, <1>3, <1>4, <1>5, <1>6 DEF SyncNext

LEMMA StartsMade ==
  ASSUME SyncInit
  PROVE  AheadInv /\ MadeInv /\ OwnInv /\ AloneInv
<1>1. /\ data.tbl = [k \in Keys |-> 0] /\ data.outbox = <<>> /\ data.made = {} /\ saved = data
      /\ remote = [k \in Keys |-> 0] /\ wal = <<>> /\ push = [p \in Pushers |-> Idle]
  BY DEF SyncInit
<1>2. ToSet(<<>>) = {}
  BY DEF ToSet
<1>3. Batches = {}
  BY <1>1, <1>2 DEF Batches, Idle
<1>4. /\ Sending = {} /\ Offered = {} /\ Holds(data) = {} /\ Holds(saved) = {}
      /\ Records(data) = {} /\ Records(saved) = {}
  BY <1>1, <1>2, <1>3 DEF Sending, Offered, Holds, Records
<1>5. AloneInv
  <2>1. signals = 0
    BY DEF SyncInit
  <2>2. \A p \in Pushers : push[p].pc = "idle"
    BY <1>1 DEF Idle
  <2> QED BY <2>1, <2>2 DEF AloneInv
<1> QED BY <1>1, <1>4, <1>5 DEF AheadInv, MadeInv, OwnInv

\* All of it.
CopyInv ==
  /\ Types /\ ApartInv /\ QueuedInv /\ AheadInv
  /\ "autopush" \notin may => AloneInv
  /\ ~Overlaps(may) => MadeInv
  /\ ~Overlaps(may) /\ "foreign write" \notin may => OwnInv

LEMMA ScenarioStays ==
  ASSUME [SyncNext]_vars
  PROVE  may' = may
BY DEF vars, SyncNext, Application, ClientChanges, ClientSends, ClientReads, ClientBegins,
   ClientFails, ClientEnds, PushStep, ClientSyncs, AutoPush, ReadCursor, ReadOutbox,
   PushNeedsMeta, PushReadsMeta, PushRow, PushCommits, PushFails, Advance, Truncate,
   HandlerStep, Deliver, ReadMeta, HandlerBegins, HandlerFlags, Flagged, HandlerApplies,
   HandlerCommits, HandlerUndoes, HandlerFetches, HandlerCreates, ForeignChanges, Expire,
   InitialSync, StartPuller, Crash

LEMMA CopyStep ==
  ASSUME Growing, CopyInv, [SyncNext]_vars
  PROVE  CopyInv' /\ Types' /\ \E M : Moves(M)
<1>1. Types' /\ ApartInv' /\ QueuedInv'
  BY TypesStep, ApartStep, QueuedStep DEF CopyInv
<1>2. PICK M : Moves(M)
  BY <1>1, StepMoves DEF CopyInv
<1>3. may' = may
  BY ScenarioStays
<1>4. AheadInv'
  BY <1>1, <1>2, AheadStep DEF CopyInv
<1>5. ~Overlaps(may) => MadeInv'
  BY <1>1, <1>2, MadeStep DEF CopyInv
<1>6. ~Overlaps(may) /\ "foreign write" \notin may => OwnInv'
  BY <1>1, <1>2, OwnStep DEF CopyInv
<1>7. "autopush" \notin may => AloneInv'
  BY <1>1, AloneStep DEF CopyInv
<1> QED BY <1>1, <1>2, <1>3, <1>4, <1>5, <1>6, <1>7 DEF CopyInv

LEMMA CopyAlways == Growing => (Spec => []CopyInv)
<1> SUFFICES ASSUME Growing PROVE Spec => []CopyInv
  OBVIOUS
<1>1. SyncInit => CopyInv
  BY Starts, StartsMade DEF CopyInv
<1>2. CopyInv /\ [SyncNext]_vars => CopyInv'
  BY CopyStep
<1> QED BY <1>1, <1>2, PTL DEF Spec

Unshared(s) == "foreign write" \notin s

(***************************************************************************)
(* A committed local change the remote does not have is in the outbox,     *)
(* beyond the cursor.  An automatic push sends what an open transaction    *)
(* shows: an edge that shares its rows with nobody must not have both.     *)
(***************************************************************************)
THEOREM SyncNoChangeLost ==
  Growing /\ (\A s \in Scenarios : Unshared(s) => ~Overlaps(s)) => (Spec => []NoChangeLost)
<1> SUFFICES ASSUME Growing, \A s \in Scenarios : Unshared(s) => ~Overlaps(s)
             PROVE  Spec => []NoChangeLost
  OBVIOUS
<1>1. CopyInv => NoChangeLost
  <2> SUFFICES ASSUME CopyInv, NEW k \in Keys,
                      \/ saved.tbl[k] > remote[k]
                      \/ saved.tbl[k] = 0 /\ remote[k] # 0 /\ "foreign write" \notin may
               PROVE  \E e \in ToSet(saved.outbox) :
                        e.key = k /\ e.value = saved.tbl[k] /\ e.id > saved.lastPush
    <3>1. CopyInv => Committed = saved
      BY DEF CopyInv, AheadInv, Committed
    <3> QED BY <3>1 DEF NoChangeLost
  <2>1. saved.tbl[k] \in Nat /\ remote[k] \in Nat /\ may \in Scenarios
    BY OutboxTypes DEF CopyInv, Data, Types, LocalTypes
  <2>2. CASE saved.tbl[k] > remote[k]
    <3>1. ~(saved.tbl[k] <= remote[k])
      BY <2>1, <2>2, Exceeds
    <3> QED BY <3>1 DEF CopyInv, QueuedInv, OutboxInv, Queued
  <2>3. CASE saved.tbl[k] = 0 /\ remote[k] # 0 /\ "foreign write" \notin may
    <3>1. OwnInv
      BY <2>1, <2>3 DEF CopyInv, Unshared
    <3>2. Change(k, remote[k]) \in Offered /\ Change(k, remote[k])[1] = k
      BY <2>3 DEF Offered, Change
    <3>3. saved.tbl[k] # 0
      BY <3>1, <3>2 DEF OwnInv
    <3> QED BY <2>3, <3>3
  <2> QED BY <2>2, <2>3
<1> QED BY <1>1, CopyAlways, PTL

(***************************************************************************)
(* Synchronization implements Replicas: neither copy goes back to an older *)
(* value, takes one that nobody made, or shows what was rolled back.       *)
(***************************************************************************)
THEOREM SyncKeepsReplicas ==
  Growing /\ (\A s \in Scenarios : ~Overlaps(s)) => (Spec => KeepsReplicas)
<1> SUFFICES ASSUME Growing, \A s \in Scenarios : ~Overlaps(s)
             PROVE  Spec => KeepsReplicas
  OBVIOUS
<1>1. SyncInit => Copies!Init
  <2> SUFFICES ASSUME SyncInit PROVE Copies!Init
    OBVIOUS
  <2>1. /\ data.tbl = [k \in Keys |-> 0] /\ data.made = {} /\ tx = "none"
        /\ remote = [k \in Keys |-> 0] /\ foreign = {}
    BY DEF SyncInit
  <2> QED BY <2>1 DEF Copies!Init, Committed
<1>2. CopyInv => Committed = saved
  BY DEF CopyInv, AheadInv, Committed
<1>3. CopyInv /\ CopyInv' /\ [SyncNext]_vars => [Copies!Next]_(Copies!vars)
  <2> SUFFICES ASSUME CopyInv, CopyInv', [SyncNext]_vars PROVE [Copies!Next]_(Copies!vars)
    OBVIOUS
  <2>1. PICK M : Moves(M)
    BY CopyStep
  <2> DEFINE made  == saved.made \cup foreign
             table == saved'.tbl
             V     == saved'.made \cup foreign'
  <2>2. Committed = saved /\ Committed' = saved'
    <3>1. tx' = "none" => data' = saved'
      BY DEF CopyInv, AheadInv
    <3> QED BY <1>2, <3>1 DEF Committed
  <2>3. MadeInv' /\ MadeInv
    BY DEF CopyInv, Types, LocalTypes
  <2>4. /\ saved.made \subseteq saved'.made /\ foreign \subseteq foreign'
        /\ \A k \in Keys : saved.tbl[k] <= saved'.tbl[k]
    BY <2>1, AheadStep, OffersMove DEF CopyInv
  <2>5. made \subseteq V
    BY <2>4
  <2>6. /\ saved.tbl \in [Keys -> Nat] /\ saved'.tbl \in [Keys -> Nat]
        /\ remote \in [Keys -> Nat] /\ remote' \in [Keys -> Nat]
    BY OutboxTypes, OutboxTypesNext DEF CopyInv, Data
  <2>7. ASSUME NEW t \in [Keys -> Nat], NEW s \in [Keys -> Nat],
               \A k \in Keys : t[k] # 0 => Change(k, t[k]) \in V,
               \A k \in Keys : s[k] <= t[k]
        PROVE  t \in Copies!Takes(s, V)
    <3>1. ASSUME NEW k \in Keys PROVE t[k] \in {0} \cup {c[2] : c \in V}
      <4>1. ASSUME t[k] # 0 PROVE \E c \in V : t[k] = c[2]
        <5>1. <<k, t[k]>> \in V /\ <<k, t[k]>>[2] = t[k]
          BY <2>7, <4>1 DEF Change
        <5> HIDE DEF V
        <5> QED BY <5>1
      <4> HIDE DEF V
      <4> QED BY <4>1
    <3>2. t \in [Keys -> {0} \cup {c[2] : c \in V}]
      BY <2>7, <3>1
    <3>3. ASSUME NEW k \in Keys, t[k] # s[k]
          PROVE  <<k, t[k]>> \in V /\ (t[k] > s[k] \/ t[k] = 0)
      <4>1. t[k] \in Nat /\ s[k] \in Nat /\ s[k] <= t[k] /\ t[k] # 0
        BY <2>7, <3>3
      <4> QED BY <2>7, <3>3, <4>1 DEF Change
    <3> QED BY <3>2, <3>3 DEF Copies!Takes
  <2>8. saved'.tbl \in Copies!Takes(saved.tbl, V)
    <3>1. \A k \in Keys : saved'.tbl[k] # 0 => Change(k, saved'.tbl[k]) \in V
      BY <2>3 DEF MadeInv, Holds
    <3> QED BY <2>4, <2>6, <2>7, <3>1
  <2>9. remote' \in Copies!Takes(remote, V)
    <3>1. \A k \in Keys : remote'[k] # 0 => Change(k, remote'[k]) \in V
      BY <2>3 DEF MadeInv, Offered
    <3>2. \A k \in Keys : remote[k] <= remote'[k]
      <4>1. \A k \in Keys : remote[k] = remote'[k] \/ remote[k] < remote'[k]
        BY <2>1 DEF Moves, RemoteMoves
      <4> QED BY <2>6, <4>1
    <3> QED BY <2>6, <2>7, <3>1, <3>2
  <2>10. remote' = remote \/ saved' = saved
    BY <2>1 DEF Moves, RemoteMoves
  <2> HIDE DEF made, V
  <2>11. /\ Committed.tbl = saved.tbl /\ Committed'.tbl = saved'.tbl
         /\ Committed.made \cup foreign = made /\ Committed'.made \cup foreign' = V
    BY <2>2 DEF made, V
  <2>12. Copies!Next
    BY <2>5, <2>8, <2>9, <2>10, <2>11 DEF Copies!Next
  <2> QED BY <2>12
<1> QED BY <1>1, <1>3, CopyAlways, PTL DEF Spec, Copies!Spec, KeepsReplicas

-----------------------------------------------------------------------------
(***************************************************************************)
(* What the outbox records, where one message is handled at a time.        *)
(***************************************************************************)
\* The one handler under way has set the flag when it changes a row.
SoleInv ==
  /\ \A i, j \in 1 .. MaxWal : Active(i) /\ Active(j) => i = j
  /\ \A i \in 1 .. MaxWal : handler[i].pc = "flag" => tx # "none"
  /\ \A i \in 1 .. MaxWal : handler[i].pc = "apply" => applying

LEMMA HandlerFlag ==
  ASSUME Types, SoleInv, NEW i \in 1 .. MaxWal, HandlerStep(i)
  PROVE  /\ handler'[i].pc = "flag" => tx' # "none"
         /\ handler'[i].pc = "apply" => applying'
<1>0. tx \in {"none", "open", "aborted"} /\ meta \in {"absent", "fallback", "known"}
      /\ applying \in BOOLEAN /\ MetaRead \in {"absent", "fallback", "known"}
  BY DEF Types, LocalTypes, RemoteTypes, MetaRead
<1>1. ASSUME NEW m \in {"absent", "fallback", "known"}, CheckEcho(i, m)
      PROVE  handler'[i].pc \in {"done", "begin"}
  BY <1>1, HandlerGoes, HandlerRestarts DEF CheckEcho
<1>2. CASE Deliver(i)
  BY <1>0, <1>1, <1>2, HandlerGoes DEF Deliver
<1>3. CASE ReadMeta(i)
  BY <1>0, <1>1, <1>3, HandlerGoes DEF ReadMeta
<1>4. CASE HandlerBegins(i)
  BY <1>0, <1>4, HandlerGoes DEF HandlerBegins, Begin
<1>5. CASE HandlerFlags(i)
  <2>1. CASE tx = "aborted" \/ handler[i].m = "absent"
    BY <1>5, <2>1, HandlerGoes DEF HandlerFlags, Flagged
  <2>2. CASE ~(tx = "aborted" \/ handler[i].m = "absent")
    <3>1. tx = "open"
      BY <1>0, <1>5, <2>2 DEF HandlerFlags, Flagged, SoleInv
    <3> QED BY <1>5, <2>2, <3>1, HandlerGoes DEF HandlerFlags, Flagged
  <2> QED BY <2>1, <2>2
<1>6. CASE HandlerApplies(i)
  BY <1>6, HandlerGoes DEF HandlerApplies
<1>7. CASE HandlerCommits(i)
  BY <1>7, HandlerGoes DEF HandlerCommits
<1>8. CASE HandlerUndoes(i)
  <2>1. Goto(i, "failed") \/ Goto(i, "fetch")
    BY <1>8 DEF HandlerUndoes
  <2> QED BY <2>1, HandlerGoes
<1>9. CASE HandlerFetches(i)
  BY <1>9, HandlerGoes DEF HandlerFetches
<1>10. CASE HandlerCreates(i)
  <2>1. meta' \in {"absent", "fallback", "known"}
    BY HandlerPlaces
  <2>2. \/ handler' = [handler EXCEPT ![i] = [pc |-> "begin", m |-> meta', retry |-> TRUE]]
        \/ Goto(i, "failed")
    BY <1>10 DEF HandlerCreates
  <2> QED BY <2>1, <2>2, HandlerGoes, HandlerRestarts
<1> QED BY <1>2, <1>3, <1>4, <1>5, <1>6, <1>7, <1>8, <1>9, <1>10 DEF HandlerStep

LEMMA SoleStep ==
  ASSUME Growing, Types, ApartInv, QueuedInv, SoleInv, "concurrent messages" \notin may,
         [SyncNext]_vars
  PROVE  SoleInv'
<1>1. ASSUME UNCHANGED <<handler, tx, applying>> PROVE SoleInv'
  BY <1>1 DEF SoleInv, Active
<1>2. CASE UNCHANGED vars
  BY <1>1, <1>2 DEF vars, localVars
<1>3. CASE Application
  BY <1>3, ApplicationAlone DEF SoleInv, Applying, Active
<1>4. ASSUME NEW p \in Pushers, PushStep(p) \/ ClientSyncs(p) \/ PushFails(p) PROVE SoleInv'
  BY <1>1, <1>4, PushKeeps
<1>5. ASSUME NEW i \in 1 .. MaxWal, HandlerStep(i) PROVE SoleInv'
  <2>1. OneHandler(i) /\ (Deliver(i) \/ Active(i))
    BY <1>5, HandlerPlaces
  <2>2. \A j \in 1 .. MaxWal : j # i => ~Active(j)
    BY <2>1 DEF SoleInv, Deliver, Applying
  <2>3. \A j \in 1 .. MaxWal : j # i => handler'[j].pc \in {"none", "done", "failed"}
    BY <2>1, <2>2 DEF OneHandler, Active
  <2> QED BY <1>5, <2>3, HandlerFlag DEF SoleInv, Active
<1>6. CASE Crash
  <2>1. \A j \in 1 .. MaxWal : handler'[j].pc \in {"none", "done", "failed"}
    <3> TAKE j \in 1 .. MaxWal
    <3>1. handler[j] \in Handlers
      BY DEF Types, RemoteTypes
    <3>2. handler'[j] = IF j > delivered' THEN Unseen
                        ELSE IF Active(j) THEN [handler[j] EXCEPT !.pc = "failed"]
                        ELSE handler[j]
      BY <1>6 DEF Crash
    <3>3. [handler[j] EXCEPT !.pc = "failed"].pc = "failed" /\ Unseen.pc = "none"
      BY <3>1 DEF Unseen, Handlers
    <3> QED BY <3>2, <3>3 DEF Active
  <2> QED BY <2>1 DEF SoleInv, Active
<1>7. CASE (\E k \in Keys : ForeignChanges(k)) \/ Expire \/ InitialSync \/ StartPuller
  BY <1>1, <1>7 DEF ForeignChanges, Expire, InitialSync, StartPuller, localVars
<1> QED BY <1>2, <1>3, <1>4, <1>5, <1>6, <1>7 DEF SyncNext

\* What a database records the application has made.
Recorded(d) == \A e \in ToSet(d.outbox) : Change(e.key, e.value) \in d.made

LEMMA EndingRecords ==
  ASSUME Recorded(data), Recorded(saved), saved' = data', Same(data', data) \/ Same(data', saved)
  PROVE  Recorded(data') /\ Recorded(saved')
BY DEF Recorded, Same

LEMMA StoringRecords ==
  ASSUME Recorded(data), Recorded(saved), NEW d, Stores(d), d.made = data.made,
         ToSet(d.outbox) \subseteq ToSet(data.outbox)
  PROVE  Recorded(data') /\ Recorded(saved')
BY DEF Recorded, Stores, Same

LEMMA WritingRecords ==
  ASSUME Types, Recorded(data), Recorded(saved), NEW k, NEW v, NEW M, RowWritten(k, v, M),
         applying \/ Change(k, v) \in M
  PROVE  Recorded(data') /\ Recorded(saved')
<1>1. \A e \in ToSet(data'.outbox) :
        e \in ToSet(data.outbox) \/ (Change(e.key, e.value) = Change(k, v) /\ ~applying)
  <2>1. CASE data'.outbox = data.outbox
    BY <2>1
  <2>2. ASSUME NEW x \in Entries, x.key = k, x.value = v, ~applying,
               data'.outbox = Append(data.outbox, x)
        PROVE  \A e \in ToSet(data'.outbox) :
                 e \in ToSet(data.outbox) \/ (Change(e.key, e.value) = Change(k, v) /\ ~applying)
    BY <2>2, OutboxTypes, AppendMembers
  <2> QED BY <2>1, <2>2 DEF RowWritten
<1>2. data'.made = data.made \cup M /\ (saved' = data' \/ saved' = saved)
  BY DEF RowWritten
<1> QED BY <1>1, <1>2 DEF Recorded

LEMMA RecordsStep ==
  ASSUME Growing, Types, QueuedInv, SoleInv, Recorded(data), Recorded(saved), [SyncNext]_vars
  PROVE  Recorded(data') /\ Recorded(saved')
<1>0. data \in Data /\ data.outbox \in Seq(Entries)
  BY OutboxTypes
<1>1. CASE UNCHANGED <<data, saved>>
  BY <1>1
<1>2. CASE Ends
  BY <1>2, EndingRecords DEF Ends
<1>3. CASE Application
  <2>1. ASSUME NEW k \in Keys, ClientChanges(k) PROVE Recorded(data') /\ Recorded(saved')
    <3>1. PICK v \in Nat \ {0} : RowWritten(k, v, {<<k, v>>})
      BY <2>1, ClientChangesRow
    <3> QED BY <3>1, WritingRecords DEF Change
  <2>2. CASE ClientEnds
    BY <1>2, <2>2, EndTxEnds DEF ClientEnds
  <2>3. CASE ClientSends \/ ClientReads \/ ClientBegins \/ ClientFails
    BY <1>1, <2>3 DEF ClientSends, ClientReads, ClientBegins, ClientFails, Begin,
       StatementFails, localVars
  <2> QED BY <1>3, <2>1, <2>2, <2>3 DEF Application
<1>4. ASSUME NEW p \in Pushers, PushStep(p) \/ ClientSyncs(p) \/ PushFails(p)
      PROVE  Recorded(data') /\ Recorded(saved')
  <2>1. CASE Advance(p) /\ tx # "aborted"
    <3> DEFINE d == [data EXCEPT !.lastPush = LastId(p)]
    <3>1. push[p].batch # <<>>
      BY <2>1 DEF QueuedInv, Pushing, Advance
    <3>2. Stores(d)
      BY <2>1, <3>1, AdvanceStores
    <3>3. d.made = data.made /\ d.outbox = data.outbox
      BY <1>0 DEF Data
    <3> HIDE DEF d
    <3> QED BY <3>2, <3>3, StoringRecords
  <2>2. CASE Truncate(p) /\ tx # "aborted"
    <3> DEFINE o == Beyond(data.outbox, LastId(p))
               d == [data EXCEPT !.outbox = Beyond(@, LastId(p))]
    <3>1. Stores(d)
      BY <2>2, TruncateStores
    <3>2. ToSet(o) \subseteq ToSet(data.outbox)
      BY <1>0, BeyondMembers
    <3>3. d.made = data.made /\ d.outbox = o
      BY <1>0 DEF Data
    <3> HIDE DEF d, o
    <3> QED BY <3>1, <3>2, <3>3, StoringRecords
  <2>3. CASE ~(Advance(p) /\ tx # "aborted") /\ ~(Truncate(p) /\ tx # "aborted")
    <3>1. UNCHANGED <<data, saved>>
      BY <1>4, <2>3 DEF PushStep, ClientSyncs, AutoPush, ReadCursor, ReadOutbox, PushNeedsMeta,
         PushReadsMeta, PushRow, PushCommits, PushFails, Advance, Truncate, localVars
    <3> QED BY <1>1, <3>1
  <2> QED BY <2>1, <2>2, <2>3
<1>5. ASSUME NEW i \in 1 .. MaxWal, HandlerStep(i) PROVE Recorded(data') /\ Recorded(saved')
  <2>1. HandlerLeaves(i)
    BY <1>5, HandlerData
  <2>2. ASSUME Stores([data EXCEPT !.exists = TRUE]) PROVE Recorded(data') /\ Recorded(saved')
    <3> DEFINE d == [data EXCEPT !.exists = TRUE]
    <3>1. d.made = data.made /\ d.outbox = data.outbox
      BY <1>0 DEF Data
    <3> HIDE DEF d
    <3> QED BY <2>2, <3>1, StoringRecords DEF d
  <2>3. ASSUME handler[i].pc = "apply", RowWritten(wal[i].key, wal[i].value, {})
        PROVE  Recorded(data') /\ Recorded(saved')
    BY <2>3, WritingRecords DEF SoleInv
  <2> QED BY <1>1, <1>2, <2>1, <2>2, <2>3 DEF HandlerLeaves
<1>6. CASE (\E k \in Keys : ForeignChanges(k)) \/ Expire \/ StartPuller
  BY <1>1, <1>6 DEF ForeignChanges, Expire, StartPuller, localVars
<1>7. CASE InitialSync
  <2>1. CASE ~UNCHANGED <<data, saved>>
    <3>1. data'.outbox = data.outbox /\ data'.made = data.made /\ saved' = data'
      BY <1>0, <1>7, <2>1 DEF InitialSync, Data
    <3> QED BY <3>1 DEF Recorded
  <2> QED BY <1>1, <2>1
<1>8. CASE Crash
  BY <1>8 DEF Crash
<1>9. CASE UNCHANGED vars
  BY <1>1, <1>9 DEF vars, localVars
<1> QED BY <1>3, <1>4, <1>5, <1>6, <1>7, <1>8, <1>9 DEF SyncNext

\* Where the application and the handlers keep apart, and messages too.
RecordInv ==
  Types /\ ApartInv /\ QueuedInv
  /\ ("concurrent messages" \notin may => SoleInv /\ Recorded(data) /\ Recorded(saved))

(***************************************************************************)
(* The outbox records only what the application changed.  The flag is set  *)
(* whenever a handler changes a row, and gone when its transaction is,     *)
(* whether it commits or fails (puller.ts:45-105, schema.ts:134-158).      *)
(***************************************************************************)
THEOREM SyncRecordsOwnChanges == Growing => (Spec => []RecordsOwnChanges)
<1> SUFFICES ASSUME Growing PROVE Spec => []RecordsOwnChanges
  OBVIOUS
<1>1. SyncInit => RecordInv
  <2> SUFFICES ASSUME SyncInit PROVE RecordInv
    OBVIOUS
  <2>1. Recorded(data) /\ Recorded(saved)
    <3>1. data.outbox = <<>> /\ saved = data
      BY DEF SyncInit
    <3>2. ToSet(<<>>) = {}
      BY DEF ToSet
    <3> QED BY <3>1, <3>2 DEF Recorded
  <2>2. \A i \in 1 .. MaxWal : handler[i].pc = "none"
    BY DEF SyncInit, Unseen
  <2>3. SoleInv
    BY <2>2 DEF SoleInv, Active
  <2> QED BY <2>1, <2>3, Starts DEF RecordInv
<1>2. RecordInv /\ [SyncNext]_vars => RecordInv'
  <2> SUFFICES ASSUME RecordInv, [SyncNext]_vars PROVE RecordInv'
    OBVIOUS
  <2>1. Types' /\ ApartInv' /\ QueuedInv' /\ may' = may
    BY TypesStep, ApartStep, QueuedStep, ScenarioStays DEF RecordInv
  <2>2. "concurrent messages" \notin may => SoleInv' /\ Recorded(data') /\ Recorded(saved')
    BY SoleStep, RecordsStep DEF RecordInv
  <2> QED BY <2>1, <2>2 DEF RecordInv, Recorded
<1>3. RecordInv => RecordsOwnChanges
  BY DEF RecordInv, Recorded, RecordsOwnChanges
<1> QED BY <1>1, <1>2, <1>3, PTL DEF Spec
=============================================================================
