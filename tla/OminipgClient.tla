--------------------------- MODULE OminipgClient ---------------------------
(***************************************************************************)
(* src/src/client/index.ts: the Ominipg client.  It admits calls (one      *)
(* after another on PGlite, side by side on PostgreSQL), runs transaction  *)
(* callbacks, begins, drains, commits or rolls back around them, and       *)
(* closes, or retires, the session below.                                  *)
(*                                                                         *)
(* The session and the engine, which the modules Session, PostgresAdapter  *)
(* and AccountedPgPool detail, are here what a caller sees of them: a      *)
(* request waits while one of its lane has timed out and is not drained,   *)
(* the requests of a lane are executed in order, and the database keeps    *)
(* for each lane the transaction that is open on it.                       *)
(***************************************************************************)
EXTENDS Naturals, FiniteSets, SequencesExt, Subsequences

CONSTANTS
  Calls,        \* calls of the client's methods, close apart
  Programs,     \* the clients to consider: what initialize answered, what each call is
  Statements,   \* the statements a callback may issue, in this order; p.issues of them
  None,         \* no lane
  Close,        \* the call of close()
  MaxTimeouts   \* bound: requests that time out

\* The requests of a transaction: an explicit BEGIN, its statements, the statement
\* given to finish(), its end.  A call outside a transaction has one request.
Names == ToSet(Statements) \cup {"begin", "finish", "commit", "rollback", "query"}
Flags == {"concurrent", "transactionStart", "transactionEnd", "encodes", "lossy"}
Kinds == {"query", "transaction", "unused"}

ASSUME ClientAssumption ==
  /\ IsFiniteSet(Calls) /\ MaxTimeouts \in Nat /\ Close \notin Calls /\ None \notin Calls
  /\ Statements \in Seq(ToSet(Statements)) /\ IsInjective(Statements)
  /\ ToSet(Statements) \cap {"none", "begin", "finish", "commit", "rollback", "query"} = {}
  /\ \A p \in Programs :
       /\ \A f \in Flags : p[f] \in BOOLEAN
       /\ p.kind \in [Calls -> Kinds] /\ p.issues \in 0 .. Len(Statements)

VARIABLES
  program,     \* the client, one of Programs
  pc,          \* how far each call has come
  told,        \* what its promise has settled to
  active,      \* the transaction's view accepts statements
  opener,      \* started: the request that begins the transaction
  committed,   \* finish() has seen the commit
  finish,      \* how far finish() has come
  awaited,     \* the pending statements Promise.all waits for
  tail,        \* operationTail: exclusive operations, the running one first
  closer,      \* how far close() has come
  closing,     \* calls are refused
  poisoned,    \* statements are refused
  session,     \* "open", "closing", "closed" or "lost"
  req,         \* what the client knows of each request
  line,        \* the requests the workload has not answered, in order
  db,          \* what is open on each lane
  commits,     \* the sets of statements that became durable together
  timeouts     \* how many requests have timed out

callVars == <<pc, told, tail>>
txVars   == <<active, opener, committed, finish, awaited>>
endVars  == <<closer, closing, poisoned, session>>
wireVars == <<req, line, timeouts>>
dbVars   == <<db, commits>>
vars == <<program, callVars, txVars, endVars, wireVars, dbVars>>

concurrent == program.concurrent
Transactions == {c \in Calls : program.kind[c] = "transaction"}
Requests == Calls \X Names

started(c)   == opener[c] # "none"
Work(c)      == {<<c, n>> : n \in ToSet(Statements) \cup {"finish"}}
Pending(c)   == {r \in Work(c) : req[r] \in {"held", "gated", "sent"}}
Failed(rs)   == \E r \in rs : req[r] = "error"
Succeeded(r) == req[r] = "ok"

Nothing == [state |-> "none", rows |-> {}]

ClientInit ==
  /\ program \in Programs
  /\ pc = [c \in Calls |-> "idle"] /\ told = [c \in Calls |-> "none"] /\ tail = <<>>
  /\ active = [c \in Calls |-> TRUE] /\ opener = [c \in Calls |-> "none"]
  /\ committed = [c \in Calls |-> FALSE] /\ finish = [c \in Calls |-> "none"]
  /\ awaited = [c \in Calls |-> {}]
  /\ closer = "none" /\ closing = FALSE /\ poisoned = FALSE /\ session = "open"
  /\ req = [r \in Requests |-> "unsent"] /\ line = <<>> /\ timeouts = 0
  /\ db = [l \in Calls \cup {None} |-> Nothing] /\ commits = {}
-----------------------------------------------------------------------------
(***************************************************************************)
(* Requests.  Those of a transaction go on a lane of their own when the    *)
(* engine is concurrent, and wait for that lane alone.                     *)
(***************************************************************************)
Lane(r) == IF concurrent /\ r[1] \in Transactions THEN r[1] ELSE None

\* Timed out, and not drained.
Late == {r \in ToSet(line) : req[r] = "error"}

Blocked(r, late) == \E q \in late : Lane(q) = Lane(r)

Refusing == poisoned \/ session # "open"

\* queryInLane(); the other requests are as in known.
Send(r, known) ==
  /\ req' = [known EXCEPT ![r] = IF Refusing THEN "error"
                                 ELSE IF Blocked(r, Late) THEN "gated" ELSE "sent"]
  /\ line' = IF Refusing THEN line ELSE Append(line, r)

\* A value the codec refuses: nothing is sent.
Unencodable(r) ==
  /\ ~program.encodes /\ r[2] \in ToSet(Statements)
  /\ req' = [req EXCEPT ![r] = "error"] /\ UNCHANGED line

\* An older workload is sent BEGIN, and the statements wait for its outcome.
Execute(c, n) ==
  LET first == ~started(c)
      begin == <<c, "begin">>
      held  == [req EXCEPT ![<<c, n>>] = IF Refusing THEN "error" ELSE "held"]
  IN
  /\ opener' = IF ~first THEN opener
               ELSE [opener EXCEPT ![c] = IF program.transactionStart THEN n ELSE "begin"]
  /\ \/ program.transactionStart /\ (Send(<<c, n>>, req) \/ Unencodable(<<c, n>>))
     \/ ~program.transactionStart /\ first /\ Send(begin, held)
     \/ /\ ~program.transactionStart /\ ~first
        /\ \/ Succeeded(begin) /\ Send(<<c, n>>, req)
           \/ /\ ~Succeeded(begin)
              /\ req' = [req EXCEPT ![<<c, n>>] = IF Failed({begin}) THEN "error" ELSE "held"]
              /\ UNCHANGED line

\* BEGIN was settled: what it held goes on, or fails with it.
Held(r) == IF r[2] # "begin" THEN <<>>
           ELSE LET names == Among(Append(Statements, "finish"),
                                   {n \in Names : req[<<r[1], n>>] = "held"})
                IN [i \in DOMAIN names |-> <<r[1], names[i]>>]

(***************************************************************************)
(* Calls.  An exclusive operation is at the head of tail until it has      *)
(* settled and the session is idle.                                        *)
(***************************************************************************)
Idle == session \in {"lost", "closed"} \/ line = <<>>

Done(c, outcome) ==
  /\ pc' = [pc EXCEPT ![c] = "done"] /\ told' = [told EXCEPT ![c] = outcome]
  /\ tail' = IF concurrent THEN tail ELSE Tail(tail)

Call(c) ==
  /\ pc[c] = "idle" /\ program.kind[c] # "unused"
  /\ \/ /\ closing
        /\ pc' = [pc EXCEPT ![c] = "done"] /\ told' = [told EXCEPT ![c] = "error"]
        /\ UNCHANGED tail
     \/ /\ ~closing /\ pc' = [pc EXCEPT ![c] = "queued"]
        /\ tail' = IF concurrent THEN tail ELSE Append(tail, c)
        /\ UNCHANGED told
  /\ UNCHANGED <<program, txVars, endVars, wireVars, dbVars>>

\* operationTail.then(operation)
MayStart(c) == pc[c] = "queued" /\ (~concurrent => Head(tail) = c /\ Idle)

StartQuery(c) ==
  /\ MayStart(c) /\ c \notin Transactions
  /\ pc' = [pc EXCEPT ![c] = "asking"]
  /\ Send(<<c, "query">>, req)
  /\ UNCHANGED <<program, told, tail, txVars, endVars, dbVars, timeouts>>

EndQuery(c) ==
  /\ pc[c] = "asking" /\ req[<<c, "query">>] \in {"ok", "error"}
  /\ Done(c, req[<<c, "query">>])
  /\ UNCHANGED <<program, txVars, endVars, wireVars, dbVars>>

StartTransaction(c) ==
  /\ MayStart(c) /\ c \in Transactions
  /\ pc' = [pc EXCEPT ![c] = "callback"]
  /\ UNCHANGED <<program, told, tail, txVars, endVars, wireVars, dbVars>>
-----------------------------------------------------------------------------
(***************************************************************************)
(* The callback.  It issues statements, awaits them or not, and ends when  *)
(* it likes.                                                               *)
(***************************************************************************)
\* The statements before this one have been issued.
NextIs(c, k) == \A j \in 1 .. k : req[<<c, Statements[j]>>] = "unsent" <=> j = k

\* The view may be used after the callback is over; then it is not active.
Query(c) ==
  /\ c \in Transactions /\ pc[c] \notin {"idle", "queued", "done"}
  /\ active[c] /\ ~poisoned
  /\ \E k \in 1 .. program.issues : NextIs(c, k) /\ Execute(c, Statements[k])
  /\ UNCHANGED <<program, callVars, active, committed, finish, awaited>>
  /\ UNCHANGED <<endVars, dbVars, timeouts>>

Finish(c) ==
  /\ pc[c] = "callback" /\ active[c] /\ ~poisoned
  /\ active' = [active EXCEPT ![c] = FALSE]
  /\ finish' = [finish EXCEPT ![c] = "draining"]
  /\ awaited' = [awaited EXCEPT ![c] = Pending(c)]
  /\ UNCHANGED <<program, callVars, opener, committed, endVars, wireVars, dbVars>>

\* What the body of finish() awaited has failed.
FinishFails(c) ==
  /\ \/ finish[c] = "draining" /\ Failed(awaited[c])
     \/ finish[c] = "executing" /\ Failed({<<c, "finish">>})
     \/ finish[c] = "committing" /\ Failed({<<c, "commit">>})
  /\ finish' = [finish EXCEPT ![c] = "failed"]
  /\ UNCHANGED <<program, callVars, active, opener, committed, awaited>>
  /\ UNCHANGED <<endVars, wireVars, dbVars>>

FinishExecutes(c) ==
  /\ finish[c] = "draining" /\ \A r \in awaited[c] : Succeeded(r)
  /\ finish' = [finish EXCEPT ![c] = "executing"]
  /\ Execute(c, "finish")
  /\ UNCHANGED <<program, callVars, active, committed, awaited, endVars, dbVars, timeouts>>

FinishCommits(c) ==
  /\ finish[c] = "executing" /\ Succeeded(<<c, "finish">>) /\ ~program.transactionEnd
  /\ finish' = [finish EXCEPT ![c] = "committing"]
  /\ Send(<<c, "commit">>, req)
  /\ UNCHANGED <<program, callVars, active, opener, committed, awaited>>
  /\ UNCHANGED <<endVars, dbVars, timeouts>>

Finished(c) ==
  /\ \/ finish[c] = "executing" /\ Succeeded(<<c, "finish">>) /\ program.transactionEnd
     \/ finish[c] = "committing" /\ Succeeded(<<c, "commit">>)
  /\ finish' = [finish EXCEPT ![c] = "ok"] /\ committed' = [committed EXCEPT ![c] = TRUE]
  /\ UNCHANGED <<program, callVars, active, opener, awaited, endVars, wireVars, dbVars>>

\* The view stays active after the callback has returned.
ReturnLeavesActive(c) ==
  /\ pc[c] = "callback" /\ pc' = [pc EXCEPT ![c] = "draining"]
  /\ awaited' = IF finish[c] = "none" THEN [awaited EXCEPT ![c] = Pending(c)] ELSE awaited
  /\ UNCHANGED <<program, told, tail, active, opener, committed, finish>>
  /\ UNCHANGED <<endVars, wireVars, dbVars>>

\* finish() has taken its own snapshot of the pending statements, and its outcome
\* is awaited after them.
Return(c) ==
  /\ pc[c] = "callback" /\ pc' = [pc EXCEPT ![c] = "draining"]
  /\ active' = [active EXCEPT ![c] = FALSE]
  /\ awaited' = IF finish[c] = "none" THEN [awaited EXCEPT ![c] = Pending(c)] ELSE awaited
  /\ UNCHANGED <<program, told, tail, opener, committed, finish, endVars, wireVars, dbVars>>

Throw(c) ==
  /\ pc[c] = "callback" /\ pc' = [pc EXCEPT ![c] = "settling"]
  /\ active' = [active EXCEPT ![c] = FALSE]
  /\ UNCHANGED <<program, told, tail, opener, committed, finish, awaited>>
  /\ UNCHANGED <<endVars, wireVars, dbVars>>
-----------------------------------------------------------------------------
(***************************************************************************)
(* After the callback: the end of scopedTransaction().                     *)
(***************************************************************************)
Drained(c) ==
  /\ pc[c] = "draining"
  /\ \/ finish[c] = "ok"
     \/ finish[c] = "none" /\ \A r \in awaited[c] : Succeeded(r)

CommitsOrReturns(c) ==
  /\ Drained(c)
  /\ IF started(c) /\ ~committed[c]
     THEN /\ pc' = [pc EXCEPT ![c] = "committing"]
          /\ Send(<<c, "commit">>, req) /\ UNCHANGED <<told, tail, timeouts>>
     ELSE Done(c, "ok") /\ UNCHANGED wireVars
  /\ UNCHANGED <<program, txVars, endVars, dbVars>>

\* The outcome of COMMIT is not looked at.
CommittedAnyway(c) ==
  /\ pc[c] = "committing" /\ req[<<c, "commit">>] \in {"ok", "error"}
  /\ Done(c, "ok")
  /\ UNCHANGED <<program, txVars, endVars, wireVars, dbVars>>

Committed(c) ==
  /\ pc[c] = "committing" /\ Succeeded(<<c, "commit">>)
  /\ Done(c, "ok")
  /\ UNCHANGED <<program, txVars, endVars, wireVars, dbVars>>

\* Into the catch block.
Catches(c) ==
  /\ \/ pc[c] = "draining" /\ finish[c] = "none" /\ Failed(awaited[c])
     \/ pc[c] = "draining" /\ finish[c] = "failed"
     \/ pc[c] = "committing" /\ Failed({<<c, "commit">>})
  /\ pc' = [pc EXCEPT ![c] = "settling"]
  /\ UNCHANGED <<program, told, tail, txVars, endVars, wireVars, dbVars>>

\* The pending statements are not drained before ROLLBACK.
SettledAtOnce(c) == pc[c] = "settling"

Settled(c) ==
  pc[c] = "settling" /\ Pending(c) = {} /\ finish[c] \in {"none", "ok", "failed"}

\* finish() may have committed what the callback then threw away.
RollsBackOrThrows(c) ==
  /\ Settled(c)
  /\ IF started(c) /\ ~committed[c]
     THEN /\ pc' = [pc EXCEPT ![c] = "rollingBack"]
          /\ Send(<<c, "rollback">>, req) /\ UNCHANGED <<told, tail, timeouts>>
     ELSE Done(c, "error") /\ UNCHANGED wireVars
  /\ UNCHANGED <<program, txVars, endVars, dbVars>>

RolledBack(c) ==
  /\ pc[c] = "rollingBack" /\ Succeeded(<<c, "rollback">>)
  /\ Done(c, "error")
  /\ UNCHANGED <<program, txVars, endVars, wireVars, dbVars>>

\* closeSession(), by the first to call it.
CloseSession == closing' = TRUE /\ session' = IF session = "open" THEN "closing" ELSE session

\* A ROLLBACK that fails is forgotten.
ForgetsRollback(c) ==
  /\ pc[c] = "rollingBack" /\ Failed({<<c, "rollback">>})
  /\ Done(c, "error")
  /\ UNCHANGED <<program, txVars, endVars, wireVars, dbVars>>

\* The session is retired by public close().
RetiresByClose(c) ==
  /\ pc[c] = "rollingBack" /\ Failed({<<c, "rollback">>})
  /\ pc' = [pc EXCEPT ![c] = "retiring"]
  /\ poisoned' = TRUE /\ closing' = TRUE
  /\ closer' = IF closer = "none" THEN "queued" ELSE closer
  /\ tail' = IF concurrent \/ closer # "none" THEN tail ELSE Append(tail, Close)
  /\ UNCHANGED <<program, told, txVars, session, wireVars, dbVars>>

Retires(c) ==
  /\ pc[c] = "rollingBack" /\ Failed({<<c, "rollback">>})
  /\ pc' = [pc EXCEPT ![c] = "retiring"]
  /\ poisoned' = TRUE /\ CloseSession
  /\ UNCHANGED <<program, told, tail, txVars, closer, wireVars, dbVars>>

Retired(c) ==
  /\ pc[c] = "retiring" /\ session \in {"closed", "lost"}
  /\ Done(c, "error")
  /\ UNCHANGED <<program, txVars, endVars, wireVars, dbVars>>
-----------------------------------------------------------------------------
(***************************************************************************)
(* close().                                                                *)
(***************************************************************************)
CallClose ==
  /\ closer = "none" /\ closer' = "queued" /\ closing' = TRUE
  /\ tail' = IF concurrent THEN tail ELSE Append(tail, Close)
  /\ UNCHANGED <<program, pc, told, txVars, poisoned, session, wireVars, dbVars>>

\* runExclusive(): after the exclusive operations, and the concurrent ones.
MayClose ==
  /\ ~concurrent => Head(tail) = Close /\ Idle
  /\ concurrent => \A c \in Calls : pc[c] \in {"idle", "done"}

StartClose ==
  /\ closer = "queued" /\ MayClose
  /\ closer' = "closing" /\ CloseSession
  /\ UNCHANGED <<program, callVars, txVars, poisoned, wireVars, dbVars>>

EndClose ==
  /\ closer = "closing" /\ session \in {"closed", "lost"} /\ closer' = "done"
  /\ UNCHANGED <<program, callVars, txVars, closing, poisoned, session, wireVars, dbVars>>

\* The workload has answered what it was sent; the engine drops what is open.
SessionCloses ==
  /\ session = "closing" /\ line = <<>>
  /\ session' = "closed" /\ poisoned' = TRUE
  /\ db' = [l \in DOMAIN db |-> Nothing]
  /\ UNCHANGED <<program, callVars, txVars, closer, closing, wireVars, commits>>

\* rejectPending() and onClose.  The workload may go on with what it has received.
Lose ==
  /\ program.lossy /\ session \in {"open", "closing"}
  /\ session' = "lost" /\ poisoned' = TRUE
  /\ req' = [r \in Requests |-> IF req[r] \in {"held", "gated", "sent"} THEN "error" ELSE req[r]]
  /\ line' = Among(line, {r \in Requests : req[r] # "gated"})
  /\ UNCHANGED <<program, callVars, txVars, closer, closing, dbVars, timeouts>>

Abandon ==
  /\ session = "lost" /\ line # <<>> /\ line' = <<>>
  /\ db' = [l \in DOMAIN db |-> Nothing]
  /\ UNCHANGED <<program, callVars, txVars, endVars, req, commits, timeouts>>

TimesOut(r) ==
  /\ timeouts < MaxTimeouts /\ session # "lost" /\ req[r] = "sent"
  /\ timeouts' = timeouts + 1
  /\ req' = [q \in Requests |-> IF q = r \/ q \in ToSet(Held(r)) THEN "error" ELSE req[q]]
  /\ UNCHANGED <<program, callVars, txVars, endVars, line, dbVars>>
-----------------------------------------------------------------------------
(***************************************************************************)
(* The engine.  Conn(r) is what is open where r is executed: PGlite has    *)
(* one connection and executes a statement on its own when nothing is open *)
(* on it, the PostgreSQL adapter refuses one whose lane holds no client.   *)
(***************************************************************************)
Served(r) ==
  /\ r \in ToSet(line) /\ req[r] # "gated"
  /\ \/ concurrent /\ Lane(r) = None
     \/ \A q \in ToSet(line) : Precedes(line, q, r) => Lane(q) # Lane(r)

\* r is answered: late ones are settled already, what waited for them goes on.
Answer(r, outcome) ==
  LET late  == Late \ {r}
      held  == IF r \in Late THEN <<>> ELSE Held(r)
      freed == {q \in ToSet(line) : req[q] = "gated" /\ ~Blocked(q, late)}
      goes  == outcome = "ok" /\ ~Refusing
  IN
  /\ req' = [q \in Requests |->
               IF q = r THEN (IF r \in Late THEN "error" ELSE outcome)
               ELSE IF q \in freed THEN (IF session = "open" THEN "sent" ELSE "error")
               ELSE IF q \in ToSet(held) THEN (IF goes THEN "sent" ELSE "error")
               ELSE req[q]]
  /\ line' = Among(line, {q \in Requests : q # r /\ (q \in freed => session = "open")})
             \o (IF goes THEN held ELSE <<>>)
  /\ UNCHANGED <<program, callVars, txVars, endVars, timeouts>>

Conn(r) == db[Lane(r)]
Leave(r, state, rows) == db' = [db EXCEPT ![Lane(r)] = [state |-> state, rows |-> rows]]
Open(r, rows) == Leave(r, "open", rows)
Free(r) == Leave(r, "none", {})

\* r carries the characteristics of the transaction it begins, or is its BEGIN.
Begins(r) == r[1] \in Transactions /\ opener[r[1]] = r[2]
Pooled(r) == Lane(r) # None

\* The lane's own checkout fails, or the lane holds no client.
Refused(r) ==
  /\ Served(r) /\ Pooled(r) /\ Conn(r).state = "none"
  /\ Answer(r, "error") /\ UNCHANGED dbVars

ExecutesBegin(r) ==
  /\ Served(r) /\ r[2] = "begin"
  /\ IF Conn(r).state = "none" THEN Open(r, {}) ELSE UNCHANGED db
  /\ Answer(r, "ok") /\ UNCHANGED commits

Inside(r)  == Conn(r).state = "open" \/ (Conn(r).state = "none" /\ Begins(r))
Outside(r) == Conn(r).state = "none" /\ ~Begins(r) /\ ~Pooled(r)
Ends(r)    == r[2] = "finish" /\ program.transactionEnd
IsStatement(r) == r[2] \in ToSet(Statements) \cup {"query", "finish"}

Executes(r) ==
  /\ Served(r) /\ IsStatement(r)
  /\ \/ /\ Inside(r) /\ ~Ends(r)
        /\ Open(r, Conn(r).rows \cup {r}) /\ Answer(r, "ok") /\ UNCHANGED commits
     \/ /\ Inside(r) /\ Ends(r)
        /\ commits' = commits \cup {Conn(r).rows \cup {r}}
        /\ Free(r) /\ Answer(r, "ok")
     \/ /\ Outside(r)
        /\ commits' = commits \cup {{r}} /\ Answer(r, "ok") /\ UNCHANGED db

\* The server refuses the statement, or its connection breaks.
Fails(r) ==
  /\ Served(r) /\ IsStatement(r) /\ (Pooled(r) => Conn(r).state # "none" \/ Begins(r))
  /\ \/ Outside(r) /\ UNCHANGED db
     \/ Conn(r).state \in {"aborted", "broken"} /\ UNCHANGED db
     \/ Inside(r) /\ Leave(r, "aborted", Conn(r).rows)
     \/ Inside(r) /\ Pooled(r) /\ Leave(r, "broken", Conn(r).rows)
  /\ Answer(r, "error") /\ UNCHANGED commits

\* A COMMIT that fails returns no client to its lane; it may have committed when
\* the connection broke, and an aborted transaction is rolled back instead.
Commits(r) ==
  /\ Served(r) /\ r[2] = "commit"
  /\ \/ Conn(r).state = "open" /\ commits' = commits \cup {Conn(r).rows} /\ Answer(r, "ok")
     \/ Conn(r).state = "aborted" /\ Answer(r, "ok") /\ UNCHANGED commits
     \/ Conn(r).state = "none" /\ ~Pooled(r) /\ Answer(r, "ok") /\ UNCHANGED commits
  /\ Free(r)

\* On PostgreSQL a finish batch that fails keeps its client (Fails), or has
\* committed as its connection broke: then it keeps one that refuses everything,
\* like a lane without a client.
CommitFails(r) ==
  /\ Served(r) /\ (r[2] = "commit" \/ (Ends(r) /\ Inside(r)))
  /\ Conn(r).state \in {"open", "broken"} \/ (Ends(r) /\ Inside(r))
  /\ \/ UNCHANGED commits /\ (Ends(r) => ~Pooled(r))
     \/ /\ Pooled(r) /\ Conn(r).state # "broken"
        /\ commits' = commits \cup {Conn(r).rows \cup ({r} \cap Work(r[1]))}
  /\ Free(r) /\ Answer(r, "error")

RollsBack(r) ==
  /\ Served(r) /\ r[2] = "rollback"
  /\ \/ Conn(r).state \in {"open", "aborted"} /\ Answer(r, "ok")
     \/ Conn(r).state = "none" /\ ~Pooled(r) /\ Answer(r, "ok")
     \/ Conn(r).state # "none" /\ Pooled(r) /\ Answer(r, "error")
  /\ Free(r) /\ UNCHANGED commits

Answered(r) ==
  Refused(r) \/ ExecutesBegin(r) \/ Executes(r) \/ Fails(r) \/ Commits(r) \/ CommitFails(r)
  \/ RollsBack(r)
-----------------------------------------------------------------------------
Continue(c) ==
  \/ EndQuery(c) \/ FinishFails(c) \/ FinishExecutes(c) \/ FinishCommits(c) \/ Finished(c)
  \/ CommitsOrReturns(c) \/ Committed(c) \/ Catches(c) \/ RollsBackOrThrows(c)
  \/ RolledBack(c) \/ Retires(c) \/ Retired(c)

Start(c) == StartQuery(c) \/ StartTransaction(c)
Callback(c) == Query(c) \/ Finish(c) \/ Return(c) \/ Throw(c)

\* The application has closed and every call is over.
AllDone ==
  /\ closer = "done" /\ line = <<>>
  /\ \A c \in Calls : pc[c] = "done" \/ program.kind[c] = "unused"
  /\ UNCHANGED vars

ClientNext ==
  \/ \E c \in Calls : Call(c) \/ Start(c) \/ Callback(c) \/ Continue(c)
  \/ \E r \in Requests : TimesOut(r) \/ Answered(r)
  \/ CallClose \/ StartClose \/ EndClose \/ SessionCloses \/ Lose \/ Abandon
  \/ AllDone

ClientSpec == ClientInit /\ [][ClientNext]_vars

(***************************************************************************)
(* Fairness: continuations run, a callback comes to its end, the workload  *)
(* answers what it is sent and closes when it is asked to.  Nobody has to  *)
(* call anything, and no time-out has to happen.  No step is ever undone,  *)
(* so fairness of the disjunction is fairness of each of them.             *)
(***************************************************************************)
Progress ==
  \/ \E c \in Calls : Start(c) \/ Return(c) \/ Throw(c) \/ Continue(c)
  \/ \E r \in Requests : Answered(r)
  \/ StartClose \/ EndClose \/ SessionCloses

FairClient == ClientSpec /\ WF_vars(Progress)
-----------------------------------------------------------------------------
WrittenBy(c) == {s \in commits : s \cap (Work(c) \cup {<<c, "query">>}) # {}}

(***************************************************************************)
(* What becomes durable together is the work of one call, every statement  *)
(* it was told had succeeded is in it, and a call writes once: neither a   *)
(* statement that runs before BEGIN or after COMMIT on PGlite, whose       *)
(* connection would execute it on its own, nor one of another call.        *)
(* (index.ts:469 "Runs a callback in a transaction pinned to this workload *)
(* session", ARCHITECTURE.md:258 "Already-admitted statements are drained  *)
(* before terminal SQL")                                                   *)
(***************************************************************************)
AllOrNothing ==
  /\ \A c \in Calls : Cardinality(WrittenBy(c)) <= 1
  /\ \A s \in commits : \E c \in Calls :
       /\ s \subseteq Work(c) \cup {<<c, "query">>}
       /\ {r \in Work(c) : Succeeded(r)} \subseteq s

(***************************************************************************)
(* A transaction whose callback fails, before anything was asked to        *)
(* commit, leaves nothing behind.  (API.md:396 "Runs a callback between    *)
(* BEGIN and COMMIT, rolling back when the callback or commit fails")      *)
(***************************************************************************)
FailureRollsBack ==
  \A c \in Transactions :
    told[c] = "error" /\ finish[c] = "none" /\ req[<<c, "commit">>] = "unsent"
      => WrittenBy(c) = {}

(***************************************************************************)
(* While the session is in service, no transaction that is over is open on *)
(* the database: its end was confirmed, or the session is being retired.   *)
(* (index.ts:765 "An unproved rollback must not return a possibly live     *)
(* transaction to service")                                                *)
(***************************************************************************)
NothingLeftOpen ==
  session = "open" =>
    \A c \in Transactions : pc[c] = "done" =>
      /\ \A l \in DOMAIN db : db[l].rows \cap Work(c) = {}
      /\ db[Lane(<<c, "begin">>)].state # "none" =>
           \E d \in Transactions : pc[d] \notin {"idle", "queued", "done"}

\* A single request has to keep what its statement wrote; a transaction, if no
\* statement of it failed: COMMIT of an aborted one is answered like any other.
HasToKeep ==
  {c \in Calls : /\ \E r \in Work(c) \cup {<<c, "query">>} : Succeeded(r)
                 /\ ~Failed(Work(c) \cup {<<c, "begin">>})}

(***************************************************************************)
(* The client keeps the ledger: a call is told once, of success only when  *)
(* its work is durable, and a transaction commits nothing after it was     *)
(* told, though its COMMIT or its ROLLBACK had timed out.  (index.ts:682   *)
(* to 776)                                                                 *)
(***************************************************************************)
Ledger == INSTANCE TransactionLedger WITH
  transactions <- Transactions, writes <- HasToKeep,
  durable <- {c \in Calls : WrittenBy(c) # {}}, reliable <- session # "lost"

KeepsTransactionLedger == Ledger!LedgerSpec

(***************************************************************************)
(* close() comes to its end, and with it every call made before: a         *)
(* rollback that fails retires the session past the queue that close()     *)
(* waits in.  (index.ts:655 "Calling public close() there would wait on    *)
(* the transaction's own operation lane")                                  *)
(***************************************************************************)
EveryCallSettles ==
  closer = "queued" ~> closer = "done" /\ \A c \in Calls : pc[c] \in {"idle", "done"}
=============================================================================
