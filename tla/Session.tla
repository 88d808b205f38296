------------------------------ MODULE Session ------------------------------
(***************************************************************************)
(* src/src/session/client.ts and workload.ts: a session client and the     *)
(* workload that serves it, connected by two streams of frames.  The       *)
(* client admits requests, times them out and closes; the workload reads   *)
(* the frames, schedules them by lane and answers.                         *)
(*                                                                         *)
(* The engine below is what the other modules detail: statements compete   *)
(* for the clients of its pool, a transaction lane keeps one from its      *)
(* first statement to its end, and the listener hub keeps one.  The        *)
(* session has been initialized: the engine is PostgreSQL (concurrent) or  *)
(* PGlite, which executes one request at a time.                           *)
(*                                                                         *)
(* A stream event, a time-out or a call of the application comes only when *)
(* the client has resumed the requests whose wait is over: Quiet.          *)
(***************************************************************************)
EXTENDS Naturals, FiniteSets, SequencesExt, Subsequences

CONSTANTS
  Requests,     \* calls of request(), close apart
  Programs,     \* the sessions to consider: the calls the application makes of
                \* request(), pgPoolMax, PostgreSQL or not, may it be cancelled,
                \* may it be closed between a transaction's first and last statement
  None,         \* no lane, no subscription, no request
  Close,        \* the close request
  BufferCap,    \* frames the transport takes before the workload reads them
  MaxTimeouts   \* bound: requests that time out

Ops == {"begin", "run", "end", "query", "listen", "unlisten", "unused"}

\* A call of request(); after: the calls whose outcome the application awaits first.
IsCall(c, requests) ==
  /\ c.op \in Ops /\ c.after \subseteq requests
  /\ c.sub # None <=> c.op \in {"listen", "unlisten"}

ASSUME SessionAssumption ==
  /\ BufferCap \in Nat \ {0} /\ MaxTimeouts \in Nat
  /\ {None, Close} \cap Requests = {} /\ None # Close /\ IsFiniteSet(Requests)
  /\ \A p \in Programs :
       /\ \A r \in Requests : IsCall(p.calls[r], Requests)
       /\ \A r, q \in Requests :  \* listen() numbers its subscription anew
            p.calls[r].op = "listen" /\ p.calls[q].op = "listen"
              /\ p.calls[r].sub = p.calls[q].sub => r = q
       /\ p.pool \in Nat \ {0} /\ {p.concurrent, p.cancelled, p.midway} \subseteq BOOLEAN

VARIABLES
  program,     \* the session, one of Programs
  pc,          \* client: how far each request has come: "idle", "gated", "sent"
  answer,      \* client: what its promise has settled to
  requestId,   \* client: the number it was sent with
  pending,     \* client: sent, no response yet
  timedOut,    \* client: the pending ones that timed out
  waiting,     \* client: gated requests, in the order of their waits
  woken,       \* client: gated requests whose wait is over, not yet resumed
  links,       \* client: time-outs chained to requestGate, and those resolved
  ticket,      \* client: the link of requestGate a gated request awaits
  closer,      \* client: how far close() has come
  input,       \* the frames on their way to the workload
  loop,        \* workload: what its read loop is doing
  serving,     \* workload: the request the loop serves by itself
  run,         \* workload: how far each request has come
  previous,    \* workload: the request of its lane a scheduled one follows
  laneTails,   \* workload: the last request scheduled on each lane
  pinned,      \* engine: lanes that hold a client
  queue,       \* engine: who waits for a client, in order
  hub,         \* engine: the listener hub holds a client
  subs,        \* engine: its subscriptions
  ran,         \* database: the requests it has executed
  output,      \* the frames on their way to the client
  lost         \* the transport was cancelled

clientVars == <<pc, answer, requestId, pending, timedOut, waiting, woken, links, ticket, closer>>
workVars   == <<loop, serving, run, previous, laneTails>>
engineVars == <<pinned, queue, hub, subs, ran>>
vars == <<program, clientVars, input, workVars, engineVars, output, lost>>

PoolMax  == program.pool
concurrent == program.concurrent
Op(r)    == program.calls[r].op
Sub(r)   == program.calls[r].sub
After(r) == program.calls[r].after
\* Only a concurrent engine's transactions have lanes.
Lane(r)  == IF concurrent THEN program.calls[r].lane ELSE None
Lanes    == {program.calls[r].lane : r \in Requests} \ {None}

closing == closer # "none"
Quiet   == woken = <<>> /\ ~(links.added > links.resolved /\ pending = {})

\* await write: the frame is in the transport.
Written(r)  == r \notin ToSet(SubSeq(input, BufferCap + 1, Len(input)))
Returned(r) == answer[r] # "none" /\ Written(r)

SessionInit ==
  /\ program \in Programs
  /\ pc = [r \in Requests |-> "idle"] /\ answer = [r \in Requests |-> "none"]
  /\ requestId = [r \in Requests |-> 0]
  /\ pending = {} /\ timedOut = {} /\ waiting = <<>> /\ woken = <<>>
  /\ links = [added |-> 0, resolved |-> 0] /\ ticket = [x \in Requests \cup {Close} |-> 0]
  /\ closer = "none" /\ input = <<>>
  /\ loop = "reading" /\ serving = None
  /\ run = [r \in Requests |-> "none"] /\ previous = [r \in Requests |-> None]
  /\ laneTails = [l \in Lanes |-> None]
  /\ pinned = {} /\ queue = <<>> /\ hub = FALSE /\ subs = {} /\ ran = {}
  /\ output = <<>> /\ lost = FALSE
-----------------------------------------------------------------------------
\* What has no lane waits for nothing.
InScopeUnlanedFree(q, x) ==
  IF Op(x) = "unlisten" THEN Op(q) \in {"listen", "unlisten"} /\ Sub(q) = Sub(x)
                        ELSE Lane(q) = Lane(x) /\ Lane(x) # None

\* One gate for the session.
InScopeSession(q, x) ==
  IF Op(x) = "unlisten" THEN Op(q) \in {"listen", "unlisten"} /\ Sub(q) = Sub(x) ELSE TRUE

(***************************************************************************)
(* The client's admission.                                                 *)
(***************************************************************************)
\* matchesScope: x is an UNLISTEN and waits for the work of its subscription,
\* or it waits for its lane; what has no lane shares one.
InScope(q, x) ==
  IF Op(x) = "unlisten" THEN Op(q) \in {"listen", "unlisten"} /\ Sub(q) = Sub(x)
                        ELSE Lane(q) = Lane(x)

\* Only time-outs gate, an UNLISTEN too.
BlockedByTimeouts(x) ==
  IF concurrent THEN x # Close /\ \E q \in pending \cap timedOut : InScope(q, x)
                ELSE links.added > links.resolved

Blocked(x) ==
  IF concurrent
  THEN x # Close /\ \E q \in pending : InScope(q, x) /\ (Op(x) = "unlisten" \/ q \in timedOut)
  ELSE links.added > links.resolved

\* What a gated x awaits has happened when P is pending and n links are resolved.
Freed(x, P, n) == IF concurrent THEN \A q \in P : ~InScope(q, x) ELSE ticket[x] <= n

\* The client is left with the pending requests P and n resolved links.
Drain(P, n) ==
  /\ pending' = P /\ timedOut' = timedOut \cap P
  /\ links' = [links EXCEPT !.resolved = n]
  /\ LET freed == {x \in ToSet(waiting) : Freed(x, P, n)} IN
       /\ waiting' = Among(waiting, ToSet(waiting) \ freed)
       /\ woken' = woken \o Among(waiting, freed)

Gate(x) ==
  /\ waiting' = Append(waiting, x)
  /\ ticket' = [ticket EXCEPT ![x] = links.added]

\* Close is not counted as pending: nothing is admitted after it.
Send(x) ==
  /\ input' = Append(input, x)
  /\ IF x = Close
     THEN closer' = "sent" /\ UNCHANGED <<pc, requestId, pending>>
     ELSE /\ pc' = [pc EXCEPT ![x] = "sent"]
          /\ requestId' = [requestId EXCEPT ![x] =
                             1 + Cardinality({q \in Requests : requestId[q] > 0})]
          /\ pending' = pending \cup {x}
          /\ UNCHANGED closer

Refuse(r) ==
  /\ pc' = [pc EXCEPT ![r] = "refused"]
  /\ answer' = [answer EXCEPT ![r] = "refused"]

Call(r) ==
  /\ Quiet /\ pc[r] = "idle" /\ Op(r) # "unused" /\ \A q \in After(r) : Returned(q)
  /\ \/ /\ closing /\ Refuse(r)
        /\ UNCHANGED <<requestId, pending, waiting, ticket, closer, input>>
     \/ /\ ~closing /\ Blocked(r) /\ Gate(r)
        /\ pc' = [pc EXCEPT ![r] = "gated"]
        /\ UNCHANGED <<answer, requestId, pending, closer, input>>
     \/ /\ ~closing /\ ~Blocked(r) /\ Send(r)
        /\ UNCHANGED <<answer, waiting, ticket>>
  /\ UNCHANGED <<program, timedOut, woken, links, workVars, engineVars, output, lost>>

\* The application closes at any time, or only when the end of each transaction
\* it began has been sent; what has been sent need not have been answered.
MayClose ==
  \/ program.midway
  \/ \A r, q \in Requests :
       Op(r) = "begin" /\ Op(q) = "end" /\ Lane(r) = Lane(q) /\ pc[r] = "sent" => pc[q] = "sent"

CallClose ==
  /\ Quiet /\ closer = "none" /\ MayClose
  /\ \/ /\ Blocked(Close) /\ Gate(Close) /\ closer' = "gated"
        /\ UNCHANGED <<pc, requestId, pending, input>>
     \/ /\ ~Blocked(Close) /\ Send(Close)
        /\ UNCHANGED <<waiting, ticket>>
  /\ UNCHANGED <<program, answer, timedOut, woken, links, workVars, engineVars,
                 output, lost>>

\* The next of the requests whose wait is over looks again.
Resume ==
  /\ woken # <<>> /\ woken' = Tail(woken)
  /\ LET x == Head(woken) IN
       \/ /\ x # Close /\ closing /\ Refuse(x)
          /\ UNCHANGED <<requestId, pending, waiting, ticket, closer, input>>
       \/ /\ x # Close /\ ~closing /\ concurrent /\ Blocked(x) /\ Gate(x)
          /\ UNCHANGED <<pc, answer, requestId, pending, closer, input>>
       \/ /\ x # Close /\ ~closing /\ ~(concurrent /\ Blocked(x)) /\ Send(x)
          /\ UNCHANGED <<answer, waiting, ticket>>
       \/ /\ x = Close
          /\ IF closer = "done" THEN UNCHANGED <<pc, requestId, pending, closer, input>>
                                ELSE Send(Close)
          /\ UNCHANGED <<answer, waiting, ticket>>
  /\ UNCHANGED <<program, timedOut, links, workVars, engineVars, output, lost>>

\* The next time-out in the chain of requestGate finds the session idle too.
GateOpens ==
  /\ pending = {} /\ links.added > links.resolved
  /\ Drain({}, links.resolved + 1)
  /\ UNCHANGED <<program, pc, answer, requestId, ticket, closer, input, workVars,
                 engineVars, output, lost>>

TimesOut(r) ==
  /\ Quiet /\ r \in pending \ timedOut
  /\ Cardinality({q \in Requests : answer[q] = "timeout"}) < MaxTimeouts
  /\ timedOut' = timedOut \cup {r}
  /\ answer' = [answer EXCEPT ![r] = "timeout"]
  /\ links' = IF concurrent THEN links ELSE [links EXCEPT !.added = @ + 1]
  /\ UNCHANGED <<program, pc, requestId, pending, waiting, woken, ticket, closer,
                 input, workVars, engineVars, output, lost>>
-----------------------------------------------------------------------------
(***************************************************************************)
(* The client's reading.                                                   *)
(***************************************************************************)
Response(id, ok) == [id |-> id, ok |-> ok]
\* The workload has closed its output.
EndOfOutput == Response(None, TRUE)

ResolvedAfter(P) ==
  IF P = {} /\ links.added > links.resolved THEN links.resolved + 1 ELSE links.resolved

\* Responses are taken in the order of the requests.
ReceiveInOrder(r) ==
  /\ Quiet /\ closer # "done" /\ output # <<>> /\ Head(output).id \in Requests /\ r \in pending
  /\ \A q \in pending : requestId[r] <= requestId[q]
  /\ output' = Tail(output)
  /\ Drain(pending \ {r}, ResolvedAfter(pending \ {r}))
  /\ answer' = IF r \in timedOut THEN answer
               ELSE [answer EXCEPT ![r] = IF Head(output).ok THEN "ok" ELSE "error"]
  /\ UNCHANGED <<program, pc, requestId, ticket, closer, input, workVars, engineVars, lost>>

Receive(r) ==
  /\ Quiet /\ closer # "done" /\ output # <<>> /\ Head(output).id = r
  /\ output' = Tail(output)
  /\ Drain(pending \ {r}, ResolvedAfter(pending \ {r}))
  /\ answer' = IF r \in timedOut THEN answer
               ELSE [answer EXCEPT ![r] = IF Head(output).ok THEN "ok" ELSE "error"]
  /\ UNCHANGED <<program, pc, requestId, ticket, closer, input, workVars, engineVars, lost>>

\* close() goes on to await the end of the output (so it does when the close
\* request times out, which changes only what it reports).
ReceiveClose ==
  /\ Quiet /\ closer = "sent" /\ output # <<>> /\ Head(output).id = Close
  /\ output' = Tail(output) /\ closer' = "reading"
  /\ UNCHANGED <<program, pc, answer, requestId, pending, timedOut, waiting, woken,
                 links, ticket, input, workVars, engineVars, lost>>

\* rejectPending() and finish().
Finish ==
  /\ closer' = "done"
  /\ answer' = [r \in Requests |-> IF r \in pending \ timedOut THEN "lost" ELSE answer[r]]
  /\ pending' = {} /\ timedOut' = {}
  /\ links' = [links EXCEPT !.resolved = links.added]
  /\ woken' = woken \o waiting /\ waiting' = <<>>
  /\ input' = <<>>
  /\ UNCHANGED <<program, pc, requestId, ticket, workVars, engineVars, lost>>

ReceiveEnd ==
  /\ Quiet /\ closer = "reading" /\ output = <<EndOfOutput>>
  /\ Finish /\ output' = <<>>

ReadFails ==
  /\ Quiet /\ lost /\ closer # "done"
  /\ Finish /\ output' = <<>>
-----------------------------------------------------------------------------
(***************************************************************************)
(* The workload: the read loop and the lanes.                              *)
(***************************************************************************)
InFlight == {r \in Requests : run[r] \in {"queued", "waiting", "executing"}}

Schedule(r) ==
  /\ concurrent /\ loop = "reading" /\ input # <<>> /\ Head(input) = r /\ r # Close
  /\ input' = Tail(input)
  /\ run' = [run EXCEPT ![r] = "queued"]
  /\ IF Lane(r) = None THEN UNCHANGED <<previous, laneTails>>
     ELSE /\ previous' = [previous EXCEPT ![r] = laneTails[Lane(r)]]
          /\ laneTails' = [laneTails EXCEPT ![Lane(r)] = r]
  /\ UNCHANGED <<program, clientVars, loop, serving, engineVars, output, lost>>

\* PGlite's requests, and close, are served by the loop itself.
Serve(x) ==
  /\ loop = "reading" /\ input # <<>> /\ Head(input) = x
  /\ concurrent => x = Close
  /\ input' = Tail(input)
  /\ loop' = "serving" /\ serving' = x
  /\ run' = IF x = Close THEN run ELSE [run EXCEPT ![x] = "queued"]
  /\ UNCHANGED <<program, clientVars, previous, laneTails, engineVars, output, lost>>

\* The work in flight is left to the engine.
EngineClosesAtOnce ==
  /\ loop = "serving" /\ serving = Close
  /\ loop' = "closed" /\ serving' = None
  /\ pinned' = {} /\ hub' = FALSE /\ subs' = {}
  /\ output' = output \o <<Response(Close, TRUE), EndOfOutput>>
  /\ UNCHANGED <<program, clientVars, input, run, previous, laneTails, queue, ran, lost>>

\* close waits for what is in flight.
EngineCloses ==
  /\ loop = "serving" /\ serving = Close /\ InFlight = {}
  /\ loop' = "closed" /\ serving' = None
  /\ pinned' = {} /\ hub' = FALSE /\ subs' = {}
  /\ output' = output \o <<Response(Close, TRUE), EndOfOutput>>
  /\ UNCHANGED <<program, clientVars, input, run, previous, laneTails, queue, ran, lost>>

\* Transport cancellation: the engine is closed at once and refuses what has
\* not reached the database; the client will find its output failed.
Abort ==
  /\ program.cancelled /\ ~lost /\ loop # "closed" /\ lost' = TRUE
  /\ loop' = "aborted" /\ serving' = None
  /\ pinned' = {} /\ queue' = <<>> /\ hub' = FALSE /\ subs' = {}
  /\ run' = [r \in Requests |-> IF run[r] \in {"queued", "waiting"} THEN "done" ELSE run[r]]
  /\ UNCHANGED <<program, clientVars, input, previous, laneTails, ran, output>>

\* The lane is forgotten though a later task is its tail.
RespondForgetsLane(r, ok) ==
  /\ output' = IF loop = "aborted" THEN output ELSE Append(output, Response(r, ok))
  /\ IF serving = r THEN loop' = "reading" /\ serving' = None ELSE UNCHANGED <<loop, serving>>
  /\ laneTails' = [l \in Lanes |-> IF l = Lane(r) THEN None ELSE laneTails[l]]
  /\ UNCHANGED previous

\* respond() has written the response; the task of r is over.
Respond(r, ok) ==
  /\ output' = IF loop = "aborted" THEN output ELSE Append(output, Response(r, ok))
  /\ IF serving = r THEN loop' = "reading" /\ serving' = None ELSE UNCHANGED <<loop, serving>>
  /\ laneTails' = [l \in Lanes |-> IF laneTails[l] = r THEN None ELSE laneTails[l]]
  /\ UNCHANGED previous
-----------------------------------------------------------------------------
(***************************************************************************)
(* The engine.                                                             *)
(***************************************************************************)
OnPool  == {"query", "begin"}
InUse   == Cardinality(pinned) + (IF hub THEN 1 ELSE 0)
             + Cardinality({r \in Requests : run[r] = "executing" /\ Op(r) \in OnPool})

SetRun(r, how) == run' = [run EXCEPT ![r] = how]

\* The calls the engine refuses without asking the database.
Invalid(r) ==
  \/ Op(r) = "listen" /\ (~concurrent \/ PoolMax < 2 \/ Sub(r) \in subs)
  \/ concurrent /\ Op(r) = "begin" /\ Lane(r) \in pinned
  \/ concurrent /\ Op(r) \in {"run", "end"} /\ Lane(r) \notin pinned

\* Those that wait for a client of the pool; the first listen() opens the
\* hub's connection and the others wait for it.
NeedsClient(r) == concurrent /\ (Op(r) \in OnPool \/ (Op(r) = "listen" /\ ~hub))
Joins(r) == Op(r) = "listen" => \A q \in ToSet(queue) : Op(q) # "listen"

Runnable(r) == run[r] = "queued" /\ (previous[r] # None => run[previous[r]] = "done")

StartFails(r) ==
  /\ Runnable(r) /\ Invalid(r)
  /\ SetRun(r, "done") /\ Respond(r, FALSE)
  /\ UNCHANGED <<program, clientVars, input, engineVars, lost>>

StartWaits(r) ==
  /\ Runnable(r) /\ ~Invalid(r) /\ NeedsClient(r)
  /\ SetRun(r, "waiting")
  /\ queue' = IF Joins(r) THEN Append(queue, r) ELSE queue
  /\ UNCHANGED <<program, clientVars, input, loop, serving, previous, laneTails,
                 pinned, hub, subs, ran, output, lost>>

\* unlisten() forgets the subscription before it awaits anything.
StartExecutes(r) ==
  /\ Runnable(r) /\ ~Invalid(r) /\ ~NeedsClient(r)
  /\ SetRun(r, "executing")
  /\ subs' = IF Op(r) = "unlisten" THEN subs \ {Sub(r)} ELSE subs
  /\ UNCHANGED <<program, clientVars, input, loop, serving, previous, laneTails,
                 pinned, queue, hub, ran, output, lost>>

Grant ==
  /\ queue # <<>> /\ InUse < PoolMax
  /\ LET x == Head(queue) IN
       IF Op(x) = "listen"
       THEN /\ hub' = TRUE
            /\ run' = [r \in Requests |-> IF run[r] = "waiting" /\ Op(r) = "listen"
                                          THEN "executing" ELSE run[r]]
       ELSE SetRun(x, "executing") /\ UNCHANGED hub
  /\ queue' = Tail(queue)
  /\ UNCHANGED <<program, clientVars, input, loop, serving, previous, laneTails,
                 pinned, subs, ran, output, lost>>

Succeeds(r) ==
  /\ run[r] = "executing"
  /\ SetRun(r, "done") /\ Respond(r, TRUE)
  /\ ran' = ran \cup {r}
  /\ pinned' = CASE ~concurrent \/ loop = "aborted" -> pinned
                 [] Op(r) = "begin" -> pinned \cup {Lane(r)}
                 [] Op(r) = "end"   -> pinned \ {Lane(r)}
                 [] OTHER           -> pinned
  /\ subs' = IF Op(r) = "listen" /\ loop # "aborted" THEN subs \cup {Sub(r)} ELSE subs
  /\ UNCHANGED <<program, clientVars, input, queue, hub, lost>>

\* The error may come after the database has acted; a failed first statement
\* may have pinned its lane, a failed end has let go of it.
Fails(r) ==
  /\ run[r] = "executing"
  /\ SetRun(r, "done") /\ Respond(r, FALSE)
  /\ ran' \in {ran, ran \cup {r}}
  /\ pinned' \in IF ~concurrent \/ loop = "aborted" THEN {pinned}
                 ELSE IF Op(r) = "begin" THEN {pinned, pinned \cup {Lane(r)}}
                 ELSE {IF Op(r) = "end" THEN pinned \ {Lane(r)} ELSE pinned}
  /\ UNCHANGED <<program, clientVars, input, queue, hub, subs, lost>>
-----------------------------------------------------------------------------
ClientStep == Resume \/ GateOpens \/ (\E r \in Requests : Receive(r))
                \/ ReceiveClose \/ ReceiveEnd \/ ReadFails
Work(r) == Schedule(r) \/ Serve(r) \/ StartFails(r) \/ StartWaits(r) \/ StartExecutes(r)
Reply(r) == Succeeds(r) \/ Fails(r)

SessionNext ==
  \/ \E r \in Requests : Call(r) \/ TimesOut(r) \/ Work(r) \/ Reply(r)
  \/ CallClose \/ ClientStep \/ Serve(Close) \/ EngineCloses \/ Grant \/ Abort

Spec == SessionInit /\ [][SessionNext]_vars

\* The application ends its transactions; it need not do anything else.
Fairness ==
  /\ WF_vars(ClientStep) /\ WF_vars(Serve(Close)) /\ WF_vars(EngineCloses)
  /\ WF_vars(Grant)
  /\ \A r \in Requests : /\ WF_vars(Work(r)) /\ WF_vars(Reply(r))
                         /\ WF_vars(Op(r) = "end" /\ Call(r))

FairSpec == Spec /\ Fairness
-----------------------------------------------------------------------------
SessionTypeOK ==
  /\ {hub, lost} \subseteq BOOLEAN
  /\ pc \in [Requests -> {"idle", "gated", "sent", "refused"}]
  /\ answer \in [Requests -> {"none", "ok", "error", "refused", "timeout", "lost"}]
  /\ timedOut \subseteq pending /\ pending \subseteq {r \in Requests : pc[r] = "sent"}
  /\ \A r \in Requests : pc[r] = "gated" <=> r \in ToSet(waiting \o woken)
  /\ links.resolved <= links.added
  /\ closer \in {"none", "gated", "sent", "reading", "done"}
  /\ loop \in {"reading", "serving", "closed", "aborted"}
  /\ serving \in Requests \cup {Close, None}
  /\ run \in [Requests -> {"none", "queued", "waiting", "executing", "done"}]
  /\ InUse <= PoolMax

(***************************************************************************)
(* Statements of one lane are executed one at a time and in the order they *)
(* were sent, though the workload keeps only the last task of each lane    *)
(* and forgets it when it ends (workload.ts:315-339).                      *)
(***************************************************************************)
LaneOrder ==
  \A r, q \in Requests :
    /\ concurrent /\ Lane(r) # None /\ Lane(r) = Lane(q) /\ loop # "aborted"
    /\ 0 < requestId[q] /\ requestId[q] < requestId[r]
    /\ run[r] \in {"waiting", "executing", "done"}
    => run[q] = "done"

(***************************************************************************)
(* No request is sent while one of its lane, of the unlaned group, or, for *)
(* PGlite, of the session has timed out and is not drained, and no         *)
(* UNLISTEN while anything of its subscription is pending                  *)
(* (client.ts:230-255, 282-284).                                           *)
(***************************************************************************)
DrainsBeforeNext ==
  [][\A r \in Requests :
       pc[r] # "sent" /\ pc'[r] = "sent" =>
         /\ ~concurrent => timedOut = {}
         /\ concurrent /\ Op(r) # "unlisten" => \A q \in timedOut : Lane(q) # Lane(r)
         /\ concurrent /\ Op(r) = "unlisten" => \A q \in pending : Sub(q) # Sub(r)]_vars

(***************************************************************************)
(* After a confirmed UNLISTEN nothing of its subscription is left in the   *)
(* engine, even if its LISTEN was still pending when it was asked for      *)
(* (client.ts:240-252, engine.ts:158-163).                                 *)
(***************************************************************************)
UnlistenIsFinal ==
  \A r, q \in Requests :
    /\ Op(r) = "unlisten" /\ answer[r] = "ok"
    /\ Op(q) = "listen" /\ Sub(q) = Sub(r) /\ 0 < requestId[q] /\ requestId[q] < requestId[r]
    => Sub(r) \notin subs /\ q \notin InFlight

(***************************************************************************)
(* A graceful close answers everything it admitted: the engine is closed   *)
(* with no work in flight, and only a lost transport loses a request       *)
(* (workload.ts:356-362, client.ts:369-391).                               *)
(***************************************************************************)
CloseDrains ==
  /\ loop = "closed" => InFlight = {} /\ input = <<>>
  /\ ~lost => \A r \in Requests : answer[r] # "lost"

(***************************************************************************)
(* Every request is answered and close() settles: a timed-out request that *)
(* waits for the pool does not hold back the transactions that will give   *)
(* it a client, and close() finds the work in flight able to end           *)
(* (client.ts:230-252, workload.ts:315-362, ARCHITECTURE.md:386-390).      *)
(* There are finitely many calls: what is settled together again and again *)
(* is settled each.                                                        *)
(***************************************************************************)
EverythingSettles ==
  []<>(/\ \A r \in Requests : pc[r] # "idle" => Returned(r)
       /\ closing => closer = "done")

\* The session keeps the ledger: what callers are told agrees with what was executed.
Ledger == INSTANCE RequestLedger WITH outcome <- answer
KeepsLedger == Ledger!Spec
=============================================================================
