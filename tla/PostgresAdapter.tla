-------------------------- MODULE PostgresAdapter --------------------------
(***************************************************************************)
(* src/src/worker/db.ts, class PostgresAdapter, over AccountedPgPool: the  *)
(* engine's PostgreSQL client.  It pins one checked-out client to each     *)
(* transaction lane, sends batches of SQL to it, and on close() rolls back *)
(* and returns what it still holds before it ends the pool.                *)
(*                                                                         *)
(* One element of Requests is one call of query(); the checkout it makes,  *)
(* if any, is the pool's borrow of the same name.  A client executes the   *)
(* batches sent to it in order (wire), the server's part of a batch and    *)
(* the code that continues after its reply are separate steps.             *)
(***************************************************************************)
EXTENDS AccountedPgPool, SequencesExt

CONSTANTS
  Requests,        \* the calls of query(), made in the order of their numbers
  Lanes,           \* transaction lanes, the default lane among them
  DefaultLane,     \* DEFAULT_TRANSACTION: statements sent without a lane
  None,            \* no lane, no borrow, no call
  Closer,          \* the batch sender that is close() itself
  Calls,           \* what the callers ask for: a shape of a call and its lane
  OverlappingEnds  \* may unlaned terminal statements overlap?

ASSUME RequestsAssumption == Requests = Borrows /\ Requests \subseteq Nat
ASSUME LanesAssumption    == DefaultLane \in Lanes /\ None \notin Lanes
ASSUME NamesAssumption    == Closer \notin Requests /\ None \notin Requests \cup {Closer}

\* What transactionControl() says of a statement; "reject": it throws.
Controls == {"other", "begin", "end", "chain", "reject"}

\* start: begin options were sent; commit: end = "commit"; params: the
\* statement has parameters, so it cannot share a batch.
ShapeType == [start : BOOLEAN, control : Controls, commit : BOOLEAN,
              params : BOOLEAN]
ASSUME CallsAssumption == Calls \subseteq ShapeType \X Lanes /\ OverlappingEnds \in BOOLEAN

VARIABLES
  req,            \* the shape and lane of each admitted call
  pc,             \* how far each call has come
  finishing,      \* the borrows sent a statement with end = "commit"
  at,             \* the batch of its script a call is at
  on,             \* the borrow whose client a call uses
  reply,          \* the reply to the last batch of a call, or of close()
  pins,           \* transactions: lane -> the borrow pinned to it
  failedStarts,   \* lanes whose BEGIN was never confirmed
  wire,           \* the batches sent to each client, oldest first
  txn,            \* server: the transaction state of each client's session
  closer,         \* how far close() has come
  closerLane,     \* the lane close() is returning
  cleanupFailed   \* cleanupFailures is not empty

adapterVars == <<req, pc, finishing, at, on, reply, pins, failedStarts, wire, txn,
                 closer, closerLane, cleanupFailed>>
vars == <<poolVars, adapterVars>>

(***************************************************************************)
(* How a call proceeds: it waits for a client (open: for a new transaction *)
(* auto: for one statement), or sends to a pinned one; rollback is a late  *)
(* open giving its transaction up.                                         *)
(***************************************************************************)
CallStates == {"idle", "open-wait", "auto-wait", "open", "auto",
               "pinned", "rollback", "settled"}
CloserStates == {"none", "draining", "returning", "rolling", "ending",
                 "closed", "failed"}
Senders == Requests \cup {Closer}
NoTxn   == [mode |-> "idle", lane |-> None]

adapterClosing == closer # "none"
PinsCollected  == closer \notin {"none", "draining"}
Settled(r)  == pc[r] \in {"idle", "settled"}
Opening(l)  == \E r \in Requests : /\ pc[r] \in {"open-wait", "open", "rollback"}
                                   /\ req[r].lane = l
EndKind(q)  == q.control \in {"end", "chain"}
Terminal(q) == EndKind(q) \/ q.commit
Opens(q)    == q.start \/ q.control = "begin"

-----------------------------------------------------------------------------
(***************************************************************************)
(* The batches of a call.  One command is "begin", "work" (an ordinary     *)
(* statement), "end" (COMMIT or ROLLBACK) or "chain" (either, AND CHAIN).  *)
(***************************************************************************)
Command(q) == IF q.control = "other" THEN "work" ELSE q.control

\* execute(): the statement and, for end = "commit", its COMMIT.
Execute(q) ==
  IF ~q.commit THEN << <<Command(q)>> >>
  ELSE IF q.params THEN << <<Command(q)>>, <<"end">> >>
  ELSE << <<Command(q), "end">> >>

\* An open with begin options that is refused after its BEGIN.
RefusedAfterBegin(q) == q.start /\ q.control \in {"begin", "reject"}

Script(q) ==
  IF ~q.start THEN Execute(q)
  ELSE IF q.control = "other" /\ ~q.params
       THEN << <<"begin">> \o Execute(q)[1] >>
  ELSE IF RefusedAfterBegin(q) THEN << <<"begin">> >>
  ELSE << <<"begin">> >> \o Execute(q)

-----------------------------------------------------------------------------
(***************************************************************************)
(* The server (external): a session is idle, in a transaction, or in one   *)
(* that failed.  A batch stops at its first failing command; a failing     *)
(* COMMIT has ended its transaction.                                       *)
(***************************************************************************)
MaySucceed(cmd, mode) == CASE cmd = "end"   -> TRUE
                           [] cmd = "chain" -> mode # "idle"
                           [] OTHER         -> mode # "aborted"

Succeeds(cmd, mode) == CASE cmd = "work" -> mode
                         [] cmd = "end"  -> "idle"
                         [] OTHER        -> "open"

Fails(cmd, mode) ==
  IF cmd \in {"end", "chain"} \/ mode = "idle" THEN "idle" ELSE "aborted"

Modes == {"idle", "open", "aborted"}

\* The replies the server may give to a batch, and the session's next mode: the
\* first n commands succeed, taking the session through the modes m.
Outcomes(batch, mode) ==
  {o \in {"ok", "err"} \X Modes :
     \E n \in 0 .. Len(batch), m \in [0 .. Len(batch) -> Modes] :
       /\ m[0] = mode
       /\ \A i \in 1 .. n : MaySucceed(batch[i], m[i-1]) /\ m[i] = Succeeds(batch[i], m[i-1])
       /\ o = IF n = Len(batch) THEN <<"ok", m[n]>> ELSE <<"err", Fails(batch[n+1], m[n])>>}

\* The batch a sender has on the wire, and the lane it speaks for.
BatchOf(x) == IF x = Closer \/ pc[x] = "rollback" THEN <<"end">>
              ELSE Script(req[x])[at[x]]
LaneOf(x)  == IF x = Closer THEN closerLane ELSE req[x].lane

\* A failed connection rejects what is sent to it and executes nothing.
ServerStep(c) ==
  /\ wire[c] # <<>>
  /\ LET x == Head(wire[c])
     IN \E outcome \in IF c \in broken THEN {<<"err", txn[c].mode>>}
                       ELSE Outcomes(BatchOf(x), txn[c].mode) :
          /\ reply' = [reply EXCEPT ![x] = outcome[1]]
          /\ txn' = [txn EXCEPT ![c] =
                       IF outcome[2] = "idle" THEN NoTxn
                       ELSE [mode |-> outcome[2],
                             lane |-> IF txn[c].mode = "idle" THEN LaneOf(x)
                                      ELSE txn[c].lane]]
  /\ wire' = [wire EXCEPT ![c] = Tail(@)]
  /\ UNCHANGED <<poolVars, req, pc, finishing, at, on, pins, failedStarts,
                 closer, closerLane, cleanupFailed>>

\* Put x's next batch on the wire of borrow b's client.
Send(x, b) ==
  /\ wire' = [wire EXCEPT ![clientOf[b]] = Append(@, x)]
  /\ reply' = [reply EXCEPT ![x] = "none"]

\* A destroyed connection takes its session and what was sent to it along;
\* the caller of the step, x, has no use for its reply any more.
LoseDestroyed(x) ==
  LET gone == (out \ out') \ idle'
      lost == {y \in Senders : \E c \in gone : y \in ToSet(wire[c])}
  IN /\ wire' = [c \in Clients |-> IF c \in gone THEN <<>> ELSE wire[c]]
     /\ txn' = [c \in Clients |-> IF c \in gone THEN NoTxn ELSE txn[c]]
     /\ reply' = [y \in Senders |-> IF y = x THEN "none"
                                    ELSE IF y \in lost THEN "err" ELSE reply[y]]

\* The promise of a call settles, one way or the other.
Settle(r) ==
  /\ pc' = [pc EXCEPT ![r] = "settled"]
  /\ req' = [req EXCEPT ![r] = None]
  /\ at' = [at EXCEPT ![r] = 1]
  /\ on' = [on EXCEPT ![r] = None]

GoTo(r, s) == pc' = [pc EXCEPT ![r] = s]

\* Mutant: the lane keeps the pin of a client that was given back.
KeepPin(l) == pins' = pins

Unpin(l)   == pins' = [pins EXCEPT ![l] = None]

\* release(destroy) of a borrow that is still held, in a step of x.
Releases(x, b, destroy, ok) ==
  /\ IF ok THEN ReleaseOk(b, destroy) ELSE ReleaseThrows(b)
  /\ LoseDestroyed(x)

\* A step that only settles r.
SettlesOnly(r) ==
  /\ Settle(r)
  /\ reply' = [reply EXCEPT ![r] = "none"]
  /\ UNCHANGED <<poolVars, wire, txn>>

closeVars == <<closer, closerLane, cleanupFailed>>

AdapterInit ==
  /\ PoolInit
  /\ req = [r \in Requests |-> None]
  /\ pc = [r \in Requests |-> "idle"]
  /\ finishing = {}
  /\ at = [r \in Requests |-> 1]
  /\ on = [r \in Requests |-> None]
  /\ reply = [x \in Senders |-> "none"]
  /\ pins = [l \in Lanes |-> None]
  /\ failedStarts = {}
  /\ wire = [c \in Clients |-> <<>>]
  /\ txn = [c \in Clients |-> NoTxn]
  /\ closer = "none" /\ closerLane = None /\ cleanupFailed = FALSE

-----------------------------------------------------------------------------
(***************************************************************************)
(* The callers.  The workload sends the statements of a named lane one by  *)
(* one (workload.ts:326-339), unlaned ones as they come; after a statement *)
(* with end = "commit" a lane only sends its rollback (client/index.ts).   *)
(***************************************************************************)
Admissible(r, q, l) ==
  /\ pc[r] = "idle"
  /\ \A s \in Requests : s < r => pc[s] # "idle"
  /\ l # DefaultLane =>
       /\ \A s \in Requests : ~Settled(s) => req[s].lane # l
       /\ pins[l] \in finishing => EndKind(q)
  /\ ~OverlappingEnds /\ l = DefaultLane /\ Terminal(q) =>
       \A s \in Requests :
          pc[s] = "pinned" /\ req[s].lane = l => ~Terminal(req[s])

Admit(r, q, l, borrow) ==
  /\ req' = [req EXCEPT ![r] = [lane |-> l, start |-> q.start, control |-> q.control,
                                commit |-> q.commit, params |-> q.params]]
  /\ on' = [on EXCEPT ![r] = borrow]
  /\ finishing' = IF q.commit THEN finishing \cup {borrow} ELSE finishing

\* Mutant: a lane whose BEGIN was never confirmed takes more statements.
RefusedIgnoringFailedStart(q, l) ==
  IF Opens(q) THEN pins[l] # None \/ Opening(l)
  ELSE \/ q.control = "reject"
       \/ pins[l] = None /\ l # DefaultLane

\* What query() throws at once, besides being closed.
Refused(q, l) ==
  IF Opens(q) THEN pins[l] # None \/ Opening(l)
  ELSE \/ q.control = "reject"
       \/ IF pins[l] # None THEN l \in failedStarts /\ ~EndKind(q)
          ELSE l # DefaultLane

CallRefused(r, q, l) ==
  /\ Admissible(r, q, l)
  /\ adapterClosing \/ Refused(q, l)
  /\ SettlesOnly(r)
  /\ UNCHANGED <<finishing, pins, failedStarts, closeVars>>

\* Opening a transaction, or an unlaned statement with nothing pinned: the
\* call waits for a client of its own.
CallConnects(r, q, l) ==
  /\ Admissible(r, q, l)
  /\ ~adapterClosing /\ ~Refused(q, l)
  /\ Opens(q) \/ pins[l] = None
  /\ Connect(r)
  /\ Admit(r, q, l, r)
  /\ GoTo(r, IF Opens(q) THEN "open-wait" ELSE "auto-wait")
  /\ UNCHANGED <<at, reply, pins, failedStarts, wire, txn, closeVars>>

\* A statement of a pinned lane; the batch goes out before any other event.
CallPinned(r, q, l) ==
  /\ Admissible(r, q, l)
  /\ ~adapterClosing /\ ~Refused(q, l)
  /\ ~Opens(q) /\ pins[l] # None
  /\ Admit(r, q, l, pins[l])
  /\ GoTo(r, "pinned")
  /\ Send(r, pins[l])
  /\ UNCHANGED <<poolVars, at, pins, failedStarts, txn, closeVars>>

-----------------------------------------------------------------------------
\* The pool hands the client over: the call sends its first batch.
Resume(r) ==
  /\ pc[r] \in {"open-wait", "auto-wait"}
  /\ Expose(r)
  /\ GoTo(r, IF pc[r] = "open-wait" THEN "open" ELSE "auto")
  /\ Send(r, r)
  /\ UNCHANGED <<req, finishing, at, on, pins, failedStarts, txn, closeVars>>

\* pool.connect() rejects: the checkout failed.
ConnectFails(r) ==
  /\ CheckoutFails(r)
  /\ Settle(r)
  /\ UNCHANGED <<finishing, reply, wire, txn, pins, failedStarts, closeVars>>

\* pool.connect() rejects: the checkout came after the pool's end().
ConnectIsLate(r) ==
  /\ LateCheckout(r)
  /\ LoseDestroyed(r)
  /\ Settle(r)
  /\ UNCHANGED <<finishing, pins, failedStarts, closeVars>>

\* A call with batches left sends the next one.
NextBatch(r) ==
  /\ pc[r] \in {"open", "auto", "pinned"}
  /\ reply[r] = "ok"
  /\ at[r] < Len(Script(req[r]))
  /\ at' = [at EXCEPT ![r] = @ + 1]
  /\ Send(r, on[r])
  /\ UNCHANGED <<poolVars, req, finishing, pc, on, pins, failedStarts, txn,
                 closeVars>>

Completed(r) == reply[r] = "ok" /\ at[r] = Len(Script(req[r]))

-----------------------------------------------------------------------------
OpenSucceeded(r) == pc[r] = "open" /\ Completed(r) /\ ~RefusedAfterBegin(req[r])
OpenFailed(r)    == /\ pc[r] = "open"
                    /\ \/ reply[r] = "err"
                       \/ Completed(r) /\ RefusedAfterBegin(req[r])

\* The statement that opened the transaction also ended it.
EndsAtOnce(q) == q.commit \/ (q.start /\ q.control = "end")

\* Mutant: an open that completes during close() still adds a pin.
OpenPinsWhileClosing(r) ==
  /\ OpenSucceeded(r) /\ ~EndsAtOnce(req[r])
  /\ pins' = [pins EXCEPT ![req[r].lane] = r]
  /\ SettlesOnly(r)
  /\ UNCHANGED <<finishing, failedStarts, closeVars>>

OpenPins(r) ==
  /\ OpenSucceeded(r) /\ ~EndsAtOnce(req[r])
  /\ ~adapterClosing
  /\ pins' = [pins EXCEPT ![req[r].lane] = r]
  /\ SettlesOnly(r)
  /\ UNCHANGED <<finishing, failedStarts, closeVars>>

OpenReleases(r, ok) ==
  /\ OpenSucceeded(r) /\ EndsAtOnce(req[r])
  /\ ~adapterClosing
  /\ Releases(r, r, FALSE, ok)
  /\ Settle(r)
  /\ UNCHANGED <<finishing, pins, failedStarts, closeVars>>

\* A late successful open owns its rollback instead of adding a pin.
OpenIsLate(r) ==
  /\ OpenSucceeded(r)
  /\ adapterClosing
  /\ GoTo(r, "rollback")
  /\ Send(r, r)
  /\ UNCHANGED <<poolVars, req, finishing, at, on, pins, failedStarts, txn,
                 closeVars>>

CleanupOutcome(ok) == cleanupFailed' = (cleanupFailed \/ ~ok)

LateOpenReturns(r, ok) ==
  /\ pc[r] = "rollback" /\ reply[r] # "none"
  /\ Releases(r, r, reply[r] = "err", ok)
  /\ Settle(r)
  /\ CleanupOutcome(ok)
  /\ UNCHANGED <<finishing, pins, failedStarts, closer, closerLane>>

\* beginConfirmed: a BEGIN of its own has succeeded.
Confirmed(r) == Script(req[r])[1] = <<"begin">> /\ (at[r] > 1 \/ reply[r] = "ok")

KeepsFailedOpen(r) == req[r].start /\ ~adapterClosing /\ ~EndKind(req[r])

\* A failed open with begin options keeps its client pinned for the rollback.
OpenFailsPinned(r) ==
  /\ OpenFailed(r) /\ KeepsFailedOpen(r)
  /\ pins' = [pins EXCEPT ![req[r].lane] = r]
  /\ failedStarts' = IF Confirmed(r) THEN failedStarts
                     ELSE failedStarts \cup {req[r].lane}
  /\ SettlesOnly(r)
  /\ UNCHANGED <<finishing, closeVars>>

\* Mutant: the client of a failed open goes back as it is.
OpenFailsReusing(r, ok) ==
  /\ OpenFailed(r) /\ ~KeepsFailedOpen(r)
  /\ Releases(r, r, FALSE, ok)
  /\ Settle(r)
  /\ CleanupOutcome(ok \/ ~adapterClosing)
  /\ UNCHANGED <<finishing, pins, failedStarts, closer, closerLane>>

OpenFailsReleased(r, ok) ==
  /\ OpenFailed(r) /\ ~KeepsFailedOpen(r)
  /\ Releases(r, r, TRUE, ok)
  /\ Settle(r)
  /\ CleanupOutcome(ok \/ ~adapterClosing)
  /\ UNCHANGED <<finishing, pins, failedStarts, closer, closerLane>>

-----------------------------------------------------------------------------
EndsPin(q) == q.commit \/ q.control = "end"

\* A terminal statement, successful or not, clears the lane's failed start.
ClearFailedStart(r) ==
  failedStarts' = IF EndKind(req[r]) THEN failedStarts \ {req[r].lane}
                  ELSE failedStarts

\* An ordinary statement of a pinned lane, or a COMMIT AND CHAIN, is done; a
\* failed one leaves its transaction to the lane's rollback.
PinnedContinues(r) ==
  /\ pc[r] = "pinned"
  /\ \/ Completed(r) /\ ~EndsPin(req[r])
     \/ reply[r] = "err" /\ ~EndKind(req[r])
  /\ ClearFailedStart(r)
  /\ SettlesOnly(r)
  /\ UNCHANGED <<finishing, pins, closeVars>>

\* The statement ended the transaction: unpin the lane, then release().  If
\* that throws after a COMMIT or ROLLBACK, release(true) is tried.
PinnedEnds(r, ok) ==
  /\ pc[r] = "pinned" /\ Completed(r) /\ EndsPin(req[r])
  /\ state[on[r]] = "held"
  /\ Unpin(req[r].lane)
  /\ ClearFailedStart(r)
  /\ \/ Releases(r, on[r], FALSE, ok)
     \/ EndKind(req[r]) /\ on[r] \in Throwing /\ Releases(r, on[r], TRUE, ok)
  /\ Settle(r)
  /\ UNCHANGED <<finishing, closeVars>>

\* Mutant: a failed terminal statement drops its pin without a release.
PinnedEndFailsUnreleased(r, ok) ==
  /\ pc[r] = "pinned" /\ reply[r] = "err" /\ EndKind(req[r])
  /\ Unpin(req[r].lane)
  /\ ClearFailedStart(r)
  /\ SettlesOnly(r)
  /\ UNCHANGED <<finishing, closeVars>>

\* A failed COMMIT or ROLLBACK gives the pin up and destroys its client.
PinnedEndFails(r, ok) ==
  /\ pc[r] = "pinned" /\ reply[r] = "err" /\ EndKind(req[r])
  /\ state[on[r]] = "held"
  /\ Unpin(req[r].lane)
  /\ ClearFailedStart(r)
  /\ Releases(r, on[r], TRUE, ok)
  /\ Settle(r)
  /\ UNCHANGED <<finishing, closeVars>>

\* The client was already returned by another terminal statement of the
\* lane: the lane's pin is dropped all the same, and the release throws.
PinnedEndsTwice(r) ==
  /\ pc[r] = "pinned"
  /\ \/ EndsPin(req[r]) /\ Completed(r)
     \/ EndKind(req[r]) /\ reply[r] = "err"
  /\ DuplicateRelease(on[r])
  /\ Unpin(req[r].lane)
  /\ ClearFailedStart(r)
  /\ SettlesOnly(r)
  /\ UNCHANGED <<finishing, closeVars>>

\* An unlaned statement outside a transaction always releases its client.
AutoReturns(r, ok) ==
  /\ pc[r] = "auto"
  /\ Completed(r) \/ reply[r] = "err"
  /\ Releases(r, r, FALSE, ok)
  /\ Settle(r)
  /\ UNCHANGED <<finishing, pins, failedStarts, closeVars>>

-----------------------------------------------------------------------------
callVars == <<req, finishing, pc, at, on>>

\* close(): seal admission, then wait for the admitted pinned statements.
Close ==
  /\ closer = "none"
  /\ closer' = "draining"
  /\ UNCHANGED <<poolVars, callVars, reply, pins, failedStarts, wire, txn,
                 closerLane, cleanupFailed>>

\* Mutant: the pins are collected without waiting for admitted statements.
NoWaitForPinned == TRUE

\* Mutant: close() waits for the queued opens before it returns the pins.
PinnedAndOpensSettled ==
  \A r \in Requests : pc[r] \notin {"pinned", "open-wait", "open", "rollback"}

PinnedSettled == \A r \in Requests : pc[r] # "pinned"

CloseDrained ==
  /\ closer = "draining"
  /\ PinnedSettled
  /\ closer' = "returning"
  /\ UNCHANGED <<poolVars, callVars, reply, pins, failedStarts, wire, txn,
                 closerLane, cleanupFailed>>

\* returnTransaction() of the next pinned lane: ROLLBACK, then release.
CloseRollback(l) ==
  /\ closer = "returning"
  /\ pins[l] # None
  /\ closer' = "rolling" /\ closerLane' = l
  /\ Send(Closer, pins[l])
  /\ UNCHANGED <<poolVars, callVars, pins, failedStarts, txn, cleanupFailed>>

CloseReturns(ok) ==
  /\ closer = "rolling" /\ reply[Closer] # "none"
  /\ Releases(Closer, pins[closerLane], reply[Closer] = "err", ok)
  /\ Unpin(closerLane)
  /\ failedStarts' = failedStarts \ {closerLane}
  /\ CleanupOutcome(ok)
  /\ closer' = "returning" /\ closerLane' = None
  /\ UNCHANGED callVars

\* No pin is left: the pool's end().
CloseEndsPool ==
  /\ closer = "returning"
  /\ \A l \in Lanes : pins[l] = None
  /\ End
  /\ closer' = "ending"
  /\ UNCHANGED <<callVars, reply, pins, failedStarts, wire, txn, closerLane,
                 cleanupFailed>>

\* The pool's end() failed, or it and every open have settled.
CloseSettles ==
  /\ closer = "ending"
  /\ \/ endTask \in {"none", "endFailed"} /\ closer' = "failed"
     \/ /\ endTask = "ended"
        /\ \A l \in Lanes : ~Opening(l)
        /\ closer' = IF cleanupFailed THEN "failed" ELSE "closed"
  /\ UNCHANGED <<poolVars, callVars, reply, pins, failedStarts, wire, txn,
                 closerLane, cleanupFailed>>

-----------------------------------------------------------------------------
\* The pool's and the provider's own steps.
ProviderCheckout(r) ==
  /\ \E c \in Clients : Checkout(r, c)
  /\ UNCHANGED adapterVars

ConnectionFails(b) == Fault(b) /\ UNCHANGED adapterVars

PoolEnds ==
  /\ (\E S \in SUBSET failedReturns : EndPass(S)) \/ RawEnd
  /\ LoseDestroyed(None)
  /\ UNCHANGED <<callVars, pins, failedStarts, closeVars>>

Call(r, q, l) ==
  CallRefused(r, q, l) \/ CallConnects(r, q, l) \/ CallPinned(r, q, l)

\* What the code does when a client or a reply arrives.
Continue(r) ==
  \/ Resume(r) \/ ConnectIsLate(r) \/ NextBatch(r)
  \/ OpenPins(r) \/ OpenIsLate(r) \/ OpenFailsPinned(r)
  \/ PinnedContinues(r) \/ PinnedEndsTwice(r)
  \/ \E ok \in BOOLEAN :
       \/ OpenReleases(r, ok) \/ OpenFailsReleased(r, ok) \/ LateOpenReturns(r, ok)
       \/ PinnedEnds(r, ok) \/ PinnedEndFails(r, ok) \/ AutoReturns(r, ok)

CloseStep ==
  \/ CloseDrained \/ CloseEndsPool \/ CloseSettles
  \/ \E l \in Lanes : CloseRollback(l)
  \/ \E ok \in BOOLEAN : CloseReturns(ok)

AdapterNext ==
  \/ \E r \in Requests, call \in Calls : Call(r, call[1], call[2])
  \/ \E r \in Requests : \/ Continue(r) \/ ConnectFails(r)
                       \/ ProviderCheckout(r) \/ ConnectionFails(r)
  \/ \E c \in Clients : ServerStep(c)
  \/ Close \/ CloseStep \/ PoolEnds

Spec == AdapterInit /\ [][AdapterNext]_vars

(***************************************************************************)
(* Fairness: the server answers, the provider serves a checkout it has a   *)
(* slot for, the event loop runs what is runnable.  Nobody has to call     *)
(* anything: a transaction may stay open for ever.  Nor does a checkout    *)
(* have to fail: without a free slot it waits.                             *)
(***************************************************************************)
Fairness ==
  /\ \A r \in Requests : WF_vars(Continue(r)) /\ WF_vars(ProviderCheckout(r))
  /\ \A c \in Clients : WF_vars(ServerStep(c))
  /\ WF_vars(CloseStep) /\ WF_vars(PoolEnds)

FairSpec == Spec /\ Fairness

-----------------------------------------------------------------------------
AdapterTypeOK ==
  /\ TypeOK
  /\ \A r \in Requests :
       req[r] = None \/ /\ req[r].lane \in Lanes
                        /\ [f \in {"start", "control", "commit", "params"} |->
                              req[r][f]] \in ShapeType
  /\ pc \in [Requests -> CallStates]
  /\ finishing \subseteq Requests
  /\ at \in [Requests -> 1..3]
  /\ on \in [Requests -> Requests \cup {None}]
  /\ reply \in [Senders -> {"none", "ok", "err"}]
  /\ pins \in [Lanes -> Requests \cup {None}]
  /\ failedStarts \subseteq Lanes
  /\ wire \in [Clients -> Seq(Senders)]
  /\ txn \in [Clients -> [mode : Modes, lane : Lanes \cup {None}]]
  /\ closer \in CloserStates
  /\ closerLane \in Lanes \cup {None}
  /\ cleanupFailed \in BOOLEAN

(***************************************************************************)
(* No client is lost: one that is checked out has an unsettled call that   *)
(* will return it, is pinned to a lane, or is in the pool's failed         *)
(* returns.  "close owns every admitted open" (db.ts:580-581).             *)
(***************************************************************************)
EveryClientHasAnOwner ==
  \A b \in Requests : state[b] = "held" =>
     \/ pc[b] \in {"open", "auto", "rollback"}
     \/ \E l \in Lanes : pins[l] = b
     \/ b \in failedReturns

(***************************************************************************)
(* A pinned client is checked out and belongs to one lane: no path         *)
(* releases it and leaves the pin (db.ts:625, 657, 679-691, 735-743).      *)
(***************************************************************************)
PinsHoldTheirClient ==
  \A l \in Lanes : pins[l] # None =>
     /\ state[pins[l]] = "held"
     /\ \A k \in Lanes : pins[k] = pins[l] => k = l

(***************************************************************************)
(* A client never goes back to the pool with a transaction in progress,    *)
(* and no command is executed in a transaction another lane began, whether *)
(* it was committed, failed, given up late or rolled back by close()       *)
(* (db.ts:621-660, 718-727).                                               *)
(***************************************************************************)
SessionsAreIsolated ==
  /\ \A c \in idle : txn[c].mode = "idle"
  /\ \A c \in Clients : wire[c] # <<>> /\ txn[c].mode # "idle" =>
        LaneOf(Head(wire[c])) = txn[c].lane

(***************************************************************************)
(* A statement of a named transaction is never executed on its own: a lane *)
(* whose BEGIN may not have run takes only its end ("never allow           *)
(* autocommit", db.ts:626-628, 670-674).                                   *)
(***************************************************************************)
NoAutocommitInTransaction ==
  \A c \in Clients : wire[c] # <<>> /\ c \notin broken =>
     LET x == Head(wire[c])
     IN x # Closer /\ pc[x] = "pinned" /\ LaneOf(x) # DefaultLane
          /\ BatchOf(x)[1] = "work" => txn[c].mode # "idle"

(***************************************************************************)
(* close() rolls a lane back only when every statement admitted to it has  *)
(* settled: an admitted COMMIT decides before the rollback is sent         *)
(* (db.ts:733-734).                                                        *)
(***************************************************************************)
RollbackComesLast ==
  closer = "rolling" =>
     \A r \in Requests : pc[r] = "pinned" => on[r] # pins[closerLane]

(***************************************************************************)
(* Once close() has collected its pins no lane is pinned again: a late     *)
(* open returns its own client (db.ts:642-650).                            *)
(***************************************************************************)
NoPinAfterDrain ==
  [][PinsCollected =>
       \A l \in Lanes : pins'[l] = pins[l] \/ pins'[l] = None]_vars

(***************************************************************************)
(* A successful close() has returned everything: the provider is ended     *)
(* with no client out and no return, rollback or open outstanding          *)
(* (db.ts:729-764).                                                        *)
(***************************************************************************)
ClosedMeansReturned ==
  closer = "closed" =>
     /\ out = {} /\ failedReturns = {} /\ endTask = "ended"
     /\ \A r \in Requests : Settled(r)

(***************************************************************************)
(* close() always ends, whatever lanes are open and however many opens are *)
(* queued behind them for the pool's capacity (ARCHITECTURE.md:388-393).   *)
(***************************************************************************)
CloseTerminates == closer # "none" ~> closer \in {"closed", "failed"}
=============================================================================
