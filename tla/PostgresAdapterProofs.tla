----------------------- MODULE PostgresAdapterProofs -----------------------
(***************************************************************************)
(* The adapter is a legal user of the pool for every value of the          *)
(* constants, so what is proved of the pool holds in it.                   *)
(***************************************************************************)
EXTENDS PostgresAdapter, AccountedPgPoolProofs, SequenceTheorems

(***************************************************************************)
(* The inductive invariant: a call that uses a client, and close() while   *)
(* it rolls a lane back, refer to a borrow; and when the pins have been    *)
(* collected no statement of a pinned lane is under way, which is what     *)
(* keeps the pin that close() is returning from going away under it.       *)
(***************************************************************************)
PinsTypeOK ==
  /\ pc \in [Requests -> CallStates]
  /\ on \in [Requests -> Requests \cup {None}]
  /\ pins \in [Lanes -> Requests \cup {None}]

CallsUseBorrows ==
  \A r \in Requests :
    pc[r] \notin {"idle", "settled"} => on[r] \in Requests

RollingHasPin == closer = "rolling" => closerLane \in Lanes /\ pins[closerLane] # None

PinnedAreDrained == PinsCollected => \A r \in Requests : pc[r] # "pinned"

PinsInv == PinsTypeOK /\ CallsUseBorrows /\ RollingHasPin /\ PinnedAreDrained

(***************************************************************************)
(* release(destroy), whether it throws or not, is a call of the pool       *)
(* (pool-capacity.ts:92-115).                                              *)
(***************************************************************************)
LEMMA ReleasesArePoolSteps ==
  ASSUME NEW x, NEW b \in Borrows, NEW destroy \in BOOLEAN, NEW ok \in BOOLEAN,
         Releases(x, b, destroy, ok)
  PROVE  PoolNext
  BY DEF Releases, PoolNext, PoolCalls, Release

(***************************************************************************)
(* Whatever an admitted call does when a client or a reply arrives is a    *)
(* step of the pool or leaves it alone (db.ts:555-712).                    *)
(***************************************************************************)
LEMMA ContinueIsPoolStep ==
  ASSUME NEW r \in Requests, PinsInv, Continue(r)
  PROVE  PoolNext \/ UNCHANGED poolVars
<1> USE RequestsAssumption
<1>1. CASE Resume(r)
  BY <1>1 DEF Resume, PoolNext, PoolInternal
<1>2. CASE ConnectIsLate(r)
  BY <1>2 DEF ConnectIsLate, PoolNext, PoolInternal
<1>3. CASE NextBatch(r) \/ OpenPins(r) \/ OpenIsLate(r) \/ OpenFailsPinned(r)
           \/ PinnedContinues(r)
  BY <1>3 DEF NextBatch, OpenPins, OpenIsLate, OpenFailsPinned, PinnedContinues,
              SettlesOnly, poolVars
<1>4. CASE PinnedEndsTwice(r)
  BY <1>4 DEF PinnedEndsTwice, DuplicateRelease
<1>5. ASSUME NEW ok \in BOOLEAN,
             \/ OpenReleases(r, ok) \/ OpenFailsReleased(r, ok)
             \/ LateOpenReturns(r, ok) \/ AutoReturns(r, ok)
      PROVE  PoolNext
  BY <1>5, ReleasesArePoolSteps
  DEF OpenReleases, OpenFailsReleased, LateOpenReturns, AutoReturns
<1>6. ASSUME NEW ok \in BOOLEAN, PinnedEnds(r, ok) \/ PinnedEndFails(r, ok)
      PROVE  PoolNext
  <2>1. PICK destroy \in BOOLEAN : Releases(r, on[r], destroy, ok)
    BY <1>6 DEF PinnedEnds, PinnedEndFails
  <2>2. on[r] \in Borrows
    BY <1>6 DEF PinnedEnds, PinnedEndFails, PinsInv, CallsUseBorrows
  <2> QED BY <2>1, <2>2, ReleasesArePoolSteps
<1> QED BY <1>1, <1>2, <1>3, <1>4, <1>5, <1>6 DEF Continue

(***************************************************************************)
(* So is every step of close(): the rollback it sends is for a pinned      *)
(* client, which it then releases (db.ts:729-764).                         *)
(***************************************************************************)
LEMMA CloseStepIsPoolStep ==
  ASSUME PinsInv, CloseStep
  PROVE  PoolNext \/ UNCHANGED poolVars
<1> USE RequestsAssumption
<1>1. CASE CloseDrained \/ CloseSettles \/ \E l \in Lanes : CloseRollback(l)
  BY <1>1 DEF CloseDrained, CloseSettles, CloseRollback
<1>2. CASE CloseEndsPool
  BY <1>2 DEF CloseEndsPool, PoolNext, PoolCalls
<1>3. ASSUME NEW ok \in BOOLEAN, CloseReturns(ok)
      PROVE  PoolNext
  <2>1. pins[closerLane] \in Borrows
    BY <1>3 DEF CloseReturns, PinsInv, PinsTypeOK, RollingHasPin
  <2>2. Releases(Closer, pins[closerLane], reply[Closer] = "err", ok)
    BY <1>3 DEF CloseReturns
  <2>3. (reply[Closer] = "err") \in BOOLEAN
    OBVIOUS
  <2> QED BY <2>1, <2>2, <2>3, ReleasesArePoolSteps
<1> QED BY <1>1, <1>2, <1>3 DEF CloseStep

(***************************************************************************)
(* Every step of the adapter is a step of the pool or leaves it alone.     *)
(***************************************************************************)
LEMMA AdapterStepIsPoolStep ==
  ASSUME PinsInv, [AdapterNext]_vars
  PROVE  [PoolNext]_poolVars
<1> USE RequestsAssumption
<1>1. CASE UNCHANGED vars
  BY <1>1 DEF vars
<1>2. ASSUME NEW r \in Requests, NEW q, NEW l, Call(r, q, l)
      PROVE  [PoolNext]_poolVars
  BY <1>2 DEF Call, CallRefused, CallConnects, CallPinned, SettlesOnly,
              PoolNext, PoolCalls
<1>3. ASSUME NEW r \in Requests,
             Continue(r) \/ ConnectFails(r) \/ ProviderCheckout(r) \/ ConnectionFails(r)
      PROVE  [PoolNext]_poolVars
  BY <1>3, ContinueIsPoolStep
  DEF ConnectFails, ProviderCheckout, ConnectionFails, PoolNext, PoolInternal
<1>4. ASSUME NEW c \in Clients, ServerStep(c)
      PROVE  [PoolNext]_poolVars
  BY <1>4 DEF ServerStep
<1>5. CASE Close
  BY <1>5 DEF Close
<1>6. CASE CloseStep
  BY <1>6, CloseStepIsPoolStep
<1>7. CASE PoolEnds
  BY <1>7 DEF PoolEnds, PoolNext, PoolInternal
<1> QED BY <1>1, <1>2, <1>3, <1>4, <1>5, <1>6, <1>7 DEF AdapterNext
-----------------------------------------------------------------------------
(***************************************************************************)
(* Steps of the calls preserve the invariant (db.ts:555-712).              *)
(***************************************************************************)
LEMMA CallPreservesPins ==
  ASSUME PinsInv, NEW r \in Requests, NEW q, NEW l \in Lanes, Call(r, q, l)
  PROVE  PinsInv'
<1> USE DEF PinsInv, PinsTypeOK, CallsUseBorrows, RollingHasPin, PinnedAreDrained,
            PinsCollected, CallStates, closeVars
<1>1. CASE CallRefused(r, q, l)
  BY <1>1 DEF CallRefused, SettlesOnly, Settle
<1>2. CASE CallConnects(r, q, l)
  BY <1>2 DEF CallConnects, Admit, GoTo
<1>3. CASE CallPinned(r, q, l)
  <2>1. pins[l] \in Requests /\ ~adapterClosing
    BY <1>3 DEF CallPinned
  <2> QED BY <1>3, <2>1 DEF CallPinned, Admit, GoTo, adapterClosing
<1> QED BY <1>1, <1>2, <1>3 DEF Call

LEMMA ContinuePreservesPins ==
  ASSUME PinsInv, NEW r \in Requests, Continue(r) \/ ConnectFails(r)
  PROVE  PinsInv'
<1> USE NamesAssumption, RequestsAssumption
    DEF PinsInv, PinsTypeOK, CallsUseBorrows, RollingHasPin, PinnedAreDrained,
        PinsCollected, CallStates, closeVars, Settle, GoTo, Unpin
<1>1. CASE Resume(r)
  BY <1>1 DEF Resume
<1>2. CASE ConnectIsLate(r) \/ ConnectFails(r)
  <2>1. /\ Settle(r)
        /\ UNCHANGED <<pins, closer, closerLane>>
    BY <1>2 DEF ConnectIsLate, ConnectFails
  <2> QED BY <2>1
<1>3. CASE NextBatch(r)
  BY <1>3 DEF NextBatch
<1>4. CASE OpenPins(r)
  BY <1>4 DEF OpenPins, SettlesOnly, adapterClosing
<1>5. CASE OpenIsLate(r)
  BY <1>5 DEF OpenIsLate, OpenSucceeded
<1>6. CASE OpenFailsPinned(r)
  BY <1>6 DEF OpenFailsPinned, SettlesOnly, KeepsFailedOpen, adapterClosing
<1>7. CASE PinnedContinues(r)
  BY <1>7 DEF PinnedContinues, SettlesOnly
<1>8. CASE PinnedEndsTwice(r)
  BY <1>8 DEF PinnedEndsTwice, SettlesOnly
<1>9. ASSUME NEW ok \in BOOLEAN,
             \/ OpenReleases(r, ok) \/ OpenFailsReleased(r, ok)
             \/ LateOpenReturns(r, ok) \/ AutoReturns(r, ok)
      PROVE  PinsInv'
  <2>1. /\ Settle(r)
        /\ UNCHANGED <<pins, closer, closerLane>>
    BY <1>9 DEF OpenReleases, OpenFailsReleased, LateOpenReturns, AutoReturns
  <2> QED BY <2>1
<1>10. ASSUME NEW ok \in BOOLEAN, PinnedEnds(r, ok) \/ PinnedEndFails(r, ok)
       PROVE  PinsInv'
  BY <1>10 DEF PinnedEnds, PinnedEndFails
<1> QED BY <1>1, <1>2, <1>3, <1>4, <1>5, <1>6, <1>7, <1>8, <1>9, <1>10 DEF Continue

(***************************************************************************)
(* close() preserves it: it collects pins only when no pinned statement is *)
(* under way, and admits none from its first step on (db.ts:562, 729-746). *)
(***************************************************************************)
LEMMA ClosePreservesPins ==
  ASSUME PinsInv, Close \/ CloseStep
  PROVE  PinsInv'
<1> USE NamesAssumption
    DEF PinsInv, PinsTypeOK, CallsUseBorrows, RollingHasPin, PinnedAreDrained,
        PinsCollected, callVars, Unpin
<1>1. CASE Close
  BY <1>1 DEF Close
<1>2. CASE CloseDrained
  BY <1>2 DEF CloseDrained, PinnedSettled
<1>3. CASE CloseEndsPool \/ CloseSettles
  BY <1>3 DEF CloseEndsPool, CloseSettles
<1>4. ASSUME NEW l \in Lanes, CloseRollback(l)
      PROVE  PinsInv'
  BY <1>4 DEF CloseRollback
<1>5. ASSUME NEW ok \in BOOLEAN, CloseReturns(ok)
      PROVE  PinsInv'
  BY <1>5 DEF CloseReturns
<1> QED BY <1>1, <1>2, <1>3, <1>4, <1>5 DEF CloseStep

(***************************************************************************)
(* The invariant of every execution.                                       *)
(***************************************************************************)
THEOREM AdapterInvariant == Spec => []PinsInv
<1>1. AdapterInit => PinsInv
  BY DEF AdapterInit, PinsInv, PinsTypeOK, CallsUseBorrows, RollingHasPin,
         PinnedAreDrained, PinsCollected, CallStates
<1>2. ASSUME PinsInv, [AdapterNext]_vars
      PROVE  PinsInv'
  <2>1. CASE UNCHANGED <<pc, on, pins, closer, closerLane>>
    BY <1>2, <2>1 DEF PinsInv, PinsTypeOK, CallsUseBorrows, RollingHasPin,
                      PinnedAreDrained, PinsCollected
  <2>2. ASSUME NEW r \in Requests, NEW call \in Calls, Call(r, call[1], call[2])
        PROVE  PinsInv'
    <3>1. call[2] \in Lanes
      BY CallsAssumption
    <3> QED BY <1>2, <2>2, <3>1, CallPreservesPins
  <2>3. ASSUME NEW r \in Requests, ProviderCheckout(r) \/ ConnectionFails(r)
        PROVE  PinsInv'
    BY <2>1, <2>3 DEF ProviderCheckout, ConnectionFails, adapterVars
  <2>4. ASSUME NEW c \in Clients, ServerStep(c)
        PROVE  PinsInv'
    BY <2>1, <2>4 DEF ServerStep
  <2>5. CASE PoolEnds
    BY <2>1, <2>5 DEF PoolEnds, callVars, closeVars
  <2>6. CASE UNCHANGED vars
    BY <2>1, <2>6 DEF vars, adapterVars
  <2> QED BY <1>2, <2>2, <2>3, <2>4, <2>5, <2>6, ContinuePreservesPins,
             ClosePreservesPins DEF AdapterNext
<1> QED BY <1>1, <1>2, PTL DEF Spec

(***************************************************************************)
(* close() rolls a lane back only when no statement admitted to it is      *)
(* under way (db.ts:733-734).                                              *)
(***************************************************************************)
THEOREM AdapterRollbackComesLast == Spec => []RollbackComesLast
<1>1. PinsInv => RollbackComesLast
  BY DEF PinsInv, PinnedAreDrained, PinsCollected, RollbackComesLast
<1> QED BY <1>1, AdapterInvariant, PTL

(***************************************************************************)
(* Once the pins have been collected no lane is pinned again               *)
(* (db.ts:642-650).                                                        *)
(***************************************************************************)
THEOREM AdapterNoPinAfterDrain == Spec => NoPinAfterDrain
<1> DEFINE Kept == \A l \in Lanes : pins'[l] = pins[l] \/ pins'[l] = None
<1>1. ASSUME PinsInv, [AdapterNext]_vars, PinsCollected
      PROVE  Kept
  <2>1. CASE pins' = pins
    BY <2>1
  <2>2. ASSUME NEW x, pins' = [pins EXCEPT ![x] = None]
        PROVE  Kept
    BY <1>1, <2>2 DEF PinsInv, PinsTypeOK
  <2>3. ASSUME NEW r \in Requests, Continue(r) \/ ConnectFails(r)
        PROVE  Kept
    BY <1>1, <2>1, <2>2, <2>3
    DEF PinsCollected, Continue, ConnectFails, Resume, ConnectIsLate, NextBatch,
        OpenPins, OpenIsLate, OpenFailsPinned, KeepsFailedOpen, PinnedContinues,
        PinnedEndsTwice, OpenReleases, OpenFailsReleased, LateOpenReturns,
        PinnedEnds, PinnedEndFails, AutoReturns, adapterClosing, Unpin
  <2>4. ASSUME NEW r \in Requests, NEW q, NEW l, Call(r, q, l)
        PROVE  Kept
    BY <2>1, <2>4 DEF Call, CallRefused, CallConnects, CallPinned
  <2>5. CASE Close \/ CloseStep
    BY <2>1, <2>2, <2>5
    DEF Close, CloseStep, CloseDrained, CloseEndsPool, CloseSettles, CloseRollback,
        CloseReturns, Unpin
  <2>6. CASE UNCHANGED vars
    BY <2>1, <2>6 DEF vars, adapterVars
  <2>7. ASSUME NEW r \in Requests, ProviderCheckout(r) \/ ConnectionFails(r)
        PROVE  Kept
    BY <2>1, <2>7 DEF ProviderCheckout, ConnectionFails, adapterVars
  <2>8. ASSUME NEW c \in Clients, ServerStep(c)
        PROVE  Kept
    BY <2>1, <2>8 DEF ServerStep
  <2>9. CASE PoolEnds
    BY <2>1, <2>9 DEF PoolEnds
  <2> QED BY <1>1, <2>3, <2>4, <2>5, <2>6, <2>7, <2>8, <2>9 DEF AdapterNext
<1>2. PinsInv /\ [AdapterNext]_vars => [PinsCollected => Kept]_vars
  BY <1>1
<1> QED BY <1>2, AdapterInvariant, PTL DEF Spec, NoPinAfterDrain

(***************************************************************************)
(* What is proved of the pool holds of the one below the adapter.          *)
(***************************************************************************)
LEMMA AdapterUsesPool == Spec => PoolSpec
<1>1. AdapterInit => PoolInit
  BY DEF AdapterInit
<1>2. PinsInv /\ [AdapterNext]_vars => [PoolNext]_poolVars
  BY AdapterStepIsPoolStep
<1> QED BY <1>1, <1>2, AdapterInvariant, PTL DEF Spec, PoolSpec

(***************************************************************************)
(* Whatever the adapter's calls and its close() do, including a second     *)
(* release() of a client by overlapping terminal statements, the           *)
(* provider's slots have one owner each (db.ts:679-691).                   *)
(***************************************************************************)
THEOREM AdapterSlotsAreOwned == Spec => []SlotsAreOwned
BY AdapterUsesPool, PoolSlotsAreOwned

(***************************************************************************)
(* The adapter's close() never starts the provider's end() while one of    *)
(* its calls, pins or failed returns still owns a client (db.ts:750-757).  *)
(***************************************************************************)
THEOREM AdapterDrainedBeforeEnd == Spec => []DrainedBeforeEnd
BY AdapterUsesPool, PoolDrainedBeforeEnd

-----------------------------------------------------------------------------
(***************************************************************************)
(* Who has each client: the calls under way, the lanes and the failed      *)
(* returns.  The parts of HoldInv say what a call was admitted with, that  *)
(* its own borrow is as far as the call, that a pin is the held borrow of  *)
(* a settled call, that a statement never uses another lane's pin, and     *)
(* that a lane is opened once.                                             *)
(***************************************************************************)
Admitted == [lane : Lanes, start : BOOLEAN, control : Controls, commit : BOOLEAN,
             params : BOOLEAN]

\* The calls under way have what they were admitted with.
AdmittedOK ==
  /\ req \in [Requests -> Admitted \cup {None}]
  /\ \A r \in Requests : ~Settled(r) => req[r] \in Admitted

\* The borrow of a call is as far as the call is.
OwnBorrows ==
  \A r \in Requests :
    /\ pc[r] \in {"idle", "pinned"} => state[r] = "none"
    /\ pc[r] \in {"open-wait", "auto-wait"} <=> state[r] \in {"connecting", "granted"}
    /\ pc[r] \in {"open", "auto", "rollback"} => state[r] = "held" /\ r \notin failedReturns

\* The borrow pinned to a lane is the one of a call that is over.
PinnedBorrows ==
  \A l \in Lanes : pins[l] # None =>
    /\ state[pins[l]] = "held" /\ pins[l] \notin failedReturns /\ pc[pins[l]] = "settled"
    /\ \A k \in Lanes : pins[k] = pins[l] => k = l

\* A statement of a lane uses a client that no other lane has.
StatementsOnPins ==
  \A r \in Requests : pc[r] = "pinned" =>
    pc[on[r]] = "settled" /\ \A l \in Lanes : pins[l] = on[r] => l = req[r].lane

Opener(r) == pc[r] \in {"open-wait", "open", "rollback"}

\* A lane is opened by one call at a time, and not while it has a client.
OpeningOK ==
  \A r \in Requests : Opener(r) =>
    /\ pins[req[r].lane] = None
    /\ \A s \in Requests : Opener(s) /\ req[s].lane = req[r].lane => s = r

HoldInv == AdmittedOK /\ OwnBorrows /\ PinnedBorrows /\ StatementsOnPins /\ OpeningOK

Ending(r) == pc[r] = "pinned" /\ Terminal(req[r])

\* Where ends do not overlap, the one under way has the client of its lane.
EndsOnPin ==
  \A r \in Requests : Ending(r) =>
    /\ pins[req[r].lane] = on[r]
    /\ \A s \in Requests : Ending(s) /\ req[s].lane = req[r].lane => s = r

\* A close() that succeeded has seen the provider's end() succeed.
EndedInv == closer = "closed" => endTask = "ended"

-----------------------------------------------------------------------------
\* A borrow is returned, or its return throws and it is kept for end().
Freed(b) ==
  /\ state[b] = "held"
  /\ \/ /\ state' = [state EXCEPT ![b] = "returned"] /\ failedReturns' = failedReturns \ {b}
     \/ state' = state /\ failedReturns' = failedReturns \cup {b}

LEMMA ReleaseFrees ==
  ASSUME NEW x, NEW b \in Borrows, NEW destroy, NEW ok, Releases(x, b, destroy, ok)
  PROVE  Freed(b)
BY DEF Releases, ReleaseOk, ReleaseThrows, Returns, ReturnThrows, SetState, Discharge, Freed

Frames == <<state, failedReturns, pc, req, on, pins>>

LEMMA HoldFrame ==
  ASSUME HoldInv, UNCHANGED Frames
  PROVE  HoldInv'
BY DEF HoldInv, AdmittedOK, OwnBorrows, PinnedBorrows, StatementsOnPins, OpeningOK, Opener,
   Settled, Frames

\* A call settles and gives back its own borrow.
LEMMA HoldSettlesOwn ==
  ASSUME HoldInv, PinsInv, PoolInv, NEW r \in Requests, pc[r] \in {"open", "auto", "rollback"},
         Settle(r), Freed(r), UNCHANGED pins
  PROVE  HoldInv'
<1> USE RequestsAssumption, NamesAssumption, LanesAssumption
        DEF HoldInv, PinsInv, PinsTypeOK, PoolInv, TypeOK, Settle, Freed
<1>1. AdmittedOK'
  BY DEF AdmittedOK, Settled, CallStates
<1>2. OwnBorrows'
  BY DEF OwnBorrows
<1>3. PinnedBorrows'
  BY DEF PinnedBorrows
<1>4. StatementsOnPins'
  BY DEF StatementsOnPins, CallsUseBorrows
<1>5. OpeningOK'
  BY DEF OpeningOK, Opener
<1> QED BY <1>1, <1>2, <1>3, <1>4, <1>5

\* A statement of a lane ends its transaction and gives its client back.
LEMMA HoldSettlesPinned ==
  ASSUME HoldInv, PinsInv, PoolInv, NEW r \in Requests, pc[r] = "pinned",
         Settle(r), Freed(on[r]) \/ UNCHANGED <<state, failedReturns>>,
         pins' = [pins EXCEPT ![req[r].lane] = None]
  PROVE  HoldInv'
<1> USE RequestsAssumption, NamesAssumption, LanesAssumption
        DEF HoldInv, PinsInv, PinsTypeOK, PoolInv, TypeOK, Settle, Freed
<1>0. on[r] \in Requests /\ pc[on[r]] = "settled" /\ req[r].lane \in Lanes
  BY DEF StatementsOnPins, CallsUseBorrows, AdmittedOK, Settled, Admitted
<1>1. AdmittedOK'
  BY DEF AdmittedOK, Settled, CallStates
<1>2. OwnBorrows'
  BY <1>0 DEF OwnBorrows
<1>3. PinnedBorrows'
  <2> SUFFICES ASSUME NEW l \in Lanes, pins'[l] # None
               PROVE  /\ state'[pins'[l]] = "held" /\ pins'[l] \notin failedReturns'
                      /\ pc'[pins'[l]] = "settled"
                      /\ \A k \in Lanes : pins'[k] = pins'[l] => k = l
    BY DEF PinnedBorrows
  <2>1. pins'[l] = pins[l] /\ l # req[r].lane /\ pins[l] \in Requests
    BY <1>0
  <2>2. pins[l] # on[r]
    BY <2>1 DEF StatementsOnPins
  <2> QED BY <1>0, <2>1, <2>2 DEF PinnedBorrows
<1>4. StatementsOnPins'
  BY <1>0 DEF StatementsOnPins, CallsUseBorrows
<1>5. OpeningOK'
  BY <1>0 DEF OpeningOK, Opener
<1> QED BY <1>1, <1>2, <1>3, <1>4, <1>5

\* A call settles, the borrow of no lane is touched.
LEMMA HoldSettles ==
  ASSUME HoldInv, PinsInv, PoolInv, NEW r \in Requests, pc[r] # "settled",
         Settle(r), UNCHANGED pins,
         \/ UNCHANGED <<state, failedReturns>> /\ pc[r] \in {"idle", "pinned"}
         \/ /\ state[r] \in {"connecting", "granted"}
            /\ \E s \in {"failed", "returned", "late"} : state' = [state EXCEPT ![r] = s]
            /\ failedReturns' \in {failedReturns, failedReturns \cup {r}, failedReturns \ {r}}
  PROVE  HoldInv'
<1> USE RequestsAssumption, NamesAssumption, LanesAssumption
        DEF HoldInv, PinsInv, PinsTypeOK, PoolInv, TypeOK, Settle
<1>1. AdmittedOK'
  BY DEF AdmittedOK, Settled, CallStates
<1>2. OwnBorrows'
  BY DEF OwnBorrows
<1>3. PinnedBorrows'
  BY DEF PinnedBorrows, OwnBorrows
<1>4. StatementsOnPins'
  BY DEF StatementsOnPins, CallsUseBorrows
<1>5. OpeningOK'
  BY DEF OpeningOK, Opener
<1> QED BY <1>1, <1>2, <1>3, <1>4, <1>5

\* An open succeeds, or fails and leaves its client to the rollback of its lane.
LEMMA HoldPins ==
  ASSUME HoldInv, PinsInv, PoolInv, NEW r \in Requests, pc[r] = "open",
         Settle(r), UNCHANGED <<state, failedReturns>>,
         pins' = [pins EXCEPT ![req[r].lane] = r]
  PROVE  HoldInv'
<1> USE RequestsAssumption, NamesAssumption, LanesAssumption
        DEF HoldInv, PinsInv, PinsTypeOK, PoolInv, TypeOK, Settle
<1>0. req[r].lane \in Lanes
  BY DEF AdmittedOK, Settled, Admitted
<1>1. AdmittedOK'
  BY DEF AdmittedOK, Settled, CallStates
<1>2. OwnBorrows'
  BY DEF OwnBorrows
<1>3. PinnedBorrows'
  BY <1>0 DEF PinnedBorrows, OwnBorrows
<1>4. StatementsOnPins'
  BY <1>0 DEF StatementsOnPins, CallsUseBorrows
<1>5. OpeningOK'
  BY <1>0 DEF OpeningOK, Opener
<1> QED BY <1>1, <1>2, <1>3, <1>4, <1>5

LEMMA HoldCall ==
  ASSUME HoldInv, PinsInv, PoolInv, NEW r \in Requests, NEW q \in ShapeType, NEW l \in Lanes,
         Call(r, q, l)
  PROVE  HoldInv'
<1> USE RequestsAssumption, NamesAssumption, LanesAssumption
<1>1. CASE CallRefused(r, q, l)
  BY <1>1, HoldSettles DEF CallRefused, SettlesOnly, Admissible, poolVars
<1> DEFINE a == [lane |-> l, start |-> q.start, control |-> q.control,
                 commit |-> q.commit, params |-> q.params]
<1>0. a \in Admitted
  BY DEF Admitted, ShapeType
<1> HIDE DEF a
<1>2. CASE CallConnects(r, q, l)
  <2>1. /\ pc[r] = "idle" /\ state' = [state EXCEPT ![r] = "connecting"]
        /\ req' = [req EXCEPT ![r] = a] /\ UNCHANGED <<pins, failedReturns>>
        /\ on' = [on EXCEPT ![r] = r]
    BY <1>2 DEF CallConnects, Admissible, Connect, SetState, Admit, a
  <2>2. \/ pc' = [pc EXCEPT ![r] = "auto-wait"]
        \/ pc' = [pc EXCEPT ![r] = "open-wait"] /\ pins[l] = None /\ ~Opening(l)
    BY <1>2 DEF CallConnects, GoTo, Refused
  <2> USE DEF HoldInv, PinsInv, PinsTypeOK, PoolInv, TypeOK
  <2>3. AdmittedOK'
    BY <1>0, <2>1, <2>2 DEF AdmittedOK, Settled, CallStates
  <2>4. OwnBorrows'
    BY <2>1, <2>2 DEF OwnBorrows
  <2>5. PinnedBorrows'
    BY <2>1, <2>2 DEF PinnedBorrows
  <2>6. StatementsOnPins'
    <3> SUFFICES ASSUME NEW s \in Requests, pc'[s] = "pinned"
                 PROVE  pc'[on'[s]] = "settled"
                        /\ \A k \in Lanes : pins'[k] = on'[s] => k = req'[s].lane
      BY DEF StatementsOnPins
    <3>1. s # r /\ pc[s] = "pinned" /\ on'[s] = on[s] /\ req'[s] = req[s]
      BY <2>1, <2>2 DEF AdmittedOK
    <3>2. on[s] \in Requests /\ pc[on[s]] = "settled"
      BY <3>1 DEF StatementsOnPins, CallsUseBorrows
    <3>3. pc'[on[s]] = "settled"
      BY <2>1, <2>2, <3>2
    <3> QED BY <2>1, <3>1, <3>3 DEF StatementsOnPins
  <2>7. OpeningOK'
    <3>1. a.lane = l /\ req \in [Requests -> Admitted \cup {None}]
      BY DEF a, AdmittedOK
    <3>2. CASE pc' = [pc EXCEPT ![r] = "auto-wait"]
      BY <2>1, <3>1, <3>2 DEF OpeningOK, Opener
    <3>3. CASE pc' = [pc EXCEPT ![r] = "open-wait"] /\ pins[l] = None /\ ~Opening(l)
      <4>1. \A s \in Requests : Opener(s)' => ((s = r /\ req'[s].lane = l)
                \/ (s # r /\ Opener(s) /\ req'[s] = req[s] /\ req[s].lane # l))
        BY <2>1, <3>1, <3>3 DEF Opener, Opening
      <4> QED BY <2>1, <3>3, <4>1 DEF OpeningOK
    <3> QED BY <2>2, <3>2, <3>3
  <2> QED BY <2>3, <2>4, <2>5, <2>6, <2>7
<1>3. CASE CallPinned(r, q, l)
  <2>1. /\ pc[r] = "idle" /\ pc' = [pc EXCEPT ![r] = "pinned"]
        /\ req' = [req EXCEPT ![r] = a] /\ UNCHANGED <<pins, state, failedReturns>>
        /\ on' = [on EXCEPT ![r] = pins[l]] /\ pins[l] \in Requests
    BY <1>3 DEF CallPinned, Admissible, Admit, GoTo, a, poolVars, PinsInv, PinsTypeOK
  <2> USE DEF HoldInv, PinsInv, PinsTypeOK, PoolInv, TypeOK
  <2>3. AdmittedOK'
    BY <1>0, <2>1 DEF AdmittedOK, Settled, CallStates
  <2>4. OwnBorrows'
    BY <2>1 DEF OwnBorrows
  <2>5. PinnedBorrows'
    BY <2>1 DEF PinnedBorrows
  <2>6. StatementsOnPins'
    <3> SUFFICES ASSUME NEW s \in Requests, pc'[s] = "pinned"
                 PROVE  pc'[on'[s]] = "settled"
                        /\ \A k \in Lanes : pins'[k] = on'[s] => k = req'[s].lane
      BY DEF StatementsOnPins
    <3>1. CASE s = r
      <4>1. on'[s] = pins[l] /\ req'[s].lane = l
        BY <2>1, <3>1 DEF AdmittedOK, a
      <4> QED BY <2>1, <4>1 DEF PinnedBorrows
    <3>2. CASE s # r
      <4>1. pc[s] = "pinned" /\ on'[s] = on[s] /\ req'[s] = req[s]
        BY <2>1, <3>2 DEF AdmittedOK
      <4>2. on[s] \in Requests /\ pc[on[s]] = "settled"
        BY <4>1 DEF StatementsOnPins, CallsUseBorrows
      <4> QED BY <2>1, <4>1, <4>2 DEF StatementsOnPins
    <3> QED BY <3>1, <3>2
  <2>7. OpeningOK'
    BY <2>1 DEF OpeningOK, Opener
  <2> QED BY <2>3, <2>4, <2>5, <2>6, <2>7
<1> QED BY <1>1, <1>2, <1>3 DEF Call

LEMMA HoldContinue ==
  ASSUME HoldInv, PinsInv, PoolInv, NEW r \in Requests, Continue(r) \/ ConnectFails(r)
  PROVE  HoldInv'
<1> USE RequestsAssumption, NamesAssumption, LanesAssumption
<1>1. CASE Resume(r)
  <2>1. /\ pc[r] \in {"open-wait", "auto-wait"} /\ state' = [state EXCEPT ![r] = "held"]
        /\ pc' = [pc EXCEPT ![r] = IF pc[r] = "open-wait" THEN "open" ELSE "auto"]
        /\ UNCHANGED <<pins, failedReturns, req, on>> /\ state[r] = "granted"
    BY <1>1 DEF Resume, Expose, SetState, GoTo
  <2> USE DEF HoldInv, PinsInv, PinsTypeOK, PoolInv, TypeOK
  <2>2. r \notin failedReturns
    BY <2>1 DEF ChargeInv
  <2>3. AdmittedOK'
    BY <2>1 DEF AdmittedOK, Settled, CallStates
  <2>4. OwnBorrows'
    BY <2>1, <2>2 DEF OwnBorrows
  <2>5. PinnedBorrows'
    BY <2>1 DEF PinnedBorrows
  <2>6. StatementsOnPins'
    BY <2>1 DEF StatementsOnPins, CallsUseBorrows
  <2>7. OpeningOK'
    BY <2>1 DEF OpeningOK, Opener
  <2> QED BY <2>3, <2>4, <2>5, <2>6, <2>7
<1>2. CASE ConnectIsLate(r) \/ ConnectFails(r)
  <2>1. Settle(r) /\ UNCHANGED pins /\ state[r] \in {"connecting", "granted"}
        /\ (\E s \in {"failed", "returned", "late"} : state' = [state EXCEPT ![r] = s])
        /\ failedReturns' \in {failedReturns, failedReturns \cup {r}, failedReturns \ {r}}
    BY <1>2 DEF ConnectIsLate, ConnectFails, CheckoutFails, LateCheckout, Returns, ReturnThrows,
       SetState, Discharge
  <2>2. pc[r] # "settled"
    BY <2>1 DEF HoldInv, OwnBorrows
  <2> QED BY <2>1, <2>2, HoldSettles
<1>3. CASE NextBatch(r)
  BY <1>3, HoldFrame DEF NextBatch, Frames, poolVars
<1>4. CASE OpenPins(r) \/ OpenFailsPinned(r)
  BY <1>4, HoldPins
     DEF OpenPins, OpenFailsPinned, OpenSucceeded, OpenFailed, SettlesOnly, poolVars
<1>5. CASE OpenIsLate(r)
  <2>1. /\ pc[r] = "open" /\ pc' = [pc EXCEPT ![r] = "rollback"]
        /\ UNCHANGED <<state, failedReturns, req, on, pins>>
    BY <1>5 DEF OpenIsLate, OpenSucceeded, GoTo, poolVars
  <2> USE DEF HoldInv, PinsInv, PinsTypeOK, PoolInv, TypeOK
  <2>3. AdmittedOK'
    BY <2>1 DEF AdmittedOK, Settled, CallStates
  <2>4. OwnBorrows'
    BY <2>1 DEF OwnBorrows
  <2>5. PinnedBorrows'
    BY <2>1 DEF PinnedBorrows
  <2>6. StatementsOnPins'
    BY <2>1 DEF StatementsOnPins, CallsUseBorrows
  <2>7. OpeningOK'
    BY <2>1 DEF OpeningOK, Opener
  <2> QED BY <2>3, <2>4, <2>5, <2>6, <2>7
<1>6. CASE PinnedContinues(r)
  BY <1>6, HoldSettles DEF PinnedContinues, SettlesOnly, poolVars
<1>7. CASE PinnedEndsTwice(r)
  <2>1. pc[r] = "pinned" /\ Settle(r) /\ UNCHANGED <<state, failedReturns>>
        /\ pins' = [pins EXCEPT ![req[r].lane] = None]
    BY <1>7 DEF PinnedEndsTwice, SettlesOnly, Unpin, poolVars
  <2> QED BY <2>1, HoldSettlesPinned
<1>8. ASSUME NEW ok \in BOOLEAN,
             \/ OpenReleases(r, ok) \/ OpenFailsReleased(r, ok)
             \/ LateOpenReturns(r, ok) \/ AutoReturns(r, ok)
      PROVE  HoldInv'
  <2>1. pc[r] \in {"open", "auto", "rollback"} /\ Settle(r) /\ UNCHANGED pins
        /\ \E destroy : Releases(r, r, destroy, ok)
    BY <1>8 DEF OpenReleases, OpenFailsReleased, LateOpenReturns, AutoReturns, OpenSucceeded,
       OpenFailed
  <2> QED BY <2>1, ReleaseFrees, HoldSettlesOwn
<1>9. ASSUME NEW ok \in BOOLEAN, PinnedEnds(r, ok) \/ PinnedEndFails(r, ok)
      PROVE  HoldInv'
  <2>1. pc[r] = "pinned" /\ Settle(r) /\ pins' = [pins EXCEPT ![req[r].lane] = None]
        /\ \E destroy : Releases(r, on[r], destroy, ok)
    BY <1>9 DEF PinnedEnds, PinnedEndFails, Unpin
  <2>2. on[r] \in Borrows
    BY <2>1 DEF PinsInv, CallsUseBorrows
  <2> QED BY <2>1, <2>2, ReleaseFrees, HoldSettlesPinned
<1> QED BY <1>1, <1>2, <1>3, <1>4, <1>5, <1>6, <1>7, <1>8, <1>9 DEF Continue

LEMMA HoldClose ==
  ASSUME HoldInv, PinsInv, PoolInv, Close \/ CloseStep \/ PoolEnds
  PROVE  HoldInv'
<1> USE RequestsAssumption, NamesAssumption, LanesAssumption
<1>1. CASE \/ Close \/ CloseDrained \/ CloseEndsPool \/ CloseSettles
           \/ (\E l \in Lanes : CloseRollback(l))
  BY <1>1, HoldFrame DEF Close, CloseDrained, CloseEndsPool, CloseSettles, CloseRollback, End,
     Frames, poolVars, callVars
<1>2. ASSUME NEW ok \in BOOLEAN, CloseReturns(ok)
      PROVE  HoldInv'
  <2>1. closer = "rolling" /\ Releases(Closer, pins[closerLane], reply[Closer] = "err", ok)
        /\ pins' = [pins EXCEPT ![closerLane] = None] /\ UNCHANGED <<pc, req, on>>
    BY <1>2 DEF CloseReturns, Unpin, callVars
  <2>2. /\ closerLane \in Lanes /\ pins[closerLane] \in Requests
        /\ \A r \in Requests : pc[r] # "pinned"
    BY <2>1 DEF PinsInv, PinsTypeOK, RollingHasPin, PinnedAreDrained, PinsCollected
  <2>3. Freed(pins[closerLane])
    BY <2>1, <2>2, ReleaseFrees
  <2>4. pc[pins[closerLane]] = "settled"
    BY <2>2 DEF HoldInv, PinnedBorrows
  <2> USE DEF HoldInv, PinsInv, PinsTypeOK, PoolInv, TypeOK, Freed
  <2>5. AdmittedOK'
    BY <2>1 DEF AdmittedOK, Settled, CallStates
  <2>6. OwnBorrows'
    BY <2>1, <2>2, <2>3, <2>4 DEF OwnBorrows
  <2>7. PinnedBorrows'
    <3> SUFFICES ASSUME NEW l \in Lanes, pins'[l] # None
                 PROVE  /\ state'[pins'[l]] = "held" /\ pins'[l] \notin failedReturns'
                        /\ pc'[pins'[l]] = "settled"
                        /\ \A k \in Lanes : pins'[k] = pins'[l] => k = l
      BY DEF PinnedBorrows
    <3>1. pins'[l] = pins[l] /\ l # closerLane /\ pins[l] \in Requests
      BY <2>1
    <3>2. pins[l] # pins[closerLane]
      BY <2>2, <3>1 DEF PinnedBorrows
    <3> QED BY <2>1, <2>2, <2>3, <3>1, <3>2 DEF PinnedBorrows
  <2>8. StatementsOnPins'
    BY <2>1, <2>2 DEF StatementsOnPins
  <2>9. OpeningOK'
    BY <2>1 DEF OpeningOK, Opener
  <2> QED BY <2>5, <2>6, <2>7, <2>8, <2>9
<1>3. ASSUME NEW S \in SUBSET failedReturns, EndPass(S), UNCHANGED <<pc, req, on, pins>>
      PROVE  HoldInv'
  <2> USE DEF HoldInv, PinsInv, PinsTypeOK, PoolInv, TypeOK
  <2> DEFINE R == failedReturns \ S
  <2>1. /\ state' = [b \in Borrows |-> IF b \in R THEN "returned" ELSE state[b]]
        /\ failedReturns' = failedReturns \ R
    BY <1>3 DEF EndPass, Discharge
  <2>2. \A b \in R : b \in failedReturns /\ state[b] \in {"held", "late"}
    BY DEF ChargeInv
  <2> HIDE DEF R
  <2>3. AdmittedOK'
    BY <1>3 DEF AdmittedOK, Settled, CallStates
  <2>4. OwnBorrows'
    BY <1>3, <2>1, <2>2 DEF OwnBorrows
  <2>5. PinnedBorrows'
    BY <1>3, <2>1, <2>2 DEF PinnedBorrows
  <2>6. StatementsOnPins'
    BY <1>3 DEF StatementsOnPins, CallsUseBorrows
  <2>7. OpeningOK'
    BY <1>3 DEF OpeningOK, Opener
  <2> QED BY <2>3, <2>4, <2>5, <2>6, <2>7
<1>4. CASE PoolEnds
  BY <1>3, <1>4, HoldFrame DEF PoolEnds, RawEnd, Frames, callVars
<1> QED BY <1>1, <1>2, <1>4 DEF CloseStep

LEMMA HoldCheckout ==
  ASSUME HoldInv, PinsInv, PoolInv, NEW r \in Requests, ProviderCheckout(r)
  PROVE  HoldInv'
<1> USE RequestsAssumption, NamesAssumption, LanesAssumption
        DEF HoldInv, PinsInv, PinsTypeOK, PoolInv, TypeOK
<1>1. /\ state[r] = "connecting" /\ state' = [state EXCEPT ![r] = "granted"]
      /\ UNCHANGED <<failedReturns, pc, req, on, pins>>
  BY DEF ProviderCheckout, Checkout, SetState, adapterVars
<1>2. AdmittedOK'
  BY <1>1 DEF AdmittedOK, Settled, CallStates
<1>3. OwnBorrows'
  BY <1>1 DEF OwnBorrows
<1>4. PinnedBorrows'
  BY <1>1 DEF PinnedBorrows
<1>5. StatementsOnPins'
  BY <1>1 DEF StatementsOnPins, CallsUseBorrows
<1>6. OpeningOK'
  BY <1>1 DEF OpeningOK, Opener
<1> QED BY <1>2, <1>3, <1>4, <1>5, <1>6

LEMMA HoldStep ==
  ASSUME HoldInv, PinsInv, PoolInv, [AdapterNext]_vars
  PROVE  HoldInv'
<1>1. CASE UNCHANGED vars
  BY <1>1, HoldFrame DEF vars, adapterVars, poolVars, Frames
<1>2. ASSUME NEW r \in Requests, NEW call \in Calls, Call(r, call[1], call[2])
      PROVE  HoldInv'
  BY <1>2, HoldCall, CallsAssumption
<1>3. ASSUME NEW r \in Requests, ConnectionFails(r)
      PROVE  HoldInv'
  BY <1>3, HoldFrame DEF ConnectionFails, Fault, adapterVars, Frames
<1>4. ASSUME NEW c \in Clients, ServerStep(c)
      PROVE  HoldInv'
  BY <1>4, HoldFrame DEF ServerStep, poolVars, Frames
<1> QED BY <1>1, <1>2, <1>3, <1>4, HoldContinue, HoldCheckout, HoldClose DEF AdapterNext

LEMMA HoldStarts == AdapterInit => HoldInv
<1> SUFFICES ASSUME AdapterInit PROVE HoldInv
  OBVIOUS
<1>1. \A r \in Requests : pc[r] = "idle" /\ state[r] = "none"
  BY RequestsAssumption DEF AdapterInit, PoolInit
<1>2. AdmittedOK
  BY <1>1 DEF AdapterInit, AdmittedOK, Settled
<1>3. PinnedBorrows
  BY DEF AdapterInit, PinnedBorrows
<1> QED BY <1>1, <1>2, <1>3 DEF HoldInv, OwnBorrows, StatementsOnPins, OpeningOK, Opener

LEMMA AdapterPool == Spec => []PoolInv
BY AdapterUsesPool, PoolInvariant

(***************************************************************************)
(* Pins and the borrows of the calls, in every execution.                  *)
(***************************************************************************)
THEOREM AdapterHolds == Spec => []HoldInv
BY HoldStarts, HoldStep, AdapterInvariant, AdapterPool, PTL DEF Spec

(***************************************************************************)
(* A pinned client is checked out and belongs to one lane (db.ts:625, 657, *)
(* 679-691, 735-743), overlapping ends or not.                             *)
(***************************************************************************)
THEOREM AdapterPinsHoldTheirClient == Spec => []PinsHoldTheirClient
<1>1. HoldInv => PinsHoldTheirClient
  BY DEF HoldInv, PinnedBorrows, PinsHoldTheirClient
<1> QED BY <1>1, AdapterHolds, PTL

-----------------------------------------------------------------------------
\* What an ending statement, the only one of its lane, is sent to.
LEMMA EndsFrame ==
  ASSUME EndsOnPin, UNCHANGED <<req, on, pins>>,
         \A s \in Requests : pc'[s] = "pinned" => pc[s] = "pinned"
  PROVE  EndsOnPin'
BY DEF EndsOnPin, Ending, Terminal, EndKind

LEMMA EndsSettles ==
  ASSUME EndsOnPin, HoldInv, PinsInv, NEW r \in Requests, Settle(r),
         \/ UNCHANGED pins
         \/ Ending(r) /\ pins' = [pins EXCEPT ![req[r].lane] = None]
         \/ Opener(r) /\ pins' = [pins EXCEPT ![req[r].lane] = r]
  PROVE  EndsOnPin'
<1> USE NamesAssumption DEF HoldInv, PinsInv, PinsTypeOK
<1>1. \A s \in Requests : Ending(s)' => Ending(s) /\ s # r /\ req'[s] = req[s] /\ on'[s] = on[s]
  BY DEF Settle, Ending, AdmittedOK, Terminal, EndKind
<1>2. \A s \in Requests : Ending(s)' => pins'[req[s].lane] = on[s]
  <2> SUFFICES ASSUME NEW s \in Requests, Ending(s)' PROVE pins'[req[s].lane] = on[s]
    OBVIOUS
  <2>1. pins[req[s].lane] = on[s] /\ on[s] \in Requests
    BY <1>1 DEF EndsOnPin, CallsUseBorrows, Ending
  <2>2. (Ending(r) \/ Opener(r)) => req[r].lane # req[s].lane
    BY <1>1, <2>1 DEF EndsOnPin, OpeningOK
  <2>3. req[s].lane \in Lanes
    BY <1>1 DEF AdmittedOK, Settled, Admitted, Ending
  <2>4. CASE UNCHANGED pins
    BY <2>1, <2>4
  <2>5. CASE \E v : pins' = [pins EXCEPT ![req[r].lane] = v] /\ (Ending(r) \/ Opener(r))
    BY <2>1, <2>2, <2>3, <2>5
  <2> QED BY <2>4, <2>5
<1> QED BY <1>1, <1>2 DEF EndsOnPin

LEMMA EndsStep ==
  ASSUME EndsOnPin, ~OverlappingEnds, HoldInv, PinsInv, [AdapterNext]_vars
  PROVE  EndsOnPin'
<1> USE RequestsAssumption, NamesAssumption, LanesAssumption DEF PinsInv, PinsTypeOK
<1>1. CASE UNCHANGED <<pc, req, on, pins>>
  BY <1>1, EndsFrame
<1>2. ASSUME NEW r \in Requests, NEW call \in Calls, Call(r, call[1], call[2])
      PROVE  EndsOnPin'
  <2> DEFINE q == call[1]
             l == call[2]
             a == [lane |-> l, start |-> q.start, control |-> q.control,
                   commit |-> q.commit, params |-> q.params]
  <2>0. l \in Lanes /\ a.lane = l
    BY CallsAssumption
  <2> HIDE DEF q, l, a
  <2>1. CASE CallRefused(r, q, l)
    BY <2>1, EndsSettles DEF CallRefused, SettlesOnly
  <2>2. CASE CallConnects(r, q, l)
    <3>1. /\ pc[r] = "idle"
          /\ pc' \in {[pc EXCEPT ![r] = "auto-wait"], [pc EXCEPT ![r] = "open-wait"]}
          /\ req' = [req EXCEPT ![r] = a] /\ on' = [on EXCEPT ![r] = r] /\ UNCHANGED pins
      BY <2>2 DEF CallConnects, Admissible, Admit, GoTo, a
    <3>2. \A s \in Requests : Ending(s)' => Ending(s) /\ req'[s] = req[s] /\ on'[s] = on[s]
      BY <3>1 DEF Ending, HoldInv, AdmittedOK, Terminal, EndKind
    <3> QED BY <3>1, <3>2 DEF EndsOnPin
  <2>3. CASE CallPinned(r, q, l)
    <3>1. /\ pc[r] = "idle" /\ pc' = [pc EXCEPT ![r] = "pinned"]
          /\ req' = [req EXCEPT ![r] = a] /\ on' = [on EXCEPT ![r] = pins[l]] /\ UNCHANGED pins
      BY <2>3 DEF CallPinned, Admissible, Admit, GoTo, a
    <3>2. req'[r] = a /\ on'[r] = pins[l]
      BY <3>1 DEF HoldInv, AdmittedOK
    <3>3. \A s \in Requests \ {r} : Ending(s)' => Ending(s) /\ req'[s] = req[s] /\ on'[s] = on[s]
      BY <3>1 DEF Ending, HoldInv, AdmittedOK, Terminal, EndKind
    <3>4. Ending(r)' => Terminal(q)
      BY <3>2 DEF Ending, Terminal, EndKind, a
    <3>5. Terminal(q) => \A s \in Requests : Ending(s) => req[s].lane # l
      BY <2>3 DEF CallPinned, Admissible, Ending, Settled
    <3>6. \A s \in Requests : Ending(s)' => pins'[req'[s].lane] = on'[s]
      BY <2>0, <3>1, <3>2, <3>3 DEF EndsOnPin
    <3>7. \A s, o \in Requests : Ending(s)' /\ Ending(o)' /\ req'[o].lane = req'[s].lane => o = s
      BY <2>0, <3>2, <3>3, <3>4, <3>5 DEF EndsOnPin
    <3> QED BY <3>6, <3>7 DEF EndsOnPin
  <2> QED BY <1>2, <2>1, <2>2, <2>3 DEF Call, q, l
<1>3. ASSUME NEW r \in Requests, Continue(r) \/ ConnectFails(r)
      PROVE  EndsOnPin'
  <2>1. CASE Resume(r) \/ OpenIsLate(r) \/ NextBatch(r)
    <3>1. UNCHANGED <<req, on, pins>> /\ \A s \in Requests : pc'[s] = "pinned" => pc[s] = "pinned"
      BY <2>1 DEF Resume, OpenIsLate, NextBatch, GoTo
    <3> QED BY <3>1, EndsFrame
  <2>2. CASE ConnectIsLate(r) \/ ConnectFails(r) \/ PinnedContinues(r)
    BY <2>2, EndsSettles DEF ConnectIsLate, ConnectFails, PinnedContinues, SettlesOnly
  <2>3. CASE OpenPins(r) \/ OpenFailsPinned(r)
    <3>1. Settle(r) /\ Opener(r) /\ pins' = [pins EXCEPT ![req[r].lane] = r]
      BY <2>3 DEF OpenPins, OpenFailsPinned, OpenSucceeded, OpenFailed, SettlesOnly, Opener
    <3> QED BY <3>1, EndsSettles
  <2>4. ASSUME NEW ok \in BOOLEAN,
               \/ OpenReleases(r, ok) \/ OpenFailsReleased(r, ok)
               \/ LateOpenReturns(r, ok) \/ AutoReturns(r, ok)
        PROVE  EndsOnPin'
    BY <2>4, EndsSettles DEF OpenReleases, OpenFailsReleased, LateOpenReturns, AutoReturns
  <2>5. ASSUME NEW ok \in BOOLEAN,
               PinnedEnds(r, ok) \/ PinnedEndFails(r, ok) \/ PinnedEndsTwice(r)
        PROVE  EndsOnPin'
    <3>1. Settle(r) /\ Ending(r) /\ pins' = [pins EXCEPT ![req[r].lane] = None]
      BY <2>5
      DEF PinnedEnds, PinnedEndFails, PinnedEndsTwice, SettlesOnly, Unpin, Ending, Terminal,
         EndsPin, EndKind
    <3> QED BY <3>1, EndsSettles
  <2> QED BY <1>3, <2>1, <2>2, <2>3, <2>4, <2>5 DEF Continue
<1>4. ASSUME NEW ok \in BOOLEAN, CloseReturns(ok)
      PROVE  EndsOnPin'
  BY <1>4 DEF CloseReturns, callVars, PinnedAreDrained, PinsCollected, EndsOnPin, Ending
<1>5. CASE \/ UNCHANGED vars \/ Close \/ PoolEnds
           \/ CloseDrained \/ CloseEndsPool \/ CloseSettles \/ (\E l \in Lanes : CloseRollback(l))
           \/ (\E r \in Requests : ProviderCheckout(r) \/ ConnectionFails(r))
           \/ (\E c \in Clients : ServerStep(c))
  BY <1>1, <1>5 DEF vars, adapterVars, Close, PoolEnds, CloseDrained, CloseEndsPool, CloseSettles,
     CloseRollback, ProviderCheckout, ConnectionFails, ServerStep, callVars
<1> QED BY <1>2, <1>3, <1>4, <1>5 DEF AdapterNext, CloseStep

-----------------------------------------------------------------------------
\* What is held keeps its call, its pin or its place among the failed returns.
LEMMA OwnersKept ==
  ASSUME EveryClientHasAnOwner, UNCHANGED <<failedReturns, pins>>,
         \A b \in Requests : state'[b] = "held" => state[b] = "held",
         \A b \in Requests : pc[b] \in {"open", "auto", "rollback"} =>
                               pc'[b] \in {"open", "auto", "rollback"}
  PROVE  EveryClientHasAnOwner'
BY RequestsAssumption DEF EveryClientHasAnOwner

\* A call settles and gives back its own borrow.
LEMMA OwnerReturns ==
  ASSUME EveryClientHasAnOwner, PinsInv, PoolInv, NEW r \in Requests, Settle(r), Freed(r),
         UNCHANGED pins
  PROVE  EveryClientHasAnOwner'
BY RequestsAssumption
   DEF EveryClientHasAnOwner, PinsInv, PinsTypeOK, PoolInv, TypeOK, Settle, Freed

\* A lane's borrow is given back, and its pin with it.
LEMMA OwnerUnpins ==
  ASSUME EveryClientHasAnOwner, HoldInv, PinsInv, PoolInv, NEW l \in Lanes,
         pins[l] \in Requests, Freed(pins[l]), pins' = [pins EXCEPT ![l] = None],
         \A b \in Requests : pc[b] \in {"open", "auto", "rollback"} => pc'[b] = pc[b]
  PROVE  EveryClientHasAnOwner'
<1> USE RequestsAssumption, NamesAssumption
        DEF PinsInv, PinsTypeOK, PoolInv, TypeOK, Freed, HoldInv
<1> SUFFICES ASSUME NEW b \in Borrows, state'[b] = "held"
             PROVE  \/ pc'[b] \in {"open", "auto", "rollback"}
                    \/ \E k \in Lanes : pins'[k] = b
                    \/ b \in failedReturns'
  BY DEF EveryClientHasAnOwner
<1>1. CASE b = pins[l]
  BY <1>1
<1>2. CASE b # pins[l]
  <2>1. state[b] = "held" /\ (b \in failedReturns => b \in failedReturns')
    BY <1>2
  <2>2. \A k \in Lanes : pins[k] = b => pins'[k] = b
    BY <1>2
  <2> QED BY <2>1, <2>2 DEF EveryClientHasAnOwner
<1> QED BY <1>1, <1>2

\* A call settles and leaves its borrow to its lane, which had none.
LEMMA OwnerPins ==
  ASSUME EveryClientHasAnOwner, HoldInv, PinsInv, NEW r \in Requests, Opener(r), Settle(r),
         UNCHANGED <<state, failedReturns>>, pins' = [pins EXCEPT ![req[r].lane] = r]
  PROVE  EveryClientHasAnOwner'
<1> USE RequestsAssumption, NamesAssumption DEF PinsInv, PinsTypeOK, HoldInv
<1>1. req[r].lane \in Lanes /\ pins[req[r].lane] = None
  BY DEF AdmittedOK, Settled, Admitted, OpeningOK, Opener
<1>2. \A k \in Lanes : pins[k] \in Requests => pins'[k] = pins[k]
  BY <1>1
<1>3. pins'[req[r].lane] = r
  BY <1>1
<1>4. \A b \in Requests : b # r => pc'[b] = pc[b]
  BY DEF Settle
<1> QED BY <1>1, <1>2, <1>3, <1>4 DEF EveryClientHasAnOwner

LEMMA OwnerContinues ==
  ASSUME EveryClientHasAnOwner, EndsOnPin, HoldInv, PinsInv, PoolInv,
         NEW r \in Requests, Continue(r) \/ ConnectFails(r)
  PROVE  EveryClientHasAnOwner'
<1> USE RequestsAssumption, NamesAssumption
<1>1. CASE Resume(r)
  <2>1. /\ state' = [state EXCEPT ![r] = "held"]
        /\ pc' = [pc EXCEPT ![r] = IF pc[r] = "open-wait" THEN "open" ELSE "auto"]
        /\ UNCHANGED <<pins, failedReturns>>
    BY <1>1 DEF Resume, Expose, SetState, GoTo
  <2> QED BY <2>1 DEF EveryClientHasAnOwner, PinsInv, PinsTypeOK, PoolInv, TypeOK
<1>2. CASE ConnectIsLate(r) \/ ConnectFails(r)
  <2>1. Settle(r) /\ UNCHANGED pins /\ state[r] \in {"connecting", "granted"}
        /\ (\E s \in {"failed", "returned", "late"} : state' = [state EXCEPT ![r] = s])
        /\ failedReturns' \in {failedReturns, failedReturns \cup {r}, failedReturns \ {r}}
    BY <1>2 DEF ConnectIsLate, ConnectFails, CheckoutFails, LateCheckout, Returns, ReturnThrows,
       SetState, Discharge
  <2> QED BY <2>1 DEF EveryClientHasAnOwner, PinsInv, PinsTypeOK, PoolInv, TypeOK, Settle
<1>3. CASE NextBatch(r)
  BY <1>3, OwnersKept DEF NextBatch, poolVars
<1>4. CASE OpenPins(r) \/ OpenFailsPinned(r)
  BY <1>4, OwnerPins DEF OpenPins, OpenFailsPinned, OpenSucceeded, OpenFailed, SettlesOnly,
     poolVars, Opener
<1>5. CASE OpenIsLate(r)
  <2>1. pc' = [pc EXCEPT ![r] = "rollback"] /\ UNCHANGED <<state, failedReturns, pins>>
    BY <1>5 DEF OpenIsLate, GoTo, poolVars
  <2> QED BY <2>1, OwnersKept DEF PinsInv, PinsTypeOK
<1>6. CASE PinnedContinues(r)
  <2>1. pc[r] = "pinned" /\ Settle(r) /\ UNCHANGED <<state, failedReturns, pins>>
    BY <1>6 DEF PinnedContinues, SettlesOnly, poolVars
  <2> QED BY <2>1, OwnersKept DEF Settle, PinsInv, PinsTypeOK
<1>7. ASSUME pc[r] = "pinned", Terminal(req[r])
      PROVE  /\ req[r].lane \in Lanes /\ pins[req[r].lane] = on[r] /\ on[r] \in Requests
             /\ state[on[r]] = "held"
  BY <1>7 DEF EndsOnPin, Ending, HoldInv, AdmittedOK, Settled, Admitted, PinnedBorrows, PinsInv,
     CallsUseBorrows
<1>8. CASE PinnedEndsTwice(r)
  <2>1. pc[r] = "pinned" /\ Terminal(req[r]) /\ state[on[r]] = "returned"
    BY <1>8 DEF PinnedEndsTwice, DuplicateRelease, Terminal, EndsPin, EndKind
  <2> QED BY <1>7, <2>1
<1>9. ASSUME NEW ok \in BOOLEAN,
             \/ OpenReleases(r, ok) \/ OpenFailsReleased(r, ok)
             \/ LateOpenReturns(r, ok) \/ AutoReturns(r, ok)
      PROVE  EveryClientHasAnOwner'
  <2>1. Settle(r) /\ UNCHANGED pins /\ \E destroy : Releases(r, r, destroy, ok)
    BY <1>9 DEF OpenReleases, OpenFailsReleased, LateOpenReturns, AutoReturns
  <2> QED BY <2>1, ReleaseFrees, OwnerReturns
<1>10. ASSUME NEW ok \in BOOLEAN, PinnedEnds(r, ok) \/ PinnedEndFails(r, ok)
       PROVE  EveryClientHasAnOwner'
  <2>1. /\ pc[r] = "pinned" /\ Terminal(req[r]) /\ Settle(r)
        /\ pins' = [pins EXCEPT ![req[r].lane] = None]
        /\ \E destroy : Releases(r, on[r], destroy, ok)
    BY <1>10 DEF PinnedEnds, PinnedEndFails, Unpin, Terminal, EndsPin, EndKind
  <2>2. /\ req[r].lane \in Lanes /\ pins[req[r].lane] = on[r] /\ on[r] \in Requests
    BY <1>7, <2>1
  <2>3. Freed(pins[req[r].lane])
    BY <2>1, <2>2, ReleaseFrees
  <2>4. \A b \in Requests : pc[b] \in {"open", "auto", "rollback"} => pc'[b] = pc[b]
    BY <2>1 DEF Settle, PinsInv, PinsTypeOK
  <2> QED BY <2>1, <2>2, <2>3, <2>4, OwnerUnpins
<1> QED BY <1>1, <1>2, <1>3, <1>4, <1>5, <1>6, <1>8, <1>9, <1>10 DEF Continue

LEMMA OwnerStep ==
  ASSUME EveryClientHasAnOwner, EndsOnPin, HoldInv, PinsInv, PoolInv, [AdapterNext]_vars
  PROVE  EveryClientHasAnOwner'
<1> USE RequestsAssumption, NamesAssumption DEF PinsInv, PinsTypeOK, PoolInv, TypeOK
<1>1. CASE UNCHANGED <<state, failedReturns, pins, pc>>
  BY <1>1, OwnersKept
<1>2. ASSUME NEW r \in Requests, NEW call \in Calls, Call(r, call[1], call[2])
      PROVE  EveryClientHasAnOwner'
  <2>1. /\ pc[r] = "idle" /\ (\E s : pc' = [pc EXCEPT ![r] = s])
        /\ state' \in {state, [state EXCEPT ![r] = "connecting"]}
        /\ UNCHANGED <<failedReturns, pins>>
    BY <1>2 DEF Call, CallRefused, CallConnects, CallPinned, Admissible, SettlesOnly, Settle,
       GoTo, Connect, SetState, poolVars
  <2> QED BY <2>1, OwnersKept
<1>3. ASSUME NEW r \in Requests, ProviderCheckout(r)
      PROVE  EveryClientHasAnOwner'
  <2>1. state' = [state EXCEPT ![r] = "granted"] /\ UNCHANGED <<failedReturns, pins, pc>>
    BY <1>3 DEF ProviderCheckout, Checkout, SetState, adapterVars
  <2> QED BY <2>1, OwnersKept
<1>4. ASSUME NEW ok \in BOOLEAN, CloseReturns(ok)
      PROVE  EveryClientHasAnOwner'
  <2>1. closer = "rolling" /\ Releases(Closer, pins[closerLane], reply[Closer] = "err", ok)
        /\ pins' = [pins EXCEPT ![closerLane] = None] /\ UNCHANGED pc
    BY <1>4 DEF CloseReturns, Unpin, callVars
  <2>2. closerLane \in Lanes /\ pins[closerLane] \in Requests
    BY <2>1 DEF RollingHasPin
  <2>3. Freed(pins[closerLane])
    BY <2>1, <2>2, ReleaseFrees
  <2> QED BY <2>1, <2>2, <2>3, OwnerUnpins
<1>5. ASSUME NEW S \in SUBSET failedReturns, EndPass(S), UNCHANGED <<pc, pins>>
      PROVE  EveryClientHasAnOwner'
  <2>1. /\ state' = [b \in Borrows |-> IF b \in failedReturns \ S THEN "returned" ELSE state[b]]
        /\ failedReturns' = failedReturns \ (failedReturns \ S)
    BY <1>5 DEF EndPass, Discharge
  <2> QED BY <1>5, <2>1 DEF EveryClientHasAnOwner
<1>6. CASE UNCHANGED vars \/ Close \/ CloseDrained \/ CloseEndsPool \/ CloseSettles
  BY <1>1, <1>6 DEF Close, CloseDrained, CloseEndsPool, CloseSettles, End, poolVars, callVars,
     vars, adapterVars
<1>7. CASE \/ (\E l \in Lanes : CloseRollback(l)) \/ (\E c \in Clients : ServerStep(c))
           \/ (\E r \in Requests : ConnectionFails(r))
  BY <1>1, <1>7 DEF CloseRollback, ServerStep, ConnectionFails, Fault, poolVars, callVars,
     adapterVars
<1>8. CASE PoolEnds
  BY <1>1, <1>5, <1>8 DEF PoolEnds, RawEnd, callVars
<1> QED BY <1>2, <1>3, <1>4, <1>6, <1>7, <1>8, OwnerContinues DEF AdapterNext, CloseStep

(***************************************************************************)
(* No client is lost: whatever is checked out has a call that returns it,  *)
(* is pinned, or waits among the failed returns (db.ts:580-581), provided  *)
(* that the statements that end a transaction do not overlap on a lane.    *)
(***************************************************************************)
THEOREM AdapterEveryClientHasAnOwner == ~OverlappingEnds => (Spec => []EveryClientHasAnOwner)
<1> SUFFICES ASSUME ~OverlappingEnds PROVE Spec => []EveryClientHasAnOwner
  OBVIOUS
<1>1. AdapterInit => EndsOnPin /\ EveryClientHasAnOwner
  <2> SUFFICES ASSUME AdapterInit PROVE EndsOnPin /\ EveryClientHasAnOwner
    OBVIOUS
  <2>1. \A r \in Requests : pc[r] = "idle" /\ state[r] = "none"
    BY RequestsAssumption DEF AdapterInit, PoolInit
  <2> QED BY <2>1, RequestsAssumption DEF EndsOnPin, Ending, EveryClientHasAnOwner
<1>2. /\ EndsOnPin /\ EveryClientHasAnOwner /\ HoldInv /\ PinsInv /\ PoolInv /\ [AdapterNext]_vars
      => (EndsOnPin /\ EveryClientHasAnOwner)'
  BY EndsStep, OwnerStep
<1> QED BY <1>1, <1>2, AdapterHolds, AdapterInvariant, AdapterPool, PTL DEF Spec

-----------------------------------------------------------------------------
LEMMA EndedStep ==
  ASSUME EndedInv, [AdapterNext]_vars
  PROVE  EndedInv'
<1>1. ASSUME UNCHANGED closer, endTask = "ended" => endTask' = "ended"
      PROVE  EndedInv'
  BY <1>1 DEF EndedInv
<1>2. ASSUME NEW x, NEW b, NEW destroy, NEW ok, Releases(x, b, destroy, ok)
      PROVE  endTask = "ended" => endTask' = "ended"
  BY <1>2 DEF Releases, ReleaseOk, ReleaseThrows, Returns, ReturnThrows, Notify
<1>3. CASE \/ Close \/ CloseDrained \/ CloseEndsPool \/ CloseSettles
           \/ \E l \in Lanes : CloseRollback(l)
  BY <1>3 DEF EndedInv, Close, CloseDrained, CloseEndsPool, CloseSettles, CloseRollback, poolVars
<1>4. ASSUME NEW ok \in BOOLEAN, CloseReturns(ok)
      PROVE  EndedInv'
  BY <1>4 DEF CloseReturns, EndedInv
<1>5. CASE PoolEnds
  BY <1>1, <1>5 DEF PoolEnds, EndPass, RawEnd, closeVars
<1>6. ASSUME NEW r \in Requests, NEW call \in Calls, Call(r, call[1], call[2])
      PROVE  EndedInv'
  BY <1>1, <1>6 DEF Call, CallRefused, CallConnects, CallPinned, SettlesOnly, Connect, poolVars,
     closeVars
<1>7. ASSUME NEW r \in Requests, Continue(r) \/ ConnectFails(r)
      PROVE  EndedInv'
  <2>1. CASE \/ Resume(r) \/ NextBatch(r) \/ OpenPins(r) \/ OpenFailsPinned(r)
             \/ OpenIsLate(r) \/ PinnedContinues(r) \/ PinnedEndsTwice(r)
    BY <1>1, <2>1 DEF Resume, NextBatch, OpenPins, OpenFailsPinned, OpenIsLate, PinnedContinues,
       PinnedEndsTwice, DuplicateRelease, SettlesOnly, Expose, poolVars, closeVars
  <2>2. CASE ConnectIsLate(r) \/ ConnectFails(r)
    BY <1>1, <2>2 DEF ConnectIsLate, ConnectFails, CheckoutFails, LateCheckout, Returns,
       ReturnThrows, Notify, closeVars
  <2>3. ASSUME NEW ok \in BOOLEAN,
               \/ OpenReleases(r, ok) \/ OpenFailsReleased(r, ok) \/ LateOpenReturns(r, ok)
               \/ PinnedEnds(r, ok) \/ PinnedEndFails(r, ok) \/ AutoReturns(r, ok)
        PROVE  EndedInv'
    <3>1. UNCHANGED closer /\ \E x, b, destroy : Releases(x, b, destroy, ok)
      BY <2>3 DEF OpenReleases, OpenFailsReleased, LateOpenReturns, PinnedEnds, PinnedEndFails,
         AutoReturns, closeVars
    <3> QED BY <1>1, <1>2, <3>1
  <2> QED BY <1>7, <2>1, <2>2, <2>3 DEF Continue
<1>8. ASSUME NEW r \in Requests, ProviderCheckout(r) \/ ConnectionFails(r)
      PROVE  EndedInv'
  BY <1>1, <1>8 DEF ProviderCheckout, Checkout, ConnectionFails, Fault, adapterVars
<1>9. CASE UNCHANGED vars \/ \E c \in Clients : ServerStep(c)
  BY <1>1, <1>9 DEF vars, adapterVars, ServerStep, poolVars
<1> QED BY <1>3, <1>4, <1>5, <1>6, <1>7, <1>8, <1>9 DEF AdapterNext, CloseStep

(***************************************************************************)
(* A successful close() has returned everything (db.ts:729-764), with      *)
(* overlapping ends or without: the pool has drained, so no call holds or  *)
(* awaits a client, and the pinned statements settled before the drain.    *)
(***************************************************************************)
THEOREM AdapterClosedMeansReturned == Spec => []ClosedMeansReturned
<1>1. AdapterInit => EndedInv
  BY DEF AdapterInit, EndedInv
<1>2. EndedInv /\ HoldInv /\ PinsInv /\ DrainedBeforeEnd => ClosedMeansReturned
  <2> SUFFICES ASSUME EndedInv, HoldInv, PinsInv, DrainedBeforeEnd, closer = "closed"
               PROVE  /\ out = {} /\ failedReturns = {} /\ endTask = "ended"
                      /\ \A r \in Requests : Settled(r)
    BY DEF ClosedMeansReturned
  <2>1. endTask = "ended" /\ out = {} /\ failedReturns = {} /\ \A b \in Borrows : ~Charged(b)
    BY DEF EndedInv, DrainedBeforeEnd, RawEndStarted
  <2>2. \A r \in Requests : pc[r] # "pinned"
    BY DEF PinsInv, PinnedAreDrained, PinsCollected
  <2>3. \A r \in Requests : pc[r] \notin {"open-wait", "auto-wait", "open", "auto", "rollback"}
    BY <2>1, RequestsAssumption DEF HoldInv, OwnBorrows, Charged, OwnsSlot
  <2> QED BY <2>1, <2>2, <2>3 DEF Settled, PinsInv, PinsTypeOK, CallStates
<1> QED BY <1>1, <1>2, EndedStep, AdapterHolds, AdapterInvariant, AdapterDrainedBeforeEnd, PTL
        DEF Spec

-----------------------------------------------------------------------------
(***************************************************************************)
(* What each session is in, and whose commands are on their way to it.     *)
(***************************************************************************)
TxnTypes ==
  /\ at \in [Requests -> 1..3] /\ reply \in [Senders -> {"none", "ok", "err"}]
  /\ failedStarts \subseteq Lanes
  /\ wire \in [Clients -> Seq(Senders)]
  /\ txn \in [Clients -> [mode : Modes, lane : Lanes \cup {None}]]
  /\ closer \in CloserStates /\ closerLane \in Lanes \cup {None}

OnWire(c) == ToSet(wire[c])
Mode(b)   == txn[clientOf[b]].mode
InUse(r)  == pc[r] \in {"open", "auto", "pinned", "rollback"}

\* A borrow that is the call's own.
Owning(r) == pc[r] \in {"open", "auto", "rollback"}

\* An ordinary statement of the default lane.
Ordinary(x) ==
  /\ x \in Requests /\ pc[x] = "pinned" /\ req[x].lane = DefaultLane
  /\ req[x].control = "other" /\ ~req[x].start /\ ~req[x].commit

\* What the calls of a kind look like.
ShapesOK ==
  \A r \in Requests :
    /\ Owning(r) \/ pc[r] \in {"open-wait", "auto-wait"} => on[r] = r
    /\ Opener(r) => Opens(req[r])
    /\ pc[r] \in {"auto-wait", "auto"} =>
         ~Opens(req[r]) /\ req[r].control # "reject" /\ req[r].lane = DefaultLane
    /\ pc[r] = "pinned" => ~Opens(req[r]) /\ req[r].control # "reject"
    /\ ~Settled(r) /\ req[r].commit => on[r] \in finishing
    /\ IF pc[r] \in {"idle", "settled", "open-wait", "auto-wait"} THEN at[r] = 1
       ELSE at[r] <= Len(Script(req[r]))

\* The statements of a named lane go one by one to its own client.
NamedAlone ==
  \A r \in Requests : ~Settled(r) /\ req[r].lane # DefaultLane =>
    /\ pc[r] = "pinned" => pins[req[r].lane] = on[r]
    /\ \A s \in Requests : ~Settled(s) /\ req[s].lane = req[r].lane => s = r

Once(s) == \A i, j \in DOMAIN s : s[i] = s[j] => i = j

\* A batch on its way is the only one of its sender, who awaits the reply.
WireOK ==
  \A c \in Clients :
    /\ Once(wire[c])
    /\ \A x \in OnWire(c) :
         /\ reply[x] = "none"
         /\ IF x = Closer THEN closer = "rolling" /\ clientOf[pins[closerLane]] = c
            ELSE InUse(x) /\ clientOf[on[x]] = c

\* A session that nobody has: what is still on its way to it runs on its own.
QuietOK ==
  /\ \A c \in Clients \ out : txn[c].mode = "idle" /\ \A x \in OnWire(c) : Ordinary(x)
  /\ \A b \in Requests : state[b] = "granted" =>
       Mode(b) = "idle" /\ \A x \in OnWire(clientOf[b]) : Ordinary(x)

\* A session whose client could not be given back.
FailedOK ==
  /\ \A b \in Requests : state[b] = "late" => b \in failedReturns
  /\ \A b \in failedReturns : \A x \in OnWire(clientOf[b]) :
       Ordinary(x) /\ (Mode(b) # "idle" => txn[clientOf[b]].lane = DefaultLane)

\* The last command of b has succeeded.
Done(b) == reply[b] = "ok" /\ at[b] = Len(Script(req[b]))

\* A session of a call that opens a transaction, runs a statement or gives up.
OwnOK(b) ==
  /\ IF reply[b] = "none"
     THEN /\ b \in OnWire(clientOf[b])
          /\ \A i \in DOMAIN wire[clientOf[b]] : wire[clientOf[b]][i] = b => i = Len(wire[clientOf[b]])
          /\ \A x \in OnWire(clientOf[b]) : x = b \/ Ordinary(x)
     ELSE wire[clientOf[b]] = <<>>
  /\ Mode(b) # "idle" => txn[clientOf[b]].lane = req[b].lane /\ OnWire(clientOf[b]) \subseteq {b}
  /\ pc[b] = "auto" => Mode(b) = "idle"
  /\ pc[b] = "rollback" /\ reply[b] = "ok" => Mode(b) = "idle"

\* How far a transaction that is being opened has come.
BeginOK(b) ==
  /\ at[b] = 1 /\ reply[b] = "none" => Mode(b) = "idle"
  /\ at[b] = 1 /\ reply[b] = "ok" /\ Len(Script(req[b])) > 1 => Mode(b) = "open"
  /\ at[b] = 2 /\ reply[b] = "none" => Mode(b) = "open"
  /\ ~req[b].commit =>
       /\ Done(b) /\ req[b].control # "end" => Mode(b) = "open"
       /\ at[b] > 1 /\ reply[b] = "err" /\ ~EndKind(req[b]) =>
            Mode(b) = "aborted" \/ clientOf[b] \in broken
  /\ Done(b) /\ ~RefusedAfterBegin(req[b]) /\ EndsAtOnce(req[b]) => Mode(b) = "idle"

OpenOK == \A b \in Requests : /\ Owning(b) => OwnOK(b)
                              /\ pc[b] = "open" => BeginOK(b)

\* A lane whose transaction has begun and not ended.
Begun(l) ==
  /\ ~adapterClosing /\ l # DefaultLane /\ l \notin failedStarts /\ pins[l] \notin finishing
  /\ \A x \in Requests : pc[x] = "pinned" /\ req[x].lane = l => ~EndKind(req[x])

\* The session of a pinned lane.
PinOK(l) ==
  /\ \A x \in OnWire(clientOf[pins[l]]) : x = Closer \/ (pc[x] = "pinned" /\ on[x] = pins[l])
  /\ Mode(pins[l]) # "idle" => txn[clientOf[pins[l]]].lane = l
  /\ Begun(l) => Mode(pins[l]) # "idle" \/ clientOf[pins[l]] \in broken

PinnedOK == \A l \in Lanes : pins[l] # None => PinOK(l)

\* The statements of a lane.
StatementOK(x) ==
  /\ Done(x) /\ EndsPin(req[x]) => Mode(on[x]) = "idle"
  /\ req[x].lane # DefaultLane /\ req[x].control = "other" /\ at[x] = 1 /\ reply[x] = "none" =>
       Mode(on[x]) # "idle" \/ clientOf[on[x]] \in broken
  /\ req[x].lane # DefaultLane /\ req[x].control = "chain" /\ ~req[x].commit /\ reply[x] = "ok" =>
       Mode(on[x]) # "idle"

StatementsOK == \A x \in Requests : pc[x] = "pinned" => StatementOK(x)

\* close() has the client of a lane to itself.
CloserOK ==
  closer = "rolling" =>
    /\ OnWire(clientOf[pins[closerLane]]) \subseteq {Closer}
    /\ reply[Closer] = "ok" => Mode(pins[closerLane]) = "idle"

TxnInv ==
  /\ TxnTypes /\ ShapesOK /\ NamedAlone /\ WireOK /\ QuietOK /\ FailedOK /\ OpenOK /\ PinnedOK
  /\ StatementsOK /\ CloserOK

-----------------------------------------------------------------------------
\* The head of a wire leaves it.
LEMMA TailFacts ==
  ASSUME NEW S, NEW s \in Seq(S), s # <<>>
  PROVE  /\ Tail(s) \in Seq(S) /\ Head(s) \in S /\ Head(s) \in ToSet(s)
         /\ ToSet(Tail(s)) \subseteq ToSet(s)
         /\ \A x \in ToSet(s) : x # Head(s) => x \in ToSet(Tail(s))
         /\ Once(s) => Once(Tail(s)) /\ Head(s) \notin ToSet(Tail(s))
         /\ \A e : (\A i \in DOMAIN s : s[i] = e => i = Len(s)) =>
              /\ \A i \in DOMAIN Tail(s) : Tail(s)[i] = e => i = Len(Tail(s))
              /\ Head(s) = e => Tail(s) = <<>>
<1>1. Len(s) \in Nat \ {0} /\ DOMAIN s = 1 .. Len(s)
  OBVIOUS
<1>2. /\ Tail(s) \in Seq(S) /\ Len(Tail(s)) = Len(s) - 1
      /\ \A i \in 1 .. Len(s) - 1 : Tail(s)[i] = s[i + 1]
  BY <1>1
<1>3. DOMAIN Tail(s) = 1 .. Len(s) - 1 /\ Head(s) = s[1] /\ 1 \in DOMAIN s
  BY <1>1, <1>2
<1>4. ToSet(s) = {s[i] : i \in DOMAIN s} /\ ToSet(Tail(s)) = {Tail(s)[i] : i \in DOMAIN Tail(s)}
  BY DEF ToSet
<1>5. Head(s) \in ToSet(s)
  BY <1>3, <1>4
<1>6. \A x \in ToSet(Tail(s)) : \E i \in 2 .. Len(s) : x = s[i]
  BY <1>1, <1>2, <1>3, <1>4
<1>7. ASSUME NEW x \in ToSet(s), x # Head(s) PROVE x \in ToSet(Tail(s))
  <2>1. PICK i \in DOMAIN s : x = s[i]
    BY <1>4, <1>7
  <2>2. i # 1 /\ i - 1 \in DOMAIN Tail(s)
    BY <1>1, <1>3, <1>7, <2>1
  <2>3. Tail(s)[i - 1] = s[i]
    BY <1>1, <1>2, <2>1, <2>2
  <2> QED BY <1>4, <2>1, <2>2, <2>3
<1>8. ASSUME Once(s) PROVE Once(Tail(s)) /\ Head(s) \notin ToSet(Tail(s))
  <2>1. Head(s) \notin ToSet(Tail(s))
    BY <1>1, <1>3, <1>6, <1>8 DEF Once
  <2>2. ASSUME NEW i \in DOMAIN Tail(s), NEW j \in DOMAIN Tail(s), Tail(s)[i] = Tail(s)[j]
        PROVE  i = j
    <3>1. s[i + 1] = s[j + 1] /\ i + 1 \in DOMAIN s /\ j + 1 \in DOMAIN s
      BY <1>1, <1>2, <1>3, <2>2
    <3>2. i + 1 = j + 1
      BY <1>8, <3>1 DEF Once
    <3> QED BY <1>1, <1>3, <3>2
  <2> QED BY <2>1, <2>2 DEF Once
<1>9. ASSUME NEW e, \A i \in DOMAIN s : s[i] = e => i = Len(s)
      PROVE  /\ \A i \in DOMAIN Tail(s) : Tail(s)[i] = e => i = Len(Tail(s))
             /\ Head(s) = e => Tail(s) = <<>>
  <2>1. \A i \in DOMAIN Tail(s) : Tail(s)[i] = e => i = Len(Tail(s))
    BY <1>1, <1>2, <1>3, <1>9
  <2>2. Head(s) = e => Len(Tail(s)) = 0
    BY <1>1, <1>2, <1>3, <1>9
  <2> QED BY <1>2, <2>1, <2>2
<1>10. ToSet(Tail(s)) \subseteq ToSet(s) /\ Head(s) \in S
  BY <1>1, <1>3, <1>4, <1>6
<1> QED BY <1>2, <1>5, <1>7, <1>8, <1>9, <1>10

\* A batch is put on the wire.
LEMMA AppendFacts ==
  ASSUME NEW S, NEW s \in Seq(S), NEW e \in S, e \notin ToSet(s)
  PROVE  /\ Append(s, e) \in Seq(S) /\ ToSet(Append(s, e)) = ToSet(s) \cup {e}
         /\ Once(s) => Once(Append(s, e))
         /\ \A i \in DOMAIN Append(s, e) : Append(s, e)[i] = e => i = Len(Append(s, e))
<1> DEFINE t == Append(s, e)
<1>1. Len(s) \in Nat /\ DOMAIN s = 1 .. Len(s)
  OBVIOUS
<1>2. /\ t \in Seq(S) /\ Len(t) = Len(s) + 1 /\ DOMAIN t = 1 .. Len(s) + 1
      /\ t[Len(s) + 1] = e /\ \A i \in DOMAIN s : t[i] = s[i]
  OBVIOUS
<1> HIDE DEF t
<1>3. ToSet(s) = {s[i] : i \in DOMAIN s} /\ ToSet(t) = {t[i] : i \in DOMAIN t}
  BY DEF ToSet
<1>4. \A i \in DOMAIN s : s[i] # e
  BY <1>3
<1>5. \A i \in DOMAIN t : i = Len(s) + 1 \/ (i \in DOMAIN s /\ t[i] = s[i])
  BY <1>1, <1>2
<1>6. ToSet(t) = ToSet(s) \cup {e}
  <2>1. ToSet(t) \subseteq ToSet(s) \cup {e}
    BY <1>2, <1>3, <1>5
  <2>2. ToSet(s) \subseteq ToSet(t)
    BY <1>1, <1>2, <1>3
  <2>3. e \in ToSet(t)
    BY <1>1, <1>2, <1>3
  <2> QED BY <2>1, <2>2, <2>3
<1>7. Once(s) => Once(t)
  BY <1>1, <1>2, <1>4, <1>5 DEF Once
<1>8. \A i \in DOMAIN t : t[i] = e => i = Len(t)
  BY <1>1, <1>2, <1>4, <1>5
<1> QED BY <1>2, <1>6, <1>7, <1>8 DEF t

-----------------------------------------------------------------------------
\* What the server makes of a batch of one, two or three commands.
LEMMA OneCommand ==
  ASSUME NEW a, NEW m, NEW o \in Outcomes(<<a>>, m)
  PROVE  \/ o = <<"err", Fails(a, m)>>
         \/ MaySucceed(a, m) /\ o = <<"ok", Succeeds(a, m)>>
<1> DEFINE b == <<a>>
<1>1. Len(b) = 1 /\ b[1] = a
  OBVIOUS
<1> HIDE DEF b
<1>2. PICK n \in 0 .. Len(b), f \in [0 .. Len(b) -> Modes] :
       /\ f[0] = m
       /\ \A i \in 1 .. n : MaySucceed(b[i], f[i-1]) /\ f[i] = Succeeds(b[i], f[i-1])
       /\ o = IF n = Len(b) THEN <<"ok", f[n]>> ELSE <<"err", Fails(b[n+1], f[n])>>
  BY DEF Outcomes, b
<1>3. CASE n = 0
  BY <1>1, <1>2, <1>3
<1>4. CASE n = 1
  BY <1>1, <1>2, <1>4
<1> QED BY <1>1, <1>2, <1>3, <1>4

\* The second command runs only if the first has succeeded.
LEMMA TwoCommands ==
  ASSUME NEW a, NEW d, NEW m, NEW o \in Outcomes(<<a, d>>, m)
  PROVE  \/ o = <<"err", Fails(a, m)>>
         \/ /\ MaySucceed(a, m)
            /\ \/ o = <<"err", Fails(d, Succeeds(a, m))>>
               \/ MaySucceed(d, Succeeds(a, m)) /\ o = <<"ok", Succeeds(d, Succeeds(a, m))>>
<1> DEFINE b == <<a, d>>
<1>1. Len(b) = 2 /\ b[1] = a /\ b[2] = d
  OBVIOUS
<1> HIDE DEF b
<1>2. PICK n \in 0 .. Len(b), f \in [0 .. Len(b) -> Modes] :
       /\ f[0] = m
       /\ \A i \in 1 .. n : MaySucceed(b[i], f[i-1]) /\ f[i] = Succeeds(b[i], f[i-1])
       /\ o = IF n = Len(b) THEN <<"ok", f[n]>> ELSE <<"err", Fails(b[n+1], f[n])>>
  BY DEF Outcomes, b
<1>3. CASE n = 0
  BY <1>1, <1>2, <1>3
<1>4. ASSUME n >= 1 PROVE MaySucceed(a, m) /\ f[1] = Succeeds(a, m)
  <2>1. 1 \in 1 .. n /\ 1 - 1 = 0
    BY <1>1, <1>4
  <2> QED BY <1>1, <1>2, <2>1
<1>5. CASE n = 1
  BY <1>1, <1>2, <1>4, <1>5
<1>6. CASE n = 2
  <2>1. 2 \in 1 .. n /\ 2 - 1 = 1
    BY <1>6
  <2> QED BY <1>1, <1>2, <1>4, <1>6, <2>1
<1> QED BY <1>1, <1>2, <1>3, <1>5, <1>6

\* Where a batch of three commands may stop.
LEMMA ThreeCommands ==
  ASSUME NEW a, NEW d, NEW e, NEW m, NEW o \in Outcomes(<<a, d, e>>, m)
  PROVE  \/ o = <<"err", Fails(a, m)>>
         \/ o = <<"err", Fails(d, Succeeds(a, m))>>
         \/ o = <<"err", Fails(e, Succeeds(d, Succeeds(a, m)))>>
         \/ o = <<"ok", Succeeds(e, Succeeds(d, Succeeds(a, m)))>>
<1> DEFINE b == <<a, d, e>>
<1>1. Len(b) = 3 /\ b[1] = a /\ b[2] = d /\ b[3] = e
  OBVIOUS
<1> HIDE DEF b
<1>2. PICK n \in 0 .. Len(b), f \in [0 .. Len(b) -> Modes] :
       /\ f[0] = m
       /\ \A i \in 1 .. n : MaySucceed(b[i], f[i-1]) /\ f[i] = Succeeds(b[i], f[i-1])
       /\ o = IF n = Len(b) THEN <<"ok", f[n]>> ELSE <<"err", Fails(b[n+1], f[n])>>
  BY DEF Outcomes, b
<1>3. CASE n = 0
  BY <1>1, <1>2, <1>3
<1>4. ASSUME n >= 1 PROVE f[1] = Succeeds(a, m)
  <2>1. 1 \in 1 .. n /\ 1 - 1 = 0
    BY <1>1, <1>4
  <2> QED BY <1>1, <1>2, <2>1
<1>5. ASSUME n >= 2 PROVE f[2] = Succeeds(d, Succeeds(a, m))
  <2>1. 2 \in 1 .. n /\ 2 - 1 = 1
    BY <1>1, <1>5
  <2> QED BY <1>1, <1>2, <1>4, <1>5, <2>1
<1>6. CASE n = 1
  BY <1>1, <1>2, <1>4, <1>6
<1>7. CASE n = 2
  BY <1>1, <1>2, <1>5, <1>7
<1>8. CASE n = 3
  <2>1. 3 \in 1 .. n /\ 3 - 1 = 2
    BY <1>8
  <2> QED BY <1>1, <1>2, <1>5, <1>8, <2>1
<1> QED BY <1>1, <1>2, <1>3, <1>6, <1>7, <1>8

\* An outcome is a reply and a mode.
LEMMA OutcomeType ==
  ASSUME NEW b, NEW m, NEW o \in Outcomes(b, m)
  PROVE  o[1] \in {"ok", "err"} /\ o[2] \in Modes
BY DEF Outcomes

\* COMMIT or ROLLBACK on its own.
LEMMA EndOutcome ==
  ASSUME NEW m, NEW o \in Outcomes(<<"end">>, m)
  PROVE  o[2] = "idle"
BY OneCommand DEF Fails, Succeeds

-----------------------------------------------------------------------------
\* The batches of a statement on a pinned client, or outside of a transaction.
LEMMA PlainScript ==
  ASSUME NEW q \in Admitted, ~Opens(q)
  PROVE  LET b == Command(q) IN
           \/ ~q.commit /\ Script(q) = << <<b>> >>
           \/ q.commit /\ q.params /\ Script(q) = << <<b>>, <<"end">> >>
           \/ q.commit /\ ~q.params /\ Script(q) = << <<b, "end">> >>
BY DEF Opens, Script, Execute, Admitted

\* A command, or a batch, in front of one or two others.
LEMMA InFront ==
  ASSUME NEW a, NEW b, NEW c
  PROVE  <<a>> \o <<b>> = <<a, b>> /\ <<a>> \o <<b, c>> = <<a, b, c>>
<1> DEFINE S == {a, b, c}
           s == <<a>>
           t == <<b>>
           u == <<b, c>>
           v == <<a, b>>
           w == <<a, b, c>>
<1>1. s \in Seq(S) /\ t \in Seq(S) /\ u \in Seq(S) /\ v \in Seq(S) /\ w \in Seq(S)
  OBVIOUS
<1>2. /\ Len(s) = 1 /\ Len(t) = 1 /\ Len(u) = 2 /\ s[1] = a /\ t[1] = b /\ u[1] = b /\ u[2] = c
      /\ Len(v) = 2 /\ Len(w) = 3 /\ v[1] = a /\ v[2] = b /\ w[1] = a /\ w[2] = b /\ w[3] = c
  OBVIOUS
<1> HIDE DEF S, s, t, u, v, w
<1>3. s \o t = v
  <2>1. /\ s \o t \in Seq(S) /\ Len(s \o t) = Len(s) + Len(t)
        /\ \A i \in 1 .. Len(s) + Len(t) :
             (s \o t)[i] = IF i <= Len(s) THEN s[i] ELSE t[i - Len(s)]
    BY <1>1, ConcatProperties
  <2>2. Len(s \o t) = Len(v)
    BY <1>2, <2>1
  <2>3. \A i \in 1 .. 2 : (s \o t)[i] = v[i]
    <3>1. (s \o t)[1] = s[1] /\ (s \o t)[2] = t[1]
      BY <1>2, <2>1
    <3>2. \A i \in 1 .. 2 : i = 1 \/ i = 2
      OBVIOUS
    <3> QED BY <1>2, <3>1, <3>2
  <2> QED BY <1>1, <1>2, <2>1, <2>2, <2>3, SeqEqual
<1>4. s \o u = w
  <2>1. /\ s \o u \in Seq(S) /\ Len(s \o u) = Len(s) + Len(u)
        /\ \A i \in 1 .. Len(s) + Len(u) :
             (s \o u)[i] = IF i <= Len(s) THEN s[i] ELSE u[i - Len(s)]
    BY <1>1, ConcatProperties
  <2>2. Len(s \o u) = Len(w)
    BY <1>2, <2>1
  <2>3. \A i \in 1 .. 3 : (s \o u)[i] = w[i]
    <3>1. (s \o u)[1] = s[1] /\ (s \o u)[2] = u[1] /\ (s \o u)[3] = u[2]
      BY <1>2, <2>1
    <3>2. \A i \in 1 .. 3 : i = 1 \/ i = 2 \/ i = 3
      OBVIOUS
    <3> QED BY <1>2, <3>1, <3>2
  <2> QED BY <1>1, <1>2, <2>1, <2>2, <2>3, SeqEqual
<1> QED BY <1>3, <1>4 DEF s, t, u, v, w

\* The batches of a statement that opens a transaction.
LEMMA OpenScript ==
  ASSUME NEW q \in Admitted, Opens(q)
  PROVE  LET b == Command(q) IN
           \/ RefusedAfterBegin(q) /\ Script(q) = << <<"begin">> >>
           \/ ~q.start /\ q.control = "begin" /\ ~q.commit /\ Script(q) = << <<"begin">> >>
           \/ ~q.start /\ q.control = "begin" /\ q.commit /\ Script(q) = << <<"begin">>, <<"end">> >>
           \/ ~q.start /\ q.control = "begin" /\ q.commit /\ Script(q) = << <<"begin", "end">> >>
           \/ /\ q.start /\ q.control \in {"other", "end", "chain"} /\ ~q.commit
              /\ \/ q.control = "other" /\ Script(q) = << <<"begin", "work">> >>
                 \/ Script(q) = << <<"begin">>, <<b>> >>
           \/ /\ q.start /\ q.control \in {"other", "end", "chain"} /\ q.commit
              /\ \/ q.control = "other" /\ Script(q) = << <<"begin", "work", "end">> >>
                 \/ Script(q) = << <<"begin">>, <<b>>, <<"end">> >>
                 \/ Script(q) = << <<"begin">>, <<b, "end">> >>
<1> USE DEF Opens, Script, Execute, Admitted, RefusedAfterBegin, Command, Controls
<1>1. CASE ~q.start
  BY <1>1
<1>2. CASE RefusedAfterBegin(q)
  BY <1>2
<1>3. CASE q.start /\ q.control = "other" /\ ~q.params
  <2>1. CASE q.commit
    <3>1. Execute(q)[1] = <<"work", "end">> /\ Script(q) = << <<"begin">> \o Execute(q)[1] >>
      BY <1>3, <2>1
    <3>2. <<"begin">> \o <<"work", "end">> = <<"begin", "work", "end">>
      BY InFront
    <3> QED BY <1>3, <2>1, <3>1, <3>2
  <2>2. CASE ~q.commit
    <3>1. Execute(q)[1] = <<"work">> /\ Script(q) = << <<"begin">> \o Execute(q)[1] >>
      BY <1>3, <2>2
    <3>2. <<"begin">> \o <<"work">> = <<"begin", "work">>
      BY InFront
    <3> QED BY <1>3, <2>2, <3>1, <3>2
  <2> QED BY <2>1, <2>2
<1>4. CASE q.start /\ ~RefusedAfterBegin(q) /\ ~(q.control = "other" /\ ~q.params)
  <2>1. Script(q) = << <<"begin">> >> \o Execute(q) /\ q.control \in {"other", "end", "chain"}
    BY <1>4
  <2>2. CASE ~q.commit
    <3>1. << <<"begin">> >> \o << <<Command(q)>> >> = << <<"begin">>, <<Command(q)>> >>
      BY InFront
    <3>2. Script(q) = << <<"begin">> >> \o << <<Command(q)>> >>
      BY <2>1, <2>2
    <3> HIDE DEF Script, Command
    <3> QED BY <1>4, <2>1, <2>2, <3>1, <3>2
  <2>3. CASE q.commit /\ q.params
    <3>1. << <<"begin">> >> \o << <<Command(q)>>, <<"end">> >> = << <<"begin">>, <<Command(q)>>, <<"end">> >>
      BY InFront
    <3>2. Script(q) = << <<"begin">> >> \o << <<Command(q)>>, <<"end">> >>
      BY <2>1, <2>3
    <3> HIDE DEF Script, Command
    <3> QED BY <1>4, <2>1, <2>3, <3>1, <3>2
  <2>4. CASE q.commit /\ ~q.params
    <3>1. << <<"begin">> >> \o << <<Command(q), "end">> >> = << <<"begin">>, <<Command(q), "end">> >>
      BY InFront
    <3>2. Script(q) = << <<"begin">> >> \o << <<Command(q), "end">> >>
      BY <2>1, <2>4
    <3> HIDE DEF Script, Command
    <3> QED BY <1>4, <2>1, <2>4, <3>1, <3>2
  <2> QED BY <2>2, <2>3, <2>4
<1> QED BY <1>1, <1>2, <1>3, <1>4

\* One to three batches.
LEMMA ScriptLength ==
  ASSUME NEW q \in Admitted
  PROVE  Len(Script(q)) \in 1 .. 3
<1>1. CASE Opens(q)
  BY <1>1, OpenScript
<1>2. CASE ~Opens(q)
  BY <1>2, PlainScript
<1> QED BY <1>1, <1>2

\* Outside of a transaction nothing is begun by a statement that is not BEGIN.
LEMMA IdleOutcome ==
  ASSUME NEW q \in Admitted, ~Opens(q), q.control # "reject", NEW n \in 1 .. Len(Script(q)),
         NEW o \in Outcomes(Script(q)[n], "idle")
  PROVE  o[2] = "idle"
<1>1. Command(q) \in {"work", "end", "chain"}
  BY DEF Opens, Admitted, Command, Controls
<1>2. CASE Script(q)[n] = <<Command(q)>>
  BY <1>1, <1>2, OneCommand DEF Fails, Succeeds, MaySucceed
<1>3. CASE Script(q)[n] = <<"end">>
  BY <1>3, EndOutcome
<1>4. CASE Script(q)[n] = <<Command(q), "end">>
  BY <1>1, <1>4, TwoCommands DEF Fails, Succeeds, MaySucceed
<1> QED BY <1>2, <1>3, <1>4, PlainScript

\* What the statements of a lane do to its transaction.
LEMMA StatementOutcome ==
  ASSUME NEW q \in Admitted, ~Opens(q), q.control # "reject", NEW n \in 1 .. Len(Script(q)),
         NEW m \in Modes, NEW o \in Outcomes(Script(q)[n], m)
  PROVE  /\ o[1] = "ok" /\ n = Len(Script(q)) /\ EndsPin(q) => o[2] = "idle"
         /\ q.control = "chain" /\ ~q.commit /\ o[1] = "ok" => o[2] # "idle"
         /\ q.control = "other" /\ ~q.commit => (o[2] = "idle" <=> m = "idle")
<1>1. CASE ~q.commit /\ Script(q) = << <<Command(q)>> >>
  <2>1. n = 1 /\ Len(Script(q)) = 1 /\ Script(q)[n] = <<Command(q)>>
    BY <1>1
  <2>2. \/ o = <<"err", Fails(Command(q), m)>>
        \/ MaySucceed(Command(q), m) /\ o = <<"ok", Succeeds(Command(q), m)>>
    BY <2>1, OneCommand
  <2> QED BY <1>1, <2>2 DEF Fails, Succeeds, MaySucceed, EndsPin, Command, Modes
<1>2. CASE q.commit /\ Script(q) = << <<Command(q)>>, <<"end">> >>
  <2>1. n = 2 => Script(q)[n] = <<"end">>
    BY <1>2
  <2>2. n \in {1, 2} /\ Len(Script(q)) = 2
    BY <1>2
  <2> QED BY <1>2, <2>1, <2>2, EndOutcome
<1>3. CASE q.commit /\ Script(q) = << <<Command(q), "end">> >>
  <2>1. n = 1 /\ Len(Script(q)) = 1 /\ Script(q)[n] = <<Command(q), "end">>
    BY <1>3
  <2> QED BY <1>3, <2>1, TwoCommands DEF Succeeds
<1> QED BY <1>1, <1>2, <1>3, PlainScript

\* How a transaction is begun.
LEMMA OpenOutcome ==
  ASSUME NEW q \in Admitted, Opens(q), NEW n \in 1 .. Len(Script(q)), NEW m,
         NEW o \in Outcomes(Script(q)[n], m), n = 1 => m = "idle", n = 2 => m = "open"
  PROVE  /\ n = 1 /\ o[1] = "ok" /\ Len(Script(q)) > 1 => o[2] = "open"
         /\ ~q.commit =>
              /\ o[1] = "ok" /\ n = Len(Script(q)) /\ q.control # "end" => o[2] = "open"
              /\ n > 1 /\ o[1] = "err" /\ ~EndKind(q) => o[2] = "aborted"
         /\ o[1] = "ok" /\ n = Len(Script(q)) /\ ~RefusedAfterBegin(q) /\ EndsAtOnce(q) => o[2] = "idle"
<1> DEFINE b == Command(q)
           First == n = 1 /\ (o = <<"ok", "open">> \/ o = <<"err", "idle">>)
<1>1. Script(q)[n] = <<"begin">> /\ n = 1 => First
  BY OneCommand DEF Fails, Succeeds
<1>2. Script(q)[n] = <<"end">> => o[2] = "idle"
  BY EndOutcome
<1> HIDE DEF b
<1>3. CASE /\ Len(Script(q)) = 1 /\ Script(q)[1] = <<"begin">>
           /\ RefusedAfterBegin(q) \/ (~q.start /\ q.control = "begin" /\ ~q.commit)
  BY <1>1, <1>3 DEF RefusedAfterBegin, EndsAtOnce
<1>4. CASE q.commit /\ Len(Script(q)) = 2 /\ Script(q)[1] = <<"begin">> /\ Script(q)[2] = <<"end">>
  BY <1>1, <1>2, <1>4
<1>5. CASE q.commit /\ Len(Script(q)) = 1 /\ Script(q)[1] = <<"begin", "end">>
  BY <1>5, TwoCommands DEF Succeeds
<1>6. CASE /\ q.start /\ q.control = "other" /\ ~q.commit
           /\ Len(Script(q)) = 1 /\ Script(q)[1] = <<"begin", "work">>
  BY <1>6, TwoCommands DEF Succeeds, EndsAtOnce
<1>7. CASE /\ q.start /\ q.control \in {"other", "end", "chain"} /\ ~q.commit
           /\ Len(Script(q)) = 2 /\ Script(q)[1] = <<"begin">> /\ Script(q)[2] = <<b>>
  <2>1. CASE n = 2
    <3>1. \/ o = <<"err", Fails(b, "open")>>
          \/ MaySucceed(b, "open") /\ o = <<"ok", Succeeds(b, "open")>>
      BY <1>7, <2>1, OneCommand
    <3> QED BY <1>7, <2>1, <3>1 DEF Fails, Succeeds, MaySucceed, EndsAtOnce, EndKind, Command, b
  <2>2. CASE n = 1
    BY <1>1, <1>7, <2>2
  <2> QED BY <1>7, <2>1, <2>2
<1>8. CASE q.commit /\ Len(Script(q)) = 1 /\ Script(q)[1] = <<"begin", "work", "end">>
  BY <1>8, ThreeCommands DEF Succeeds
<1>9. CASE /\ q.commit /\ Len(Script(q)) = 3 /\ Script(q)[1] = <<"begin">>
           /\ Script(q)[3] = <<"end">>
  BY <1>1, <1>2, <1>9
<1>10. CASE /\ q.commit /\ Len(Script(q)) = 2 /\ Script(q)[1] = <<"begin">>
            /\ Script(q)[2] = <<b, "end">>
  <2>1. CASE n = 2
    BY <1>10, <2>1, TwoCommands DEF Succeeds
  <2>2. CASE n = 1
    BY <1>1, <1>10, <2>2
  <2> QED BY <1>10, <2>1, <2>2
<1> QED BY <1>3, <1>4, <1>5, <1>6, <1>7, <1>8, <1>9, <1>10, OpenScript DEF b

-----------------------------------------------------------------------------
AllInv == TxnInv /\ HoldInv /\ PinsInv /\ PoolInv /\ EndsOnPin

\* A borrow that owns a slot has a client of its own.
LEMMA SlotFacts ==
  ASSUME PoolInv, NEW b \in Requests, state[b] \in {"granted", "held", "late"}
  PROVE  /\ clientOf[b] \in Clients /\ clientOf[b] \in out /\ clientOf[b] \notin idle
         /\ \A d \in Requests :
              state[d] \in {"granted", "held", "late"} /\ clientOf[d] = clientOf[b] => d = b
BY RequestsAssumption DEF PoolInv, TypeOK, SlotInv, BrokenInv, OwnsSlot

\* What is on a wire was sent by a call or by close().
LEMMA OnWireSenders ==
  ASSUME TxnTypes, NEW c \in Clients
  PROVE  OnWire(c) \subseteq Senders
<1>1. wire[c] \in Seq(Senders)
  BY DEF TxnTypes
<1>2. \A i \in DOMAIN wire[c] : wire[c][i] \in Senders
  BY <1>1
<1> QED BY <1>2 DEF OnWire, ToSet

\* A call that has its reply, or does not use a client, has nothing on a wire.
LEMMA NotOnWire ==
  ASSUME TxnInv, NEW r \in Requests, reply[r] # "none" \/ ~InUse(r), NEW c \in Clients
  PROVE  OnWire(c) \subseteq Senders \ {r}
BY NamesAssumption, OnWireSenders DEF TxnInv, WireOK

\* A call that owns its borrow.
LEMMA OwningFacts ==
  ASSUME AllInv, NEW r \in Requests, Owning(r)
  PROVE  on[r] = r /\ state[r] = "held" /\ r \notin failedReturns /\ clientOf[r] \in Clients
BY SlotFacts DEF AllInv, TxnInv, ShapesOK, HoldInv, OwnBorrows, Owning

\* The client of a pinned lane.
LEMMA PinFacts ==
  ASSUME AllInv, NEW l \in Lanes, pins[l] # None
  PROVE  /\ pins[l] \in Requests /\ state[pins[l]] = "held" /\ pins[l] \notin failedReturns
         /\ pc[pins[l]] = "settled" /\ clientOf[pins[l]] \in Clients
         /\ \A k \in Lanes : pins[k] = pins[l] => k = l
BY SlotFacts DEF AllInv, PinsInv, PinsTypeOK, HoldInv, PinnedBorrows

\* Nothing happens to the calls but r.
Alone(r) ==
  \A s \in Requests \ {r} :
    pc'[s] = pc[s] /\ req'[s] = req[s] /\ at'[s] = at[s] /\ on'[s] = on[s]

\* A statement of another call is as ordinary as before.
LEMMA AloneFacts ==
  ASSUME NEW r, Alone(r), NEW s \in Senders, s # r
  PROVE  Ordinary(s)' <=> Ordinary(s)
BY DEF Alone, Ordinary, Senders

\* The promise of a call settles: no other call is concerned.
LEMMA SettleFacts ==
  ASSUME AllInv, NEW r \in Requests, Settle(r)
  PROVE  Alone(r) /\ pc'[r] = "settled" /\ at'[r] = 1 /\ at' \in [Requests -> 1 .. 3]
<1>1. /\ pc \in [Requests -> CallStates] /\ on \in [Requests -> Requests \cup {None}]
      /\ req \in [Requests -> Admitted \cup {None}] /\ at \in [Requests -> 1 .. 3]
  BY DEF AllInv, PinsInv, PinsTypeOK, HoldInv, AdmittedOK, TxnInv, TxnTypes
<1>2. 1 \in 1 .. 3
  OBVIOUS
<1> QED BY <1>1, <1>2 DEF Settle, Alone

-----------------------------------------------------------------------------
\* The session of a call that owns its borrow, seen from a step that leaves it alone.
SessionKept(b) ==
  /\ wire'[clientOf'[b]] = wire[clientOf[b]] /\ txn'[clientOf'[b]] = txn[clientOf[b]]
  /\ clientOf[b] \in broken => clientOf'[b] \in broken'

CallKept(b) ==
  pc'[b] = pc[b] /\ req'[b] = req[b] /\ at'[b] = at[b] /\ on'[b] = on[b] /\ reply'[b] = reply[b]

\* The session of a call is in the state it was in.
LEMMA OwnKept ==
  ASSUME NEW b, OwnOK(b), SessionKept(b), CallKept(b),
         \A x \in OnWire(clientOf[b]) : Ordinary(x) => Ordinary(x)'
  PROVE  OwnOK(b)'
<1>1. OnWire(clientOf[b])' = OnWire(clientOf[b]) /\ Mode(b)' = Mode(b)
  BY DEF SessionKept, OnWire, Mode
<1> QED BY <1>1 DEF OwnOK, SessionKept, CallKept

\* A transaction that is being opened has come as far as before.
LEMMA BeginKept ==
  ASSUME NEW b, BeginOK(b), SessionKept(b), CallKept(b)
  PROVE  BeginOK(b)'
<1>1. Mode(b)' = Mode(b)
  BY DEF SessionKept, Mode
<1> QED BY <1>1 DEF BeginOK, SessionKept, CallKept, Done, EndKind, RefusedAfterBegin, EndsAtOnce

\* A statement of a lane has what it had.
LEMMA StatementKept ==
  ASSUME NEW x, StatementOK(x), SessionKept(on[x]), CallKept(x)
  PROVE  StatementOK(x)'
<1>1. Mode(on[x])' = Mode(on[x])
  BY DEF SessionKept, CallKept, Mode
<1> QED BY <1>1 DEF StatementOK, SessionKept, CallKept, Done, EndsPin

-----------------------------------------------------------------------------
\* A call settles, its client stays where it is.
LEMMA TxnSettles ==
  ASSUME AllInv, NEW r \in Requests, SettlesOnly(r), reply[r] # "none" \/ ~InUse(r),
         UNCHANGED <<finishing, closer, closerLane>>, failedStarts' \subseteq Lanes,
         \A l \in Lanes : pins[l] # None => pins'[l] = pins[l],
         PinnedOK'
  PROVE  TxnInv'
<1> USE DEF AllInv
<1>0. Alone(r) /\ pc'[r] = "settled" /\ at'[r] = 1 /\ at' \in [Requests -> 1 .. 3]
  BY SettleFacts DEF SettlesOnly
<1>1. /\ UNCHANGED <<wire, txn, state, clientOf, out, idle, broken, failedReturns>>
      /\ \A s \in Senders \ {r} : reply'[s] = reply[s]
      /\ reply' \in [Senders -> {"none", "ok", "err"}]
  BY DEF SettlesOnly, poolVars, TxnInv, TxnTypes, Senders
<1>2. /\ \A c \in Clients : OnWire(c)' = OnWire(c) /\ OnWire(c) \subseteq Senders \ {r}
      /\ \A b \in Requests : Mode(b)' = Mode(b)
  BY <1>1, NotOnWire DEF TxnInv, OnWire, Mode
<1>3. \A s \in Senders \ {r} : Ordinary(s)' <=> Ordinary(s)
  BY <1>0, AloneFacts
<1> USE <1>0, <1>1
<1>4. TxnTypes'
  BY DEF TxnInv, TxnTypes
<1>5. ShapesOK'
  BY DEF TxnInv, ShapesOK, Alone, Owning, Opener, Settled
<1>6. NamedAlone'
  <2> SUFFICES ASSUME NEW s \in Requests, ~Settled(s)', req'[s].lane # DefaultLane
               PROVE  /\ pc'[s] = "pinned" => pins'[req'[s].lane] = on'[s]
                      /\ \A o \in Requests : ~Settled(o)' /\ req'[o].lane = req'[s].lane => o = s
    BY DEF NamedAlone
  <2>1. /\ s # r /\ ~Settled(s) /\ req'[s] = req[s] /\ req[s].lane \in Lanes /\ on'[s] = on[s]
        /\ pc'[s] = pc[s]
    BY DEF Alone, Settled, HoldInv, AdmittedOK, Admitted
  <2>2. \A o \in Requests : ~Settled(o)' => ~Settled(o) /\ req'[o] = req[o]
    BY DEF Alone, Settled
  <2>3. pc[s] = "pinned" => on[s] \in Requests
    BY DEF PinsInv, CallsUseBorrows
  <2> QED BY <2>1, <2>2, <2>3, NamesAssumption DEF TxnInv, NamedAlone
<1>7. WireOK'
  <2> SUFFICES ASSUME NEW c \in Clients
               PROVE  /\ Once(wire'[c])
                      /\ \A x \in OnWire(c) :
                           /\ reply'[x] = "none"
                           /\ IF x = Closer THEN closer' = "rolling" /\ clientOf'[pins'[closerLane']] = c
                              ELSE InUse(x)' /\ clientOf'[on'[x]] = c
    BY <1>2 DEF WireOK
  <2>1. closer = "rolling" => closerLane \in Lanes /\ pins[closerLane] # None
    BY DEF PinsInv, RollingHasPin
  <2> QED BY <1>2, <2>1 DEF TxnInv, WireOK, Alone, InUse, Senders
<1>8. QuietOK'
  BY <1>2, <1>3, SlotFacts DEF TxnInv, QuietOK
<1>9. FailedOK'
  <2> SUFFICES ASSUME NEW b \in failedReturns, NEW x \in OnWire(clientOf[b])
               PROVE  Ordinary(x)' /\ (Mode(b) # "idle" => txn[clientOf[b]].lane = DefaultLane)
    BY <1>2, RequestsAssumption, SlotFacts DEF TxnInv, FailedOK, PoolInv, ChargeInv, TypeOK
  <2>1. b \in Requests /\ clientOf[b] \in Clients
    BY RequestsAssumption, SlotFacts DEF PoolInv, ChargeInv, TypeOK
  <2> QED BY <1>2, <1>3, <2>1 DEF TxnInv, FailedOK
<1>10. OpenOK'
  <2> SUFFICES ASSUME NEW b \in Requests
               PROVE  (Owning(b)' => OwnOK(b)') /\ (pc'[b] = "open" => BeginOK(b)')
    BY DEF OpenOK
  <2>1. CASE b = r
    BY <2>1 DEF Owning
  <2>2. CASE b # r /\ Owning(b)
    <3>1. SessionKept(b) /\ CallKept(b) /\ clientOf[b] \in Clients
      BY <2>2, OwningFacts DEF SessionKept, CallKept, Alone, Senders
    <3> QED BY <1>2, <1>3, <2>2, <3>1, OwnKept, BeginKept DEF TxnInv, OpenOK, CallKept, Owning
  <2>3. CASE b # r /\ ~Owning(b)
    BY <2>3 DEF Owning, Alone
  <2> QED BY <2>1, <2>2, <2>3
<1>11. StatementsOK'
  <2> SUFFICES ASSUME NEW x \in Requests, pc'[x] = "pinned"
               PROVE  StatementOK(x)'
    BY DEF StatementsOK
  <2>1. x # r /\ pc[x] = "pinned" /\ CallKept(x) /\ SessionKept(on[x])
    BY DEF CallKept, SessionKept, Alone, Senders
  <2> QED BY <2>1, StatementKept DEF TxnInv, StatementsOK
<1>12. CloserOK'
  <2>1. closer = "rolling" => closerLane \in Lanes /\ pins[closerLane] # None
    BY DEF PinsInv, RollingHasPin
  <2>2. closer = "rolling" => /\ pins'[closerLane] = pins[closerLane]
                             /\ clientOf[pins[closerLane]] \in Clients
                             /\ pins[closerLane] \in Requests
    BY <2>1, PinFacts
  <2>3. reply'[Closer] = reply[Closer]
    BY NamesAssumption DEF Senders
  <2> QED BY <1>2, <2>2, <2>3 DEF TxnInv, CloserOK, Mode
<1> QED BY <1>4, <1>5, <1>6, <1>7, <1>8, <1>9, <1>10, <1>11, <1>12 DEF TxnInv

-----------------------------------------------------------------------------
\* The session of a lane, seen from a step that leaves it alone.
LEMMA PinKept ==
  ASSUME NEW l, PinOK(l), pins'[l] = pins[l], SessionKept(pins[l]), Begun(l)' => Begun(l),
         \A x \in OnWire(clientOf[pins[l]]) : x # Closer => pc'[x] = pc[x] /\ on'[x] = on[x]
  PROVE  PinOK(l)'
<1>1. OnWire(clientOf[pins[l]])' = OnWire(clientOf[pins[l]]) /\ Mode(pins[l])' = Mode(pins[l])
  BY DEF SessionKept, OnWire, Mode
<1> QED BY <1>1 DEF PinOK, SessionKept

\* What a lane's statements need to have begun, in a step of another call.
LEMMA BegunKept ==
  ASSUME NEW l, NEW r \in Requests, Alone(r), pins'[l] = pins[l],
         adapterClosing => adapterClosing', l \in failedStarts => l \in failedStarts',
         finishing \subseteq finishing',
         pc[r] = "pinned" /\ req[r].lane = l => ~EndKind(req[r])
  PROVE  Begun(l)' => Begun(l)
BY DEF Begun, Alone, EndKind

\* A call is refused.
LEMMA TxnRefused ==
  ASSUME AllInv, NEW r \in Requests, NEW q, NEW l, CallRefused(r, q, l)
  PROVE  TxnInv'
<1>1. /\ SettlesOnly(r) /\ pc[r] = "idle" /\ Settle(r)
      /\ UNCHANGED <<pins, failedStarts, finishing, closer, closerLane, wire, txn, clientOf,
                     broken>>
  BY DEF CallRefused, Admissible, closeVars, SettlesOnly, poolVars
<1>2. PinnedOK'
  <2> SUFFICES ASSUME NEW k \in Lanes, pins[k] # None PROVE PinOK(k)'
    BY <1>1 DEF PinnedOK
  <2>1. Begun(k)' => Begun(k)
    BY <1>1, SettleFacts, BegunKept DEF adapterClosing
  <2>2. clientOf[pins[k]] \in Clients
    BY PinFacts
  <2>3. OnWire(clientOf[pins[k]]) \subseteq Senders \ {r}
    BY <1>1, <2>2, NotOnWire DEF AllInv, InUse
  <2> QED BY <1>1, <2>1, <2>3, SettleFacts, PinKept
             DEF SessionKept, Alone, Senders, AllInv, TxnInv, PinnedOK
<1>3. failedStarts' \subseteq Lanes /\ ~InUse(r)
  BY <1>1 DEF AllInv, TxnInv, TxnTypes, InUse
<1> QED BY <1>1, <1>2, <1>3, TxnSettles

\* A failed or an ordinary statement of a lane, or a COMMIT AND CHAIN, is done.
LEMMA TxnContinues ==
  ASSUME AllInv, NEW r \in Requests, PinnedContinues(r)
  PROVE  TxnInv'
<1>1. /\ SettlesOnly(r) /\ pc[r] = "pinned" /\ Settle(r) /\ reply[r] # "none"
      /\ UNCHANGED <<pins, finishing, closer, closerLane, wire, txn, clientOf, broken>>
      /\ failedStarts' \in {failedStarts, failedStarts \ {req[r].lane}}
  BY DEF PinnedContinues, closeVars, SettlesOnly, poolVars, Completed, ClearFailedStart
<1>2. PinnedOK'
  <2> SUFFICES ASSUME NEW k \in Lanes, pins[k] # None PROVE PinOK(k)'
    BY <1>1 DEF PinnedOK
  <2>1. clientOf[pins[k]] \in Clients
    BY PinFacts
  <2>2. OnWire(clientOf[pins[k]]) \subseteq Senders \ {r}
    BY <1>1, <2>1, NotOnWire DEF AllInv
  <2>3. CASE k = req[r].lane /\ EndKind(req[r])
    <3>1. k # DefaultLane => Mode(on[r]) # "idle" /\ pins[k] = on[r]
      <4>1. req[r].control = "chain" /\ ~req[r].commit /\ reply[r] = "ok"
        BY <2>3 DEF PinnedContinues, Completed, EndKind, EndsPin
      <4>2. StatementOK(r) /\ ~Settled(r)
        BY <1>1 DEF AllInv, TxnInv, StatementsOK, Settled
      <4> QED BY <1>1, <2>3, <4>1, <4>2 DEF AllInv, TxnInv, NamedAlone, StatementOK
    <3>2. Begun(k)' => Mode(pins[k]) # "idle"
      BY <3>1 DEF Begun
    <3>3. PinOK(k) /\ Mode(pins[k])' = Mode(pins[k])
      BY <1>1 DEF AllInv, TxnInv, PinnedOK, Mode
    <3> QED BY <1>1, <2>2, <3>2, <3>3, SettleFacts DEF PinOK, OnWire, Alone, Senders
  <2>4. CASE ~(k = req[r].lane /\ EndKind(req[r]))
    <3>1. k \in failedStarts => k \in failedStarts'
      BY <2>4 DEF PinnedContinues, ClearFailedStart
    <3>2. Begun(k)' => Begun(k)
      BY <1>1, <2>4, <3>1, SettleFacts, BegunKept DEF adapterClosing
    <3> QED BY <1>1, <2>2, <3>2, SettleFacts, PinKept
        DEF SessionKept, Alone, Senders, AllInv, TxnInv, PinnedOK
  <2> QED BY <2>3, <2>4
<1>3. failedStarts' \subseteq Lanes
  BY <1>1 DEF AllInv, TxnInv, TxnTypes
<1> QED BY <1>1, <1>2, <1>3, TxnSettles

\* An open succeeds, or fails and leaves its transaction to the lane's rollback.
LEMMA TxnPins ==
  ASSUME AllInv, NEW r \in Requests, OpenPins(r) \/ OpenFailsPinned(r)
  PROVE  TxnInv'
<1>0. PICK l \in Lanes : l = req[r].lane
  BY DEF AllInv, HoldInv, AdmittedOK, Settled, Admitted, OpenPins, OpenFailsPinned,
     OpenSucceeded, OpenFailed
<1>1. /\ SettlesOnly(r) /\ pc[r] = "open" /\ Settle(r) /\ reply[r] # "none"
      /\ UNCHANGED <<finishing, closer, closerLane, wire, txn, clientOf, broken>>
      /\ pins' = [pins EXCEPT ![l] = r]
      /\ failedStarts' \in {failedStarts, failedStarts \cup {l}}
  BY <1>0
     DEF OpenPins, OpenFailsPinned, OpenSucceeded, OpenFailed, closeVars, SettlesOnly, poolVars,
         Completed
<1>2. pins[l] = None /\ pins'[l] = r /\ \A k \in Lanes \ {l} : pins'[k] = pins[k]
  BY <1>0, <1>1
     DEF AllInv, HoldInv, OpeningOK, Opener, AdmittedOK, Settled, Admitted, PinsInv, PinsTypeOK
<1>3. Owning(r) /\ OwnOK(r) /\ BeginOK(r) /\ clientOf[r] \in Clients /\ on[r] = r
  BY <1>1, OwningFacts DEF Owning, AllInv, TxnInv, OpenOK
<1>4. PinOK(l)'
  <2>1. wire[clientOf[r]] = <<>> /\ OnWire(clientOf[r]) = {}
    BY <1>1, <1>3 DEF OwnOK, OnWire, ToSet
  <2>2. Mode(r) # "idle" => txn[clientOf[r]].lane = l
    BY <1>0, <1>3 DEF OwnOK
  <2>3. Begun(l)' => Mode(r) # "idle" \/ clientOf[r] \in broken
    <3> SUFFICES ASSUME Begun(l)' PROVE Mode(r) # "idle" \/ clientOf[r] \in broken
      OBVIOUS
    <3>1. ~req[r].commit
      <4>1. r \notin finishing
        BY <1>1, <1>2 DEF Begun
      <4> QED BY <1>1, <1>3, <4>1 DEF AllInv, TxnInv, ShapesOK, Settled
    <3>2. Opens(req[r])
      BY <1>1 DEF AllInv, TxnInv, ShapesOK, Opener
    <3>3. CASE OpenPins(r)
      BY <1>3, <3>1, <3>2, <3>3
         DEF OpenPins, OpenSucceeded, Completed, Done, BeginOK, EndsAtOnce, Opens
    <3>4. CASE OpenFailsPinned(r)
      <4>1. Confirmed(r) /\ ~EndKind(req[r])
        BY <1>0, <1>2, <3>4 DEF OpenFailsPinned, Begun, KeepsFailedOpen
      <4>2. CASE reply[r] = "err"
        <5>1. at[r] > 1
          BY <4>1, <4>2 DEF Confirmed
        <5> QED BY <1>3, <3>1, <4>1, <4>2, <5>1 DEF BeginOK
      <4>3. CASE Completed(r) /\ RefusedAfterBegin(req[r])
        BY <1>3, <3>1, <4>3 DEF BeginOK, Done, Completed, RefusedAfterBegin
      <4> QED BY <3>4, <4>2, <4>3 DEF OpenFailsPinned, OpenFailed
    <3> QED BY <3>3, <3>4
  <2>4. OnWire(clientOf[r])' = {} /\ Mode(r)' = Mode(r)
    BY <1>1, <2>1 DEF OnWire, Mode
  <2> QED BY <1>1, <1>2, <2>2, <2>3, <2>4 DEF PinOK, Mode
<1>5. ASSUME NEW k \in Lanes \ {l}, pins[k] # None
      PROVE  PinOK(k)'
  <2>1. OnWire(clientOf[pins[k]]) \subseteq Senders \ {r}
    BY <1>1, <1>5, PinFacts, NotOnWire DEF AllInv
  <2>2. Begun(k)' => Begun(k)
    BY <1>0, <1>1, <1>2, <1>5, SettleFacts, BegunKept DEF adapterClosing
  <2> QED BY <1>1, <1>2, <1>5, <2>1, <2>2, SettleFacts, PinKept
      DEF SessionKept, Alone, Senders, AllInv, TxnInv, PinnedOK
<1>6. PinnedOK'
  BY <1>2, <1>4, <1>5 DEF PinnedOK
<1>7. failedStarts' \subseteq Lanes
  BY <1>1, <1>2 DEF AllInv, TxnInv, TxnTypes
<1> QED BY <1>1, <1>2, <1>6, <1>7, TxnSettles

-----------------------------------------------------------------------------
\* What is lost with the destroyed clients G.
WiresLost(G, r) ==
  /\ wire' = [d \in Clients |-> IF d \in G THEN <<>> ELSE wire[d]]
  /\ txn' = [d \in Clients |-> IF d \in G THEN NoTxn ELSE txn[d]]
  /\ reply' \in [Senders -> {"none", "ok", "err"}]
  /\ \A y \in Senders \ {r} :
       reply'[y] = IF \E d \in G : y \in OnWire(d) THEN "err" ELSE reply[y]

\* A session that may be left to others.
LeftClean(c) ==
  \A y \in OnWire(c) : Ordinary(y) /\ (txn[c].mode # "idle" => txn[c].lane = DefaultLane)

(***************************************************************************)
(* Clients are given back: a call r settles, or close() has returned a     *)
(* lane, or the pool ends, and the sessions of G are lost.                 *)
(***************************************************************************)
LEMMA TxnGivesBack ==
  ASSUME AllInv, HoldInv', NEW r \in Senders \cup {None}, NEW G \in SUBSET Clients,
         Alone(r), UNCHANGED <<finishing, clientOf>>, at' \in [Requests -> 1 .. 3],
         r \in Requests => /\ pc'[r] = "settled" /\ at'[r] = 1 /\ (reply[r] # "none" \/ ~InUse(r))
                           /\ pc[r] = "pinned" => pins'[req[r].lane] = None,
         WiresLost(G, r),
         \A d \in G : \A y \in OnWire(d) : Ordinary(y),
         \A d \in broken : d \in G \/ d \in broken',
         \A d \in out \ out' : (d \in G \/ txn[d].mode = "idle") /\ \A y \in OnWire(d) : Ordinary(y),
         failedReturns' \subseteq Requests,
         \A b \in failedReturns' \ failedReturns : clientOf[b] \in Clients /\ LeftClean(clientOf[b]),
         \A b \in Requests : /\ state'[b] = "late" => b \in failedReturns'
                             /\ state'[b] = "granted" => state[b] = "granted" /\ clientOf[b] \notin G,
         \A l \in Lanes : \/ pins'[l] = None
                          \/ /\ pins'[l] = pins[l] /\ clientOf[pins[l]] \notin G
                             /\ l \in failedStarts => l \in failedStarts',
         failedStarts' \subseteq Lanes,
         \A s \in Requests \ {r} : pc[s] = "pinned" /\ req[s].lane # DefaultLane =>
                                     pins'[req[s].lane] = pins[req[s].lane],
         \A b \in Requests \ {r} : Owning(b) => clientOf[b] \notin G,
         \/ /\ r # Closer /\ UNCHANGED <<closer, closerLane>>
            /\ closer = "rolling" => pins'[closerLane] = pins[closerLane]
         \/ /\ r = Closer /\ closer = "rolling" /\ reply[Closer] # "none"
            /\ closer' = "returning" /\ closerLane' = None
  PROVE  TxnInv'
<1> USE DEF AllInv, WiresLost
<1>1. \A c \in Clients : OnWire(c) \subseteq Senders \ {r}
  <2>1. \A c \in Clients : OnWire(c) \subseteq Senders
    BY OnWireSenders DEF TxnInv
  <2>2. r = Closer => \A c \in Clients : Closer \notin OnWire(c)
    BY DEF TxnInv, WireOK
  <2>3. r \in Requests => \A c \in Clients : OnWire(c) \subseteq Senders \ {r}
    BY NotOnWire
  <2> QED BY <2>1, <2>2, <2>3, NamesAssumption DEF Senders
<1>2. \A c \in Clients : c \notin G => OnWire(c)' = OnWire(c)
  BY DEF OnWire
<1>3. \A c \in G : OnWire(c)' = {}
  BY DEF OnWire, ToSet
<1>4. \A s \in Senders \ {r} : Ordinary(s)' <=> Ordinary(s)
  BY AloneFacts
<1>5. \A c \in Clients \ G : \A y \in OnWire(c) : reply'[y] = reply[y]
  <2> SUFFICES ASSUME NEW c \in Clients \ G, NEW y \in OnWire(c), NEW d \in G, y \in OnWire(d)
               PROVE  FALSE
    BY <1>1
  <2>1. y \in Requests /\ y # Closer
    BY NamesAssumption DEF Ordinary
  <2> QED BY <2>1 DEF TxnInv, WireOK
<1>6. \A c \in Clients : txn'[c] = IF c \in G THEN NoTxn ELSE txn[c]
  OBVIOUS
<1>7. NoTxn.mode = "idle"
  BY DEF NoTxn
<1>10. TxnTypes'
  <2>1. wire' \in [Clients -> Seq(Senders)]
    BY DEF TxnInv, TxnTypes
  <2>2. txn' \in [Clients -> [mode : Modes, lane : Lanes \cup {None}]]
    BY DEF TxnInv, TxnTypes, NoTxn, Modes
  <2> QED BY <2>1, <2>2 DEF TxnInv, TxnTypes, CloserStates
<1>11. ShapesOK'
  BY NamesAssumption DEF TxnInv, ShapesOK, Alone, Owning, Opener, Settled
<1>12. NamedAlone'
  <2> SUFFICES ASSUME NEW s \in Requests, ~Settled(s)', req'[s].lane # DefaultLane
               PROVE  /\ pc'[s] = "pinned" => pins'[req'[s].lane] = on'[s]
                      /\ \A o \in Requests : ~Settled(o)' /\ req'[o].lane = req'[s].lane => o = s
    BY DEF NamedAlone
  <2>1. /\ s # r /\ ~Settled(s) /\ req'[s] = req[s] /\ req[s].lane \in Lanes /\ on'[s] = on[s]
        /\ pc'[s] = pc[s]
    BY DEF Alone, Settled, HoldInv, AdmittedOK, Admitted
  <2>2. \A o \in Requests : ~Settled(o)' => ~Settled(o) /\ req'[o] = req[o]
    BY DEF Alone, Settled
  <2> QED BY <2>1, <2>2 DEF TxnInv, NamedAlone
<1>13. WireOK'
  <2> SUFFICES ASSUME NEW c \in Clients \ G
               PROVE  /\ Once(wire'[c])
                      /\ \A x \in OnWire(c) :
                           /\ reply'[x] = "none"
                           /\ IF x = Closer THEN closer' = "rolling" /\ clientOf'[pins'[closerLane']] = c
                              ELSE InUse(x)' /\ clientOf'[on'[x]] = c
    <3>1. Once(<<>>)
      BY DEF Once
    <3> QED BY <1>2, <1>3, <3>1 DEF WireOK
  <2>1. \A x \in OnWire(c) : x # Closer => InUse(x)' /\ clientOf'[on'[x]] = c
    BY <1>1 DEF TxnInv, WireOK, Alone, InUse, Senders
  <2>2. Closer \in OnWire(c) => closer' = "rolling" /\ clientOf'[pins'[closerLane']] = c
    BY <1>1 DEF TxnInv, WireOK
  <2>3. \A x \in OnWire(c) : reply'[x] = "none"
    BY <1>5 DEF TxnInv, WireOK
  <2>4. Once(wire'[c])
    BY DEF TxnInv, WireOK
  <2> QED BY <2>1, <2>2, <2>3, <2>4
<1>14. QuietOK'
  <2>1. ASSUME NEW c \in Clients \ out'
        PROVE  txn'[c].mode = "idle" /\ \A x \in OnWire(c)' : Ordinary(x)'
    BY <1>1, <1>2, <1>3, <1>4, <1>6, <1>7, <2>1 DEF TxnInv, QuietOK
  <2>2. ASSUME NEW b \in Requests, state'[b] = "granted"
        PROVE  Mode(b)' = "idle" /\ \A x \in OnWire(clientOf[b])' : Ordinary(x)'
    <3>1. state[b] = "granted" /\ clientOf[b] \in Clients \ G
      BY <2>2, SlotFacts
    <3> QED BY <1>1, <1>2, <1>4, <1>6, <3>1 DEF TxnInv, QuietOK, Mode
  <2> QED BY <2>1, <2>2 DEF QuietOK, OnWire
<1>15. FailedOK'
  <2>1. ASSUME NEW b \in failedReturns'
        PROVE  \A x \in OnWire(clientOf[b])' :
                 Ordinary(x)' /\ (Mode(b)' # "idle" => txn'[clientOf[b]].lane = DefaultLane)
    <3>1. b \in Requests
      BY <2>1
    <3>2. clientOf[b] \in Clients /\ LeftClean(clientOf[b])
      <4>1. CASE b \in failedReturns
        BY <3>1, <4>1, SlotFacts DEF TxnInv, FailedOK, LeftClean, Mode, PoolInv, ChargeInv
      <4> QED BY <2>1, <4>1
    <3> QED BY <1>1, <1>2, <1>3, <1>4, <1>6, <1>7, <3>2 DEF LeftClean, Mode
  <2> QED BY <2>1 DEF FailedOK, OnWire
<1>16. OpenOK'
  <2> SUFFICES ASSUME NEW b \in Requests
               PROVE  (Owning(b)' => OwnOK(b)') /\ (pc'[b] = "open" => BeginOK(b)')
    BY DEF OpenOK
  <2>1. CASE b = r
    BY <2>1 DEF Owning
  <2>2. CASE b # r /\ Owning(b)
    <3>1. clientOf[b] \in Clients \ G /\ on[b] = b
      BY <2>2, OwningFacts
    <3>2. SessionKept(b)
      BY <3>1 DEF SessionKept
    <3>3. reply'[b] = reply[b]
      <4>1. \A d \in G : b \notin OnWire(d)
        BY <2>2, NamesAssumption DEF Ordinary, Owning
      <4> QED BY <2>2, <4>1 DEF Senders
    <3>4. CallKept(b) /\ \A x \in OnWire(clientOf[b]) : Ordinary(x) => Ordinary(x)'
      BY <1>1, <1>4, <2>2, <3>1, <3>3 DEF CallKept, Alone
    <3> QED BY <2>2, <3>2, <3>4, OwnKept, BeginKept DEF TxnInv, OpenOK, CallKept, Owning
  <2>3. CASE b # r /\ ~Owning(b)
    BY <2>3 DEF Owning, Alone
  <2> QED BY <2>1, <2>2, <2>3
<1>17. PinnedOK'
  <2> SUFFICES ASSUME NEW l \in Lanes, pins'[l] # None PROVE PinOK(l)'
    BY DEF PinnedOK
  <2>1. /\ pins'[l] = pins[l] /\ clientOf[pins[l]] \in Clients \ G
        /\ (l \in failedStarts => l \in failedStarts')
    BY PinFacts
  <2>2. Begun(l)' => Begun(l)
    <3>1. adapterClosing => adapterClosing'
      BY DEF adapterClosing
    <3>2. \A x \in Requests : pc[x] = "pinned" /\ req[x].lane = l => x # r
      BY NamesAssumption
    <3> QED BY <2>1, <3>1, <3>2 DEF Begun, Alone, EndKind
  <2>3. SessionKept(pins[l])
    BY <2>1 DEF SessionKept
  <2>4. \A x \in OnWire(clientOf[pins[l]]) : x # Closer => pc'[x] = pc[x] /\ on'[x] = on[x]
    BY <1>1, <2>1 DEF Alone, Senders
  <2> QED BY <2>1, <2>2, <2>3, <2>4, PinKept DEF TxnInv, PinnedOK
<1>18. StatementsOK'
  <2> SUFFICES ASSUME NEW x \in Requests, pc'[x] = "pinned"
               PROVE  StatementOK(x)'
    BY DEF StatementsOK
  <2>1. /\ x # r /\ pc[x] = "pinned" /\ req'[x] = req[x] /\ at'[x] = at[x] /\ on'[x] = on[x]
        /\ req[x].lane \in Lanes /\ on[x] \in Requests /\ StatementOK(x)
    BY DEF Alone, HoldInv, AdmittedOK, Admitted, Settled, PinsInv, CallsUseBorrows, TxnInv,
       StatementsOK
  <2>2. Done(x)' => Done(x)
    BY <2>1 DEF Done, Senders
  <2>4. CASE req[x].lane = DefaultLane
    <3> SUFFICES ASSUME Done(x), EndsPin(req[x]) PROVE Mode(on[x])' = "idle"
      BY <2>1, <2>2, <2>4 DEF StatementOK, EndsPin
    <3>1. pins[req[x].lane] = on[x]
      BY <2>1 DEF EndsOnPin, Ending, Terminal, EndKind, EndsPin
    <3>2. clientOf[on[x]] \in Clients
      BY <2>1, <3>1, PinFacts, NamesAssumption
    <3> QED BY <1>6, <1>7, <2>1, <3>2 DEF StatementOK, Mode
  <2>5. CASE req[x].lane # DefaultLane
    <3>1. pins[req[x].lane] = on[x] /\ pins'[req[x].lane] = on[x]
      BY <2>1, <2>5 DEF TxnInv, NamedAlone, Settled
    <3>2. clientOf[on[x]] \in Clients \ G
      BY <2>1, <3>1, PinFacts, NamesAssumption
    <3>3. SessionKept(on[x])
      BY <3>2 DEF SessionKept
    <3>4. reply'[x] = reply[x]
      <4>1. \A d \in G : x \notin OnWire(d)
        BY <2>5 DEF Ordinary
      <4> QED BY <2>1, <4>1 DEF Senders
    <3> QED BY <2>1, <3>3, <3>4, StatementKept DEF CallKept
  <2> QED BY <2>4, <2>5
<1>19. CloserOK'
  <2> SUFFICES ASSUME closer' = "rolling", r # Closer, UNCHANGED <<closer, closerLane>>
               PROVE  /\ OnWire(clientOf[pins[closerLane]])' \subseteq {Closer}
                      /\ reply'[Closer] = "ok" => Mode(pins[closerLane])' = "idle"
    BY DEF CloserOK
  <2>1. closerLane \in Lanes /\ pins[closerLane] # None /\ pins'[closerLane] = pins[closerLane]
    BY DEF PinsInv, RollingHasPin
  <2>2. clientOf[pins[closerLane]] \in Clients \ G
    BY <2>1, PinFacts
  <2>3. reply'[Closer] = reply[Closer]
    <3>1. \A d \in G : Closer \notin OnWire(d)
      BY NamesAssumption DEF Ordinary
    <3> QED BY <3>1 DEF Senders
  <2> QED BY <1>2, <2>1, <2>2, <2>3 DEF TxnInv, CloserOK, Mode
<1> QED BY <1>10, <1>11, <1>12, <1>13, <1>14, <1>15, <1>16, <1>17, <1>18, <1>19 DEF TxnInv

\* A borrow b is given back, with the session of its client in G if it is destroyed.
Given(G, x, b, destroy) ==
  /\ WiresLost(G, x) /\ clientOf' = clientOf /\ clientOf[b] \in Clients
  /\ \A d \in broken : d \in G \/ d \in broken'
  /\ out \ out' \subseteq {clientOf[b]}
  /\ out' # out /\ destroy => G = {clientOf[b]}
  /\ failedReturns' \subseteq Requests /\ failedReturns' \subseteq failedReturns \cup {b}
  /\ \A d \in Requests : /\ state'[d] = "late" => d \in failedReturns'
                         /\ state'[d] = "granted" => state[d] = "granted" /\ clientOf[d] \notin G
                         /\ d # b /\ state[d] = "held" => clientOf[d] \notin G

\* What release(), or a late checkout, leaves behind: the session of b is lost or
\* as it was.
LEMMA ReleaseFacts ==
  ASSUME AllInv, NEW x \in Senders \cup {None}, NEW b \in Requests, NEW destroy \in BOOLEAN,
         \/ \E ok \in BOOLEAN : Releases(x, b, destroy, ok)
         \/ LateCheckout(b) /\ LoseDestroyed(x) /\ destroy
  PROVE  \E G \in {{}, {clientOf[b]}} : Given(G, x, b, destroy)
<1> USE RequestsAssumption
<1> DEFINE c == clientOf[b]
<1>1. state[b] \in {"held", "granted"} /\ c \in Clients /\ c \in out /\ c \notin idle
      /\ \A d \in Requests : state[d] \in {"granted", "held", "late"} /\ clientOf[d] = c => d = b
  BY SlotFacts DEF AllInv, Releases, ReleaseOk, ReleaseThrows, LateCheckout
<1>2. /\ state \in [Requests -> BorrowStates] /\ failedReturns \subseteq Requests
      /\ \A d \in Requests : state[d] = "late" => d \in failedReturns
      /\ reply \in [Senders -> {"none", "ok", "err"}]
      /\ wire \in [Clients -> Seq(Senders)]
      /\ txn \in [Clients -> [mode : Modes, lane : Lanes \cup {None}]]
  BY DEF AllInv, PoolInv, TypeOK, TxnInv, FailedOK, TxnTypes
<1>3. /\ clientOf' = clientOf
      /\ \/ /\ (state' = state /\ state[b] = "held") \/ state' = [state EXCEPT ![b] = "late"]
            /\ out' = out /\ idle' = idle /\ broken' = broken
            /\ failedReturns' = failedReturns \cup {b}
         \/ /\ state' = [state EXCEPT ![b] = "returned"] /\ out' = out \ {c}
            /\ failedReturns' = failedReturns \ {b}
            /\ \/ idle' = (idle \cup {c}) /\ broken' = broken /\ ~destroy
               \/ idle' = (idle \cup {c}) \ {c} /\ broken' = broken \ {c}
  <2>1. ClientsOf({b}) = {c} /\ ClientsOf({}) = {}
    BY DEF ClientsOf
  <2>2. \A d \in BOOLEAN : Destroyed(b, d) \in {{}, {b}} /\ (d => Destroyed(b, d) = {b})
    BY DEF Destroyed
  <2>3. ASSUME NEW d \in BOOLEAN, Returns(b, d)
        PROVE  /\ clientOf' = clientOf /\ state' = [state EXCEPT ![b] = "returned"]
               /\ out' = out \ {c}
               /\ failedReturns' = failedReturns \ {b}
               /\ \/ idle' = (idle \cup {c}) /\ broken' = broken /\ ~d
                  \/ idle' = (idle \cup {c}) \ {c} /\ broken' = broken \ {c}
    BY <2>1, <2>2, <2>3 DEF Returns, SetState, TakeBack, Discharge
  <2>4. ASSUME ReturnThrows(b)
        PROVE  UNCHANGED <<clientOf, out, idle,
                           broken>> /\ failedReturns' = failedReturns \cup {b}
    BY <2>4 DEF ReturnThrows
  <2>5. CASE \E ok \in BOOLEAN : Releases(x, b, destroy, ok)
    BY <2>3, <2>4, <2>5 DEF Releases, ReleaseOk, ReleaseThrows
  <2>6. CASE LateCheckout(b) /\ destroy
    BY <2>3, <2>4, <2>6 DEF LateCheckout, SetState
  <2> QED BY <2>5, <2>6
<1> DEFINE gone == (out \ out') \ idle'
<1>4. /\ wire' = [d \in Clients |-> IF d \in gone THEN <<>> ELSE wire[d]]
      /\ txn' = [d \in Clients |-> IF d \in gone THEN NoTxn ELSE txn[d]]
      /\ reply' = [y \in Senders |-> IF y = x THEN "none"
                     ELSE IF y \in {z \in Senders : \E d \in gone : z \in ToSet(wire[d])} THEN "err"
                     ELSE reply[y]]
  BY DEF Releases, LoseDestroyed
<1> HIDE DEF gone
<1>5. WiresLost(gone, x)
  BY <1>2, <1>4 DEF WiresLost, OnWire
<1>6. /\ gone \in {{}, {c}} /\ (out' # out /\ destroy => gone = {c})
      /\ \A d \in broken : d \in gone \/ d \in broken'
  BY <1>1, <1>3 DEF gone
<1>7. /\ failedReturns' \subseteq Requests /\ failedReturns' \subseteq failedReturns \cup {b}
      /\ out \ out' \subseteq {c}
  BY <1>2, <1>3
<1>8. ASSUME NEW d \in Requests
      PROVE  /\ state'[d] = "late" => d \in failedReturns'
             /\ state'[d] = "granted" => state[d] = "granted" /\ clientOf[d] \notin gone
             /\ d # b /\ state[d] = "held" => clientOf[d] \notin gone
  <2>1. CASE d = b
    BY <1>1, <1>2, <1>3, <2>1
  <2>2. CASE d # b
    <3>1. state'[d] = state[d] /\ (d \in failedReturns => d \in failedReturns')
      BY <1>2, <1>3, <2>2
    <3> QED BY <1>1, <1>2, <1>6, <2>2, <3>1
  <2> QED BY <2>1, <2>2
<1>9. Given(gone, x, b, destroy)
  BY <1>1, <1>3, <1>5, <1>6, <1>7, <1>8 DEF Given
<1> QED BY <1>6, <1>9

\* A call gives its own client back.
LEMMA TxnReturnsOwn ==
  ASSUME AllInv, HoldInv', NEW r \in Requests, Owning(r), reply[r] # "none",
         NEW destroy \in BOOLEAN, NEW ok \in BOOLEAN, Releases(r, r, destroy, ok),
         destroy \/ Mode(r) = "idle",
         Settle(r), UNCHANGED <<pins, finishing, failedStarts, closer, closerLane>>
  PROVE  TxnInv'
<1>0. r \in Senders \cup {None} /\ r # Closer /\ r # None
  BY NamesAssumption DEF Senders
<1>1. PICK G \in {{}, {clientOf[r]}} : Given(G, r, r, destroy)
  BY <1>0, ReleaseFacts
<1>2. OnWire(clientOf[r]) = {}
  BY DEF AllInv, TxnInv, OpenOK, OwnOK, OnWire, ToSet
<1>3. /\ Alone(r) /\ pc'[r] = "settled" /\ at'[r] = 1 /\ at' \in [Requests -> 1 .. 3]
      /\ pc[r] # "pinned"
  BY SettleFacts DEF Owning
<1>4. \A d \in G : \A y \in OnWire(d) : Ordinary(y)
  BY <1>1, <1>2 DEF Given
<1>5. \A d \in out \ out' : (d \in G \/ txn[d].mode = "idle") /\ \A y \in OnWire(d) : Ordinary(y)
  BY <1>1, <1>2 DEF Mode, Given
<1>6. \A b \in failedReturns' \ failedReturns : clientOf[b] \in Clients /\ LeftClean(clientOf[b])
  BY <1>1, <1>2 DEF LeftClean, Given
<1>7. \A l \in Lanes : pins[l] # None => clientOf[pins[l]] \notin G
  BY <1>1, PinFacts DEF Owning, Given
<1>8. \A b \in Requests \ {r} : Owning(b) => clientOf[b] \notin G
  BY <1>1, OwningFacts DEF Given
<1>9. failedStarts' \subseteq Lanes /\ G \in SUBSET Clients 
  BY <1>1 DEF AllInv, TxnInv, TxnTypes, Given
<1> QED BY <1>0, <1>1, <1>3, <1>4, <1>5, <1>6, <1>7, <1>8, <1>9, TxnGivesBack DEF Given

\* Every call that owns its borrow returns it clean, or destroys it.
LEMMA TxnOwnReturns ==
  ASSUME AllInv, HoldInv', NEW r \in Requests, NEW ok \in BOOLEAN,
         OpenReleases(r, ok) \/ OpenFailsReleased(r, ok) \/ LateOpenReturns(r, ok) \/ AutoReturns(r, ok)
  PROVE  TxnInv'
<1>1. CASE OpenReleases(r, ok)
  <2>1. Owning(r) /\ BeginOK(r) /\ Done(r)
    BY <1>1 DEF OpenReleases, OpenSucceeded, Owning, AllInv, TxnInv, OpenOK, Done, Completed
  <2>2. Mode(r) = "idle"
    BY <1>1, <2>1 DEF OpenReleases, OpenSucceeded, BeginOK
  <2> QED BY <1>1, <2>1, <2>2, TxnReturnsOwn DEF OpenReleases, Done, closeVars
<1>2. CASE OpenFailsReleased(r, ok)
  <2>1. Owning(r) /\ reply[r] # "none"
    BY <1>2 DEF OpenFailsReleased, OpenFailed, Owning, Completed
  <2> QED BY <1>2, <2>1, TxnReturnsOwn DEF OpenFailsReleased
<1>3. CASE LateOpenReturns(r, ok)
  <2>1. Owning(r) /\ reply[r] \in {"ok", "err"}
    BY <1>3 DEF LateOpenReturns, Owning, AllInv, TxnInv, TxnTypes, Senders
  <2>2. (reply[r] = "err") \in BOOLEAN /\ ((reply[r] = "err") \/ Mode(r) = "idle")
    BY <1>3, <2>1 DEF LateOpenReturns, AllInv, TxnInv, OpenOK, OwnOK
  <2> QED BY <1>3, <2>1, <2>2, TxnReturnsOwn DEF LateOpenReturns
<1>4. CASE AutoReturns(r, ok)
  <2>1. Owning(r) /\ reply[r] # "none"
    BY <1>4 DEF AutoReturns, Owning, Completed
  <2>2. Mode(r) = "idle"
    BY <1>4, <2>1 DEF AutoReturns, AllInv, TxnInv, OpenOK, OwnOK
  <2> QED BY <1>4, <2>1, <2>2, TxnReturnsOwn DEF AutoReturns, closeVars
<1> QED BY <1>1, <1>2, <1>3, <1>4

\* A statement that ends its lane's transaction gives the client back.
LEMMA TxnReturnsPinned ==
  ASSUME AllInv, HoldInv', NEW r \in Requests, Ending(r), reply[r] # "none",
         NEW destroy \in BOOLEAN, NEW ok \in BOOLEAN, Releases(r, on[r], destroy, ok),
         destroy \/ Mode(on[r]) = "idle", Unpin(req[r].lane), ClearFailedStart(r), Settle(r),
         UNCHANGED <<finishing, closer, closerLane>>
  PROVE  TxnInv'
<1>0. r \in Senders \cup {None} /\ r # Closer /\ r # None
  BY NamesAssumption DEF Senders
<1>1. PICK l \in Lanes : l = req[r].lane
  BY DEF AllInv, HoldInv, AdmittedOK, Admitted, Settled, Ending
<1>2. PICK b \in Requests : b = on[r] /\ b = pins[l] /\ b # None
  BY <1>1, NamesAssumption DEF AllInv, EndsOnPin, PinsInv, CallsUseBorrows, Ending
<1>3. PICK G \in {{}, {clientOf[b]}} : Given(G, r, b, destroy)
  BY <1>0, <1>2, ReleaseFacts
<1>4. /\ Alone(r) /\ pc'[r] = "settled" /\ at'[r] = 1 /\ at' \in [Requests -> 1 .. 3]
      /\ pc[r] = "pinned"
  BY SettleFacts DEF Ending
<1>5. pins'[l] = None /\ \A k \in Lanes \ {l} : pins'[k] = pins[k]
  BY <1>1 DEF Unpin, AllInv, PinsInv, PinsTypeOK
<1>6. /\ failedStarts' \subseteq Lanes
      /\ \A k \in Lanes \ {l} : k \in failedStarts => k \in failedStarts'
  BY <1>1 DEF ClearFailedStart, AllInv, TxnInv, TxnTypes
<1>7. closer # "rolling"
  BY <1>4 DEF AllInv, PinsInv, PinnedAreDrained, PinsCollected
<1>8. ASSUME NEW y \in OnWire(clientOf[b])
      PROVE  Ordinary(y) /\ l = DefaultLane
  <2>0. y \in Senders \ {r}
    BY <1>3, NotOnWire DEF Given, AllInv
  <2>1. y \in Requests /\ pc[y] = "pinned" /\ on[y] = b
    <3>1. PinOK(l)
      BY <1>2 DEF AllInv, TxnInv, PinnedOK
    <3>2. y # Closer
      BY <1>3, <1>7 DEF AllInv, TxnInv, WireOK, Given
    <3> QED BY <1>2, <2>0, <3>1, <3>2 DEF PinOK, Senders
  <2>2. req[y].lane = l /\ req[y] \in Admitted
    BY <1>2, <2>1 DEF AllInv, HoldInv, StatementsOnPins, AdmittedOK, Settled
  <2>3. l = DefaultLane
    BY <1>1, <1>4, <2>0, <2>1, <2>2 DEF AllInv, TxnInv, NamedAlone, Settled
  <2>4. ~Terminal(req[y])
    BY <1>1, <2>0, <2>1, <2>2 DEF AllInv, EndsOnPin, Ending
  <2>5. ~Opens(req[y]) /\ req[y].control # "reject"
    BY <2>1 DEF AllInv, TxnInv, ShapesOK
  <2> QED BY <2>1, <2>2, <2>3, <2>4, <2>5
             DEF Ordinary, Terminal, EndKind, Opens, Admitted, Controls
<1>9. LeftClean(clientOf[b])
  <2>1. PinOK(l)
    BY <1>2 DEF AllInv, TxnInv, PinnedOK
  <2> QED BY <1>2, <1>8, <2>1 DEF PinOK, LeftClean, Mode
<1>10. \A d \in G : \A y \in OnWire(d) : Ordinary(y)
  BY <1>8
<1>11. \A d \in out \ out' : (d \in G \/ txn[d].mode = "idle") /\ \A y \in OnWire(d) : Ordinary(y)
  BY <1>2, <1>3, <1>8 DEF Mode, Given
<1>12. \A d \in failedReturns' \ failedReturns : clientOf[d] \in Clients /\ LeftClean(clientOf[d])
  BY <1>3, <1>9 DEF Given
<1>13. \A k \in Lanes \ {l} : pins[k] # None => clientOf[pins[k]] \notin G
  BY <1>2, <1>3, PinFacts DEF Given
<1>14. \A d \in Requests \ {r} : Owning(d) => clientOf[d] \notin G
  <2> SUFFICES ASSUME NEW d \in Requests \ {r}, Owning(d) PROVE clientOf[d] \notin G
    OBVIOUS
  <2>1. state[d] = "held" /\ d # b
    BY <1>2, OwningFacts, PinFacts DEF Owning
  <2> QED BY <1>3, <2>1 DEF Given
<1>15. \A s \in Requests \ {r} : pc[s] = "pinned" /\ req[s].lane # DefaultLane =>
                                     pins'[req[s].lane] = pins[req[s].lane]
  <2> SUFFICES ASSUME NEW s \in Requests \ {r}, pc[s] = "pinned", req[s].lane # DefaultLane
               PROVE  pins'[req[s].lane] = pins[req[s].lane]
    OBVIOUS
  <2>1. req[s].lane \in Lanes
    BY DEF AllInv, HoldInv, AdmittedOK, Admitted, Settled
  <2>2. req[s].lane # l
    BY <1>1, <1>4 DEF AllInv, TxnInv, NamedAlone, Settled
  <2> QED BY <1>5, <2>1, <2>2
<1>16. G \in SUBSET Clients /\ clientOf' = clientOf
  BY <1>3 DEF Given
<1>17. \A k \in Lanes : \/ pins'[k] = None
                        \/ /\ pins'[k] = pins[k] /\ clientOf[pins[k]] \notin G
                           /\ k \in failedStarts => k \in failedStarts'
  BY <1>5, <1>6, <1>13
<1> QED BY <1>0, <1>1, <1>3, <1>4, <1>5, <1>6, <1>7, <1>10, <1>11, <1>12, <1>14, <1>15, <1>16,
           <1>17,
           TxnGivesBack DEF Given

\* Every terminal statement of a lane returns its client clean, or destroys it.
LEMMA TxnPinnedReturns ==
  ASSUME AllInv, HoldInv', NEW r \in Requests, NEW ok \in BOOLEAN,
         PinnedEnds(r, ok) \/ PinnedEndFails(r, ok)
  PROVE  TxnInv'
<1>1. CASE PinnedEnds(r, ok)
  <2>1. Ending(r) /\ Done(r) /\ EndsPin(req[r]) /\ StatementOK(r)
    BY <1>1
       DEF PinnedEnds, Ending, Terminal, EndKind, EndsPin, Done, Completed, AllInv, TxnInv,
           StatementsOK
  <2>2. Mode(on[r]) = "idle" /\ reply[r] # "none"
    BY <2>1 DEF StatementOK, Done
  <2> QED BY <1>1, <2>1, <2>2, TxnReturnsPinned DEF PinnedEnds, closeVars
<1>2. CASE PinnedEndFails(r, ok)
  <2>1. Ending(r) /\ reply[r] # "none"
    BY <1>2 DEF PinnedEndFails, Ending, Terminal
  <2> QED BY <1>2, <2>1, TxnReturnsPinned DEF PinnedEndFails, closeVars
<1> QED BY <1>1, <1>2

\* Ends on a pinned client are never second: the client of a lane is held.
LEMMA NotTwice ==
  ASSUME AllInv, NEW r \in Requests
  PROVE  ~PinnedEndsTwice(r)
<1> SUFFICES ASSUME PinnedEndsTwice(r) PROVE FALSE
  OBVIOUS
<1>1. Ending(r) /\ state[on[r]] = "returned"
  BY DEF PinnedEndsTwice, DuplicateRelease, Ending, Terminal, EndKind, EndsPin
<1>2. pins[req[r].lane] = on[r] /\ on[r] \in Requests /\ req[r].lane \in Lanes
  BY <1>1
     DEF AllInv, EndsOnPin, Ending, PinsInv, CallsUseBorrows, HoldInv, AdmittedOK, Admitted,
         Settled
<1> QED BY <1>1, <1>2, PinFacts, NamesAssumption

\* close() has rolled a lane back.
LEMMA TxnCloseReturns ==
  ASSUME AllInv, HoldInv', NEW ok \in BOOLEAN, CloseReturns(ok)
  PROVE  TxnInv'
<1> DEFINE destroy == (reply[Closer] = "err")
<1>0. /\ closer = "rolling" /\ reply[Closer] \in {"ok", "err"} /\ closer' = "returning"
      /\ closerLane' = None
      /\ Releases(Closer, pins[closerLane], destroy, ok) /\ Unpin(closerLane)
      /\ failedStarts' = failedStarts \ {closerLane} /\ UNCHANGED callVars
  BY DEF CloseReturns, AllInv, TxnInv, TxnTypes, Senders
<1>1. PICK l \in Lanes : l = closerLane /\ pins[l] # None
  BY <1>0 DEF AllInv, PinsInv, RollingHasPin
<1>2. PICK b \in Requests : b = pins[l] /\ b # None
  BY <1>1, PinFacts
<1> HIDE DEF destroy
<1>3. PICK G \in {{}, {clientOf[b]}} : Given(G, Closer, b, destroy)
  <2>1. Closer \in Senders \cup {None} /\ destroy \in BOOLEAN
    BY DEF Senders, destroy
  <2> QED BY <1>0, <1>1, <1>2, <2>1, ReleaseFacts
<1>4. OnWire(clientOf[b]) = {} /\ (destroy \/ Mode(b) = "idle")
  <2>1. OnWire(clientOf[b]) \subseteq {Closer} /\ (reply[Closer] = "ok" => Mode(b) = "idle")
    BY <1>0, <1>1, <1>2 DEF AllInv, TxnInv, CloserOK
  <2>2. Closer \notin OnWire(clientOf[b])
    BY <1>0, <1>3 DEF AllInv, TxnInv, WireOK, Given
  <2> QED BY <1>0, <2>1, <2>2 DEF destroy
<1>5. Alone(Closer) /\ at' \in [Requests -> 1 .. 3] /\ UNCHANGED finishing
  BY <1>0 DEF callVars, Alone, AllInv, TxnInv, TxnTypes
<1>6. pins'[l] = None /\ \A k \in Lanes \ {l} : pins'[k] = pins[k]
  BY <1>0, <1>1 DEF Unpin, AllInv, PinsInv, PinsTypeOK
<1>7. /\ failedStarts' \subseteq Lanes
      /\ \A k \in Lanes \ {l} : k \in failedStarts => k \in failedStarts'
  BY <1>0, <1>1 DEF AllInv, TxnInv, TxnTypes
<1>8. \A d \in G : \A y \in OnWire(d) : Ordinary(y)
  BY <1>4
<1>9. \A d \in out \ out' : (d \in G \/ txn[d].mode = "idle") /\ \A y \in OnWire(d) : Ordinary(y)
  BY <1>3, <1>4 DEF Mode, Given
<1>10. \A d \in failedReturns' \ failedReturns : clientOf[d] \in Clients /\ LeftClean(clientOf[d])
  BY <1>3, <1>4 DEF LeftClean, Given
<1>11. \A k \in Lanes \ {l} : pins[k] # None => clientOf[pins[k]] \notin G
  BY <1>2, <1>3, PinFacts DEF Given
<1>12. \A k \in Lanes : \/ pins'[k] = None
                        \/ /\ pins'[k] = pins[k] /\ clientOf[pins[k]] \notin G
                           /\ k \in failedStarts => k \in failedStarts'
  BY <1>6, <1>7, <1>11
<1>13. \A d \in Requests : Owning(d) => clientOf[d] \notin G
  <2> SUFFICES ASSUME NEW d \in Requests, Owning(d) PROVE clientOf[d] \notin G
    OBVIOUS
  <2>1. state[d] = "held" /\ d # b
    BY <1>1, <1>2, OwningFacts, PinFacts DEF Owning
  <2> QED BY <1>3, <2>1 DEF Given
<1>14. \A s \in Requests : pc[s] # "pinned"
  BY <1>0 DEF AllInv, PinsInv, PinnedAreDrained, PinsCollected
<1>15. /\ G \in SUBSET Clients /\ clientOf' = clientOf /\ Closer \notin Requests
       /\ Closer \in Senders \cup {None}
  BY <1>3, NamesAssumption DEF Given, Senders
<1> QED BY <1>0, <1>3, <1>5, <1>7, <1>8, <1>9, <1>10, <1>12, <1>13, <1>14, <1>15, TxnGivesBack
           DEF Given

\* A checkout fails, or comes too late and gives its client back.
LEMMA TxnConnectEnds ==
  ASSUME AllInv, HoldInv', NEW r \in Requests, ConnectIsLate(r) \/ ConnectFails(r)
  PROVE  TxnInv'
<1>0. r \in Senders \cup {None} /\ r # Closer /\ r # None
  BY NamesAssumption DEF Senders
<1>1. /\ Settle(r) /\ UNCHANGED <<finishing, pins, failedStarts, closer, closerLane>>
      /\ state[r] \in {"connecting", "granted"} /\ pc[r] \in {"open-wait", "auto-wait"}
  BY DEF ConnectIsLate, ConnectFails, LateCheckout, CheckoutFails, closeVars, AllInv, HoldInv,
     OwnBorrows
<1>2. Alone(r) /\ pc'[r] = "settled" /\ at'[r] = 1 /\ at' \in [Requests -> 1 .. 3]
  BY <1>1, SettleFacts
<1>3. failedStarts' \subseteq Lanes /\ ~InUse(r) /\ pc[r] # "pinned"
  BY <1>1 DEF AllInv, TxnInv, TxnTypes, InUse
<1>4. CASE ConnectIsLate(r)
  <2>1. PICK G \in {{}, {clientOf[r]}} : Given(G, r, r, TRUE)
    BY <1>0, <1>4, ReleaseFacts DEF ConnectIsLate
  <2>2. state[r] = "granted" /\ Mode(r) = "idle" /\ \A y \in OnWire(clientOf[r]) : Ordinary(y)
    BY <1>4 DEF ConnectIsLate, LateCheckout, AllInv, TxnInv, QuietOK
  <2>3. LeftClean(clientOf[r])
    BY <2>2 DEF LeftClean, Mode
  <2>4. \A l \in Lanes : pins[l] # None => clientOf[pins[l]] \notin G
    BY <2>1, <2>2, PinFacts DEF Given
  <2>5. \A b \in Requests \ {r} : Owning(b) => clientOf[b] \notin G
    BY <2>1, OwningFacts DEF Given
  <2>6. \A d \in G : \A y \in OnWire(d) : Ordinary(y)
    BY <2>2
  <2>7. \A d \in out \ out' : (d \in G \/ txn[d].mode = "idle") /\ \A y \in OnWire(d) : Ordinary(y)
    BY <2>1, <2>2 DEF Given, Mode
  <2>8. \A b \in failedReturns' \ failedReturns : clientOf[b] \in Clients /\ LeftClean(clientOf[b])
    BY <2>1, <2>3 DEF Given
  <2>9. G \in SUBSET Clients /\ clientOf' = clientOf
    BY <2>1 DEF Given
  <2> QED BY <1>0, <1>1, <1>2, <1>3, <2>1, <2>4, <2>5, <2>6, <2>7, <2>8, <2>9, TxnGivesBack
             DEF Given
<1>5. CASE ConnectFails(r)
  <2>1. /\ UNCHANGED <<wire, txn, reply, clientOf, out, broken, failedReturns>>
        /\ state' = [state EXCEPT ![r] = "failed"]
    BY <1>5 DEF ConnectFails, CheckoutFails, SetState
  <2>2. WiresLost({}, r)
    BY <2>1 DEF WiresLost, AllInv, TxnInv, TxnTypes
  <2>3. \A b \in Requests : /\ state'[b] = "late" => b \in failedReturns'
                            /\ state'[b] = "granted" => state[b] = "granted"
    BY <2>1, RequestsAssumption DEF AllInv, TxnInv, FailedOK, PoolInv, TypeOK
  <2>4. failedReturns' \subseteq Requests /\ {} \in SUBSET Clients
    BY <2>1, RequestsAssumption DEF AllInv, PoolInv, TypeOK
  <2> QED BY <1>0, <1>1, <1>2, <1>3, <2>1, <2>2, <2>3, <2>4, TxnGivesBack
<1> QED BY <1>4, <1>5

\* end() takes the failed returns back, or ends the provider.
LEMMA TxnPoolEnds ==
  ASSUME AllInv, HoldInv', PoolEnds
  PROVE  TxnInv'
<1>0. /\ UNCHANGED <<req, finishing, pc, at, on, pins, failedStarts, closer, closerLane>>
      /\ LoseDestroyed(None)
  BY DEF PoolEnds, callVars, closeVars
<1>1. /\ Alone(None) /\ None \notin Requests /\ None \in Senders \cup {None} /\ None # Closer
      /\ None \notin Senders
  BY <1>0, NamesAssumption DEF Alone, Senders
<1>2. failedStarts' \subseteq Lanes /\ at' \in [Requests -> 1 .. 3]
  BY <1>0 DEF AllInv, TxnInv, TxnTypes
<1>3. ASSUME NEW S \in SUBSET failedReturns, EndPass(S)
      PROVE  TxnInv'
  <2> DEFINE R == failedReturns \ S
             G == ClientsOf(R)
             gone == (out \ out') \ idle'
  <2>1. /\ state' = [b \in Requests |-> IF b \in R THEN "returned" ELSE state[b]]
        /\ out' = out \ G /\ idle' = (idle \cup G) \ G /\ broken' = broken \ G
        /\ failedReturns' = failedReturns \ R /\ clientOf' = clientOf
    BY <1>3, RequestsAssumption DEF EndPass, TakeBack, Discharge
  <2>2. \A b \in R : b \in Requests /\ state[b] \in {"held", "late"} /\ b \in failedReturns
    BY RequestsAssumption DEF AllInv, PoolInv, TypeOK, ChargeInv
  <2>3. G \subseteq out /\ G \cap idle = {} /\ G \in SUBSET Clients
    BY <2>2, SlotFacts DEF AllInv, ClientsOf
  <2>4. gone = G
    BY <2>1, <2>3
  <2>5. \A d \in G : \E b \in R : d = clientOf[b]
    BY DEF ClientsOf
  <2> HIDE DEF G, R
  <2>6. /\ wire' = [d \in Clients |-> IF d \in gone THEN <<>> ELSE wire[d]]
        /\ txn' = [d \in Clients |-> IF d \in gone THEN NoTxn ELSE txn[d]]
        /\ reply' = [y \in Senders |-> IF y = None THEN "none"
                       ELSE IF y \in {z \in Senders : \E d \in gone : z \in ToSet(wire[d])} THEN "err"
                       ELSE reply[y]]
    BY <1>0 DEF LoseDestroyed
  <2> HIDE DEF gone
  <2>7. WiresLost(G, None)
    BY <2>4, <2>6 DEF WiresLost, OnWire, AllInv, TxnInv, TxnTypes
  <2>8. \A d \in G : \A y \in OnWire(d) : Ordinary(y)
    BY <2>2, <2>5 DEF AllInv, TxnInv, FailedOK
  <2>9. \A d \in Requests :
          state[d] \in {"held", "granted"} /\ d \notin failedReturns => clientOf[d] \notin G
    <3> SUFFICES ASSUME NEW d \in Requests, state[d] \in {"held", "granted"}, d \notin failedReturns,
                        NEW b \in R, clientOf[d] = clientOf[b]
                 PROVE  FALSE
      BY <2>5
    <3> QED BY <2>2, SlotFacts DEF AllInv
  <2>10. \A l \in Lanes : pins[l] # None => clientOf[pins[l]] \notin G
    BY <2>9, PinFacts
  <2>11. \A b \in Requests : Owning(b) => clientOf[b] \notin G
    BY <2>9, OwningFacts
  <2>12. \A b \in Requests : /\ state'[b] = "late" => b \in failedReturns'
                             /\ state'[b] = "granted" => state[b] = "granted" /\ clientOf[b] \notin G
    BY <2>1, <2>2, <2>9 DEF AllInv, TxnInv, FailedOK, PoolInv, ChargeInv
  <2>13. /\ \A d \in broken : d \in G \/ d \in broken'
         /\ \A d \in out \ out' : d \in G
         /\ failedReturns' \subseteq failedReturns /\ failedReturns' \subseteq Requests
    BY <2>1, RequestsAssumption DEF AllInv, PoolInv, TypeOK
  <2> QED BY <1>0, <1>1, <1>2, <2>1, <2>3, <2>7, <2>8, <2>10, <2>11, <2>12, <2>13, TxnGivesBack
<1>4. CASE RawEnd
  <2>1. UNCHANGED <<state, clientOf, out, idle, broken, failedReturns>>
    BY <1>4 DEF RawEnd
  <2>2. WiresLost({}, None)
    BY <1>0, <1>1, <2>1 DEF LoseDestroyed, WiresLost, AllInv, TxnInv, TxnTypes
  <2>3. \A b \in Requests : state'[b] = "late" => b \in failedReturns'
    BY <2>1 DEF AllInv, TxnInv, FailedOK
  <2>4. failedReturns' \subseteq Requests /\ {} \in SUBSET Clients
    BY <2>1, RequestsAssumption DEF AllInv, PoolInv, TypeOK
  <2> QED BY <1>0, <1>1, <1>2, <2>1, <2>2, <2>3, <2>4, TxnGivesBack
<1> QED BY <1>3, <1>4 DEF PoolEnds

-----------------------------------------------------------------------------
(***************************************************************************)
(* A step that leaves every wire and session alone, and every call that    *)
(* uses one: a call may begin to wait for a client, and a borrow get one.  *)
(***************************************************************************)
LEMMA TxnWaits ==
  ASSUME AllInv, HoldInv', NEW r \in Requests \cup {None}, Alone(r),
         UNCHANGED <<wire, txn, reply, at, pins, failedStarts>>, finishing \subseteq finishing',
         failedReturns' = failedReturns, broken \subseteq broken',
         \A b \in Requests \ {r} : clientOf'[b] = clientOf[b] /\ state'[b] = state[b],
         clientOf' = clientOf \/ (r \in Requests /\ state[r] = "connecting"),
         r \in Requests => /\ ~InUse(r) /\ ~InUse(r)'
                           /\ state'[r] = "late" => state[r] = "late"
                           /\ state'[r] = "granted" /\ state[r] # "granted" =>
                                clientOf'[r] \in Clients \ out,
         out \subseteq out',
         \/ closer' = closer
         \/ closer # "rolling" /\ closer' \notin {"none", "rolling"} /\ closer' \in CloserStates,
         closerLane' = closerLane,
         ShapesOK', NamedAlone'
  PROVE  TxnInv'
<1> USE DEF AllInv
<1>1. \A c \in Clients : OnWire(c)' = OnWire(c) /\ OnWire(c) \subseteq Senders \ {r}
  <2>1. \A c \in Clients : OnWire(c) \subseteq Senders
    BY OnWireSenders DEF TxnInv
  <2>2. None \notin Senders
    BY NamesAssumption DEF Senders
  <2> QED BY <2>1, <2>2, NotOnWire DEF OnWire
<1>2. \A s \in Senders \ {r} : Ordinary(s)' <=> Ordinary(s)
  BY AloneFacts
<1>3. /\ \A b \in Requests : state[b] \in {"held", "granted", "late"} => clientOf'[b] = clientOf[b]
      /\ \A b \in failedReturns : b \in Requests /\ clientOf'[b] = clientOf[b] /\ clientOf[b] \in Clients
  BY RequestsAssumption, SlotFacts DEF PoolInv, TypeOK, ChargeInv
<1>4. \A x \in Requests : InUse(x) => /\ x # r /\ pc'[x] = pc[x] /\ on'[x] = on[x] /\ on[x] \in Requests
                                      /\ clientOf'[on[x]] = clientOf[on[x]] /\ CallKept(x)
  <2> SUFFICES ASSUME NEW x \in Requests, InUse(x)
               PROVE  /\ x # r /\ pc'[x] = pc[x] /\ on'[x] = on[x] /\ on[x] \in Requests
                      /\ clientOf'[on[x]] = clientOf[on[x]] /\ CallKept(x)
    OBVIOUS
  <2>1. on[x] \in Requests /\ state[on[x]] # "connecting"
    <3>1. CASE Owning(x)
      BY <3>1, OwningFacts
    <3>2. CASE pc[x] = "pinned"
      BY <3>2 DEF HoldInv, StatementsOnPins, OwnBorrows, PinsInv, CallsUseBorrows
    <3> QED BY <3>1, <3>2 DEF InUse, Owning
  <2> QED BY <2>1 DEF Alone, CallKept
<1>5. TxnTypes'
  BY DEF TxnInv, TxnTypes
<1>6. WireOK'
  <2> SUFFICES ASSUME NEW c \in Clients, NEW x \in OnWire(c)
               PROVE  IF x = Closer THEN closer' = "rolling" /\ clientOf'[pins'[closerLane']] = c
                      ELSE InUse(x)' /\ clientOf'[on'[x]] = c
    BY <1>1 DEF WireOK, TxnInv
  <2>1. x # Closer => InUse(x)' /\ clientOf'[on'[x]] = c
    BY <1>1, <1>4 DEF TxnInv, WireOK, InUse, Senders
  <2>2. closer = "rolling" => closerLane \in Lanes /\ pins[closerLane] # None
    BY DEF PinsInv, RollingHasPin
  <2> QED BY <1>3, <2>1, <2>2, PinFacts DEF TxnInv, WireOK
<1>7. QuietOK'
  <2>1. ASSUME NEW c \in Clients \ out PROVE txn[c].mode = "idle" /\ \A x \in OnWire(c) : Ordinary(x)'
    BY <1>1, <1>2 DEF TxnInv, QuietOK
  <2>2. ASSUME NEW b \in Requests, state'[b] = "granted"
        PROVE  txn[clientOf'[b]].mode = "idle" /\ \A x \in OnWire(clientOf[b])' : Ordinary(x)'
    <3>1. CASE state[b] = "granted"
      <4>1. clientOf'[b] = clientOf[b] /\ clientOf[b] \in Clients
        BY <1>3, <3>1, SlotFacts
      <4>2. OnWire(clientOf[b])' = OnWire(clientOf[b])
        BY <4>1 DEF OnWire
      <4> QED BY <1>1, <1>2, <3>1, <4>1, <4>2 DEF TxnInv, QuietOK, Mode
    <3>2. CASE state[b] # "granted"
      <4>1. PICK c \in Clients \ out : c = clientOf'[b]
        BY <2>2, <3>2
      <4>2. OnWire(clientOf[b])' = OnWire(c)
        BY <4>1 DEF OnWire
      <4> QED BY <2>1, <4>1, <4>2
    <3> QED BY <3>1, <3>2
  <2> QED BY <1>1, <2>1, <2>2 DEF QuietOK, Mode, OnWire
<1>8. FailedOK'
  <2>1. ASSUME NEW b \in failedReturns
        PROVE  \A x \in OnWire(clientOf[b])' :
                 Ordinary(x)' /\ (Mode(b)' # "idle" => txn[clientOf'[b]].lane = DefaultLane)
    <3>1. OnWire(clientOf[b])' = OnWire(clientOf[b]) /\ Mode(b)' = Mode(b)
      BY <1>3 DEF OnWire, Mode
    <3> QED BY <1>1, <1>2, <1>3, <3>1 DEF TxnInv, FailedOK
  <2> QED BY <2>1 DEF FailedOK, TxnInv, OnWire
<1>9. OpenOK'
  <2> SUFFICES ASSUME NEW b \in Requests
               PROVE  (Owning(b)' => OwnOK(b)') /\ (pc'[b] = "open" => BeginOK(b)')
    BY DEF OpenOK
  <2>1. CASE b = r
    BY <2>1 DEF Owning, InUse
  <2>2. CASE b # r /\ Owning(b)
    <3>1. CallKept(b) /\ on[b] = b /\ clientOf[b] \in Clients
      BY <1>4, <2>2, OwningFacts DEF Owning, InUse
    <3>2. SessionKept(b)
      BY <2>2 DEF SessionKept
    <3>3. \A x \in OnWire(clientOf[b]) : Ordinary(x) => Ordinary(x)'
      BY <1>1, <1>2, <3>1
    <3> QED BY <2>2, <3>1, <3>2, <3>3, OwnKept, BeginKept DEF TxnInv, OpenOK, CallKept, Owning
  <2>3. CASE b # r /\ ~Owning(b)
    BY <2>3 DEF Owning, Alone
  <2> QED BY <2>1, <2>2, <2>3
<1>10. PinnedOK'
  <2> SUFFICES ASSUME NEW l \in Lanes, pins[l] # None PROVE PinOK(l)'
    BY DEF PinnedOK
  <2>1. /\ pins[l] \in Requests /\ clientOf[pins[l]] \in Clients
        /\ clientOf'[pins[l]] = clientOf[pins[l]]
    BY <1>3, PinFacts
  <2>2. Begun(l)' => Begun(l)
    <3>1. adapterClosing => adapterClosing'
      BY DEF adapterClosing
    <3>2. \A x \in Requests : pc[x] = "pinned" => x # r
      BY DEF InUse
    <3> QED BY <3>1, <3>2 DEF Begun, Alone, EndKind
  <2>3. SessionKept(pins[l])
    BY <2>1 DEF SessionKept
  <2>4. \A x \in OnWire(clientOf[pins[l]]) : x # Closer => pc'[x] = pc[x] /\ on'[x] = on[x]
    BY <1>1, <2>1 DEF Alone, Senders
  <2> QED BY <2>2, <2>3, <2>4, PinKept DEF TxnInv, PinnedOK
<1>11. StatementsOK'
  <2> SUFFICES ASSUME NEW x \in Requests, pc'[x] = "pinned"
               PROVE  StatementOK(x)'
    BY DEF StatementsOK
  <2>1. pc[x] = "pinned" /\ InUse(x)
    BY DEF InUse, Alone
  <2>2. SessionKept(on[x])
    BY <1>4, <2>1 DEF SessionKept
  <2> QED BY <1>4, <2>1, <2>2, StatementKept DEF TxnInv, StatementsOK
<1>12. CloserOK'
  <2> SUFFICES ASSUME closer = "rolling", closer' = "rolling"
               PROVE  /\ OnWire(clientOf[pins[closerLane]])' \subseteq {Closer}
                      /\ reply[Closer] = "ok" => Mode(pins[closerLane])' = "idle"
    BY DEF CloserOK
  <2>1. closerLane \in Lanes /\ pins[closerLane] # None
    BY DEF PinsInv, RollingHasPin
  <2>2. clientOf'[pins[closerLane]] = clientOf[pins[closerLane]]
    BY <1>3, <2>1, PinFacts
  <2> QED BY <2>2 DEF TxnInv, CloserOK, Mode, OnWire
<1> QED BY <1>5, <1>6, <1>7, <1>8, <1>9, <1>10, <1>11, <1>12 DEF TxnInv

\* A call waits for a client.
LEMMA TxnConnects ==
  ASSUME AllInv, HoldInv', NEW r \in Requests, NEW q \in ShapeType, NEW l \in Lanes,
         CallConnects(r, q, l)
  PROVE  TxnInv'
<1> DEFINE a == [lane |-> l, start |-> q.start, control |-> q.control,
                 commit |-> q.commit, params |-> q.params]
<1>0. /\ a.lane = l /\ a.start = q.start /\ a.control = q.control /\ a.commit = q.commit
      /\ a.params = q.params
  OBVIOUS
<1> HIDE DEF a
<1>1. /\ pc[r] = "idle" /\ req' = [req EXCEPT ![r] = a] /\ on' = [on EXCEPT ![r] = r]
      /\ finishing' = IF q.commit THEN finishing \cup {r} ELSE finishing
      /\ pc' = [pc EXCEPT ![r] = IF Opens(q) THEN "open-wait" ELSE "auto-wait"]
      /\ UNCHANGED <<at, reply, pins, failedStarts, wire, txn, closer, closerLane, clientOf,
                     out, broken, failedReturns>>
      /\ state' = [state EXCEPT ![r] = "connecting"] /\ state[r] = "none"
  BY DEF CallConnects, Admissible, Admit, GoTo, closeVars, Connect, SetState, a
<1>2. /\ req'[r] = a /\ on'[r] = r
      /\ pc'[r] = (IF Opens(q) THEN "open-wait" ELSE "auto-wait") /\ Alone(r)
  BY <1>1 DEF Alone, AllInv, PinsInv, PinsTypeOK, HoldInv, AdmittedOK
<1>3. ~InUse(r) /\ ~InUse(r)'
  BY <1>1, <1>2 DEF InUse
<1>4. \A b \in Requests \ {r} : state'[b] = state[b]
  BY <1>1
<1>5. state'[r] \notin {"late", "granted"}
  BY <1>1, RequestsAssumption DEF AllInv, PoolInv, TypeOK
<1>6. Opens(a) <=> Opens(q)
  BY <1>0 DEF Opens
<1>7. ~Opens(q) => q.control # "reject" /\ l = DefaultLane
  BY DEF CallConnects, Refused
<1>8. ShapesOK'
  <2> SUFFICES ASSUME NEW s \in Requests
               PROVE  /\ Owning(s)' \/ pc'[s] \in {"open-wait", "auto-wait"} => on'[s] = s
                      /\ Opener(s)' => Opens(req'[s])
                      /\ pc'[s] \in {"auto-wait", "auto"} =>
                           ~Opens(req'[s]) /\ req'[s].control # "reject" /\ req'[s].lane = DefaultLane
                      /\ pc'[s] = "pinned" => ~Opens(req'[s]) /\ req'[s].control # "reject"
                      /\ ~Settled(s)' /\ req'[s].commit => on'[s] \in finishing'
                      /\ IF pc'[s] \in {"idle", "settled", "open-wait", "auto-wait"} THEN at'[s] = 1
                         ELSE at'[s] <= Len(Script(req'[s]))
    BY DEF ShapesOK, Opens
  <2>1. CASE s = r
    BY <1>0, <1>1, <1>2, <1>6, <1>7, <2>1 DEF AllInv, TxnInv, ShapesOK, Owning, Opener
  <2>2. CASE s # r
    BY <1>1, <1>2, <2>2 DEF AllInv, TxnInv, ShapesOK, Alone, Owning, Opener, Settled
  <2> QED BY <2>1, <2>2
<1>9. NamedAlone'
  <2> SUFFICES ASSUME NEW s \in Requests, ~Settled(s)', req'[s].lane # DefaultLane
               PROVE  /\ pc'[s] = "pinned" => pins'[req'[s].lane] = on'[s]
                      /\ \A o \in Requests : ~Settled(o)' /\ req'[o].lane = req'[s].lane => o = s
    BY DEF NamedAlone
  <2>1. \A o \in Requests \ {r} : ~Settled(o)' => ~Settled(o) /\ req'[o] = req[o]
    BY <1>2 DEF Alone, Settled
  <2>2. l # DefaultLane => \A o \in Requests : ~Settled(o) => req[o].lane # l
    BY DEF CallConnects, Admissible
  <2>3. CASE s = r
    BY <1>0, <1>2, <2>1, <2>2, <2>3
  <2>4. CASE s # r
    <3>1. \A o \in Requests : ~Settled(o)' /\ req'[o].lane = req'[s].lane => o = s
      BY <1>0, <1>2, <2>1, <2>2, <2>4 DEF AllInv, TxnInv, NamedAlone
    <3> QED BY <1>1, <1>2, <2>1, <2>4, <3>1 DEF AllInv, TxnInv, NamedAlone, Alone
  <2> QED BY <2>3, <2>4
<1> QED BY <1>1, <1>2, <1>3, <1>4, <1>5, <1>8, <1>9, TxnWaits

\* Nothing happens to any call, and no borrow is given up.
LEMMA TxnFrame ==
  ASSUME AllInv, HoldInv', NEW r \in Requests \cup {None},
         UNCHANGED <<req, pc, at, on, finishing, wire, txn, reply, pins, failedStarts,
                     failedReturns, closerLane>>,
         broken \subseteq broken', out \subseteq out',
         \A b \in Requests \ {r} : clientOf'[b] = clientOf[b] /\ state'[b] = state[b],
         \/ UNCHANGED <<state, clientOf>>
         \/ /\ r \in Requests /\ state[r] = "connecting" /\ state'[r] = "granted"
            /\ clientOf'[r] \in Clients \ out,
         \/ closer' = closer
         \/ closer # "rolling" /\ closer' \notin {"none", "rolling"} /\ closer' \in CloserStates
  PROVE  TxnInv'
<1>1. ASSUME NEW d \in Requests \cup {None}, d = r \/ d = None,
             d \in Requests => ~InUse(d) /\ state[d] = "connecting" /\ state'[d] = "granted"
                               /\ clientOf'[d] \in Clients \ out,
             \A b \in Requests \ {d} : clientOf'[b] = clientOf[b] /\ state'[b] = state[b],
             clientOf' = clientOf \/ d \in Requests
      PROVE  TxnInv'
  <2>1. Alone(d) /\ (d \in Requests => ~InUse(d)')
    BY <1>1 DEF Alone, InUse
  <2>2. ShapesOK' /\ NamedAlone'
    BY DEF AllInv, TxnInv, ShapesOK, NamedAlone, Owning, Opener, Settled
  <2> QED BY <1>1, <2>1, <2>2, TxnWaits
<1>2. CASE UNCHANGED <<state, clientOf>>
  BY <1>1, <1>2, NamesAssumption
<1>3. CASE /\ r \in Requests /\ state[r] = "connecting" /\ state'[r] = "granted"
           /\ clientOf'[r] \in Clients \ out
  <2>1. ~InUse(r)
    BY <1>3 DEF InUse, AllInv, HoldInv, OwnBorrows
  <2> QED BY <1>1, <1>3, <2>1
<1> QED BY <1>2, <1>3

\* The provider's checkouts and faults, and what close() does without a client.
LEMMA TxnIdleSteps ==
  ASSUME AllInv, HoldInv',
         \/ UNCHANGED vars \/ Close \/ CloseDrained \/ CloseEndsPool \/ CloseSettles
         \/ \E r \in Requests : ProviderCheckout(r) \/ ConnectionFails(r)
  PROVE  TxnInv'
<1>1. CASE UNCHANGED vars \/ Close \/ CloseDrained \/ CloseEndsPool \/ CloseSettles
  <2>1. /\ UNCHANGED <<req, pc, at, on, finishing, wire, txn, reply, pins, failedStarts,
                       failedReturns, closerLane>>
        /\ UNCHANGED <<broken, out, state, clientOf>>
        /\ \/ closer' = closer
           \/ closer # "rolling" /\ closer' \in {"draining", "returning", "ending", "closed", "failed"}
    BY <1>1
       DEF vars, adapterVars, poolVars, callVars, Close, CloseDrained, CloseEndsPool,
           CloseSettles, End
  <2> QED BY <2>1, TxnFrame DEF CloserStates
<1>2. ASSUME NEW r \in Requests, ConnectionFails(r) PROVE TxnInv'
  <2>1. /\ UNCHANGED <<req, pc, at, on, finishing, wire, txn, reply, pins, failedStarts,
                       failedReturns, closerLane>>
        /\ UNCHANGED <<out, state, clientOf, closer>> /\ broken \subseteq broken'
    BY <1>2 DEF ConnectionFails, adapterVars, Fault
  <2> QED BY <2>1, TxnFrame
<1>3. ASSUME NEW r \in Requests, ProviderCheckout(r) PROVE TxnInv'
  <2>1. PICK c \in Clients : Checkout(r, c)
    BY <1>3 DEF ProviderCheckout
  <2>2. /\ UNCHANGED <<req, pc, at, on, finishing, wire, txn, reply, pins, failedStarts,
                       closerLane, closer>>
        /\ UNCHANGED <<failedReturns,
                       broken>> /\ out' = out \cup {c} /\ c \notin out /\ state[r] = "connecting"
        /\ state' = [state EXCEPT ![r] = "granted"] /\ clientOf' = [clientOf EXCEPT ![r] = c]
    BY <1>3, <2>1 DEF ProviderCheckout, adapterVars, Checkout, SetState
  <2>3. /\ state'[r] = "granted" /\ clientOf'[r] = c
        /\ \A b \in Requests \ {r} : clientOf'[b] = clientOf[b] /\ state'[b] = state[b]
    BY <2>2, RequestsAssumption DEF AllInv, PoolInv, TypeOK
  <2> QED BY <2>2, <2>3, TxnFrame
<1> QED BY <1>1, <1>2, <1>3

-----------------------------------------------------------------------------
(***************************************************************************)
(* x sends a batch to the client of b: close() a rollback, a call the next *)
(* batch of its own transaction, or one of a lane that is pinned to b.     *)
(***************************************************************************)
LEMMA TxnSends ==
  ASSUME AllInv, HoldInv', PinsInv', NEW x \in Senders, NEW b \in Requests, Alone(x), Send(x, b),
         \A c \in Clients : x \notin OnWire(c),
         UNCHANGED <<txn, clientOf, out, broken, failedReturns, pins, failedStarts>>,
         finishing \subseteq finishing', at' \in [Requests -> 1 .. 3],
         state[b] \in {"granted", "held"}, state'[b] = "held", b \notin failedReturns,
         \A d \in Requests \ {b} : state'[d] = state[d],
         x \in Requests =>
           /\ InUse(x)' /\ on'[x] = b /\ UNCHANGED <<closer, closerLane>> /\ pc[x] # "settled"
           /\ pc[x] # "pinned" \/ (pc'[x] = pc[x] /\ req'[x] = req[x])
           /\ pc'[x] # "pinned" => b = x,
         x \in Requests /\ Owning(x)' =>
           /\ \A y \in OnWire(clientOf[b]) : Ordinary(y)
           /\ Mode(b) # "idle" => OnWire(clientOf[b]) = {} /\ txn[clientOf[b]].lane = req'[x].lane
           /\ pc'[x] = "auto" => Mode(b) = "idle"
           /\ pc'[x] = "open" => (at'[x] = 1 => Mode(b) = "idle") /\ (at'[x] = 2 => Mode(b) = "open"),
         x \in Requests /\ pc'[x] = "pinned" =>
           /\ \E l \in Lanes : pins[l] = b
           /\ req'[x].lane # DefaultLane /\ req'[x].control = "other" /\ at'[x] = 1 =>
                Mode(b) # "idle" \/ clientOf[b] \in broken,
         x = Closer => /\ closer # "rolling" /\ closer' = "rolling" /\ closerLane' \in Lanes
                       /\ pins[closerLane'] = b /\ OnWire(clientOf[b]) = {},
         ShapesOK', NamedAlone'
  PROVE  TxnInv'
<1> USE DEF AllInv
<1>1. PICK c \in Clients : c = clientOf[b] /\ c \in out
  BY SlotFacts
<1>2. \A d \in Requests : state[d] \in {"granted", "held", "late"} /\ clientOf[d] = c => d = b
  BY <1>1, SlotFacts
<1>3. /\ wire[c] \in Seq(Senders) /\ x \notin ToSet(wire[c])
      /\ wire' = [wire EXCEPT ![c] = Append(@, x)]
  BY <1>1 DEF TxnInv, TxnTypes, OnWire, Send
<1>4. /\ wire'[c] = Append(wire[c], x) /\ wire' \in [Clients -> Seq(Senders)]
      /\ \A d \in Clients \ {c} : wire'[d] = wire[d]
  BY <1>3 DEF TxnInv, TxnTypes
<1>5. /\ OnWire(c)' = OnWire(c) \cup {x} /\ (Once(wire[c]) => Once(wire'[c]))
      /\ \A i \in DOMAIN wire'[c] : wire'[c][i] = x => i = Len(wire'[c])
  BY <1>3, <1>4, AppendFacts DEF OnWire
<1>6. \A d \in Clients \ {c} : OnWire(d)' = OnWire(d)
  BY <1>4 DEF OnWire
<1>7. \A d \in Clients : OnWire(d) \subseteq Senders \ {x}
  BY OnWireSenders DEF TxnInv
<1>8. \A s \in Senders \ {x} : Ordinary(s)' <=> Ordinary(s)
  BY AloneFacts
<1>9. /\ reply'[x] = "none" /\ reply' \in [Senders -> {"none", "ok", "err"}]
      /\ \A s \in Senders \ {x} : reply'[s] = reply[s]
  BY DEF Send, TxnInv, TxnTypes
<1>10. \A d \in Requests : Mode(d)' = Mode(d)
  BY DEF Mode
<1>11. TxnTypes'
  <2>1. closer' \in CloserStates /\ closerLane' \in Lanes \cup {None}
    BY DEF TxnInv, TxnTypes, CloserStates, Senders
  <2> QED BY <1>4, <1>9, <2>1 DEF TxnInv, TxnTypes
<1>12. WireOK'
  <2>1. ASSUME NEW d \in Clients, NEW y \in OnWire(d)
        PROVE  /\ reply'[y] = "none"
               /\ IF y = Closer THEN closer' = "rolling" /\ clientOf[pins[closerLane']] = d
                  ELSE InUse(y)' /\ clientOf[on'[y]] = d
    <3>1. reply'[y] = "none" /\ y \in Senders \ {x}
      BY <1>7, <1>9 DEF TxnInv, WireOK
    <3>2. CASE y = Closer
      <4>1. UNCHANGED <<closer, closerLane>>
        BY <3>1, <3>2 DEF Senders
      <4> QED BY <3>1, <3>2, <4>1 DEF TxnInv, WireOK
    <3>3. CASE y # Closer
      BY <3>1, <3>3 DEF TxnInv, WireOK, Alone, InUse, Senders
    <3> QED BY <3>1, <3>2, <3>3
  <2>2. /\ reply'[x] = "none"
        /\ IF x = Closer THEN closer' = "rolling" /\ clientOf[pins[closerLane']] = c
           ELSE InUse(x)' /\ clientOf[on'[x]] = c
    BY <1>1, <1>9 DEF Senders
  <2>3. \A d \in Clients : Once(wire'[d])
    BY <1>4, <1>5 DEF TxnInv, WireOK
  <2>4. \A d \in Clients : \A y \in OnWire(d)' : y \in OnWire(d) \/ (y = x /\ d = c)
    BY <1>5, <1>6
  <2> QED BY <2>1, <2>2, <2>3, <2>4 DEF WireOK, OnWire
<1>13. QuietOK'
  <2>1. \A d \in Clients \ out : txn[d].mode = "idle" /\ \A y \in OnWire(d)' : Ordinary(y)'
    BY <1>1, <1>6, <1>7, <1>8 DEF TxnInv, QuietOK
  <2>2. ASSUME NEW d \in Requests, state'[d] = "granted"
        PROVE  Mode(d) = "idle" /\ \A y \in OnWire(clientOf[d])' : Ordinary(y)'
    <3>1. d # b /\ state[d] = "granted" /\ clientOf[d] \in Clients \ {c}
      BY <1>2, <2>2, SlotFacts
    <3> QED BY <1>6, <1>7, <1>8, <3>1 DEF TxnInv, QuietOK
  <2> QED BY <1>10, <2>1, <2>2 DEF QuietOK, OnWire
<1>14. FailedOK'
  <2>1. ASSUME NEW d \in failedReturns
        PROVE  \A y \in OnWire(clientOf[d])' :
                 Ordinary(y)' /\ (Mode(d) # "idle" => txn[clientOf[d]].lane = DefaultLane)
    <3>1. d \in Requests /\ clientOf[d] \in Clients \ {c}
      BY <1>2, RequestsAssumption, SlotFacts DEF PoolInv, TypeOK, ChargeInv
    <3> QED BY <1>6, <1>7, <1>8, <3>1 DEF TxnInv, FailedOK
  <2>2. \A d \in Requests : state'[d] = "late" => d \in failedReturns
    BY DEF TxnInv, FailedOK
  <2>3. \A d \in failedReturns : d \in Requests
    BY RequestsAssumption DEF PoolInv, TypeOK
  <2> QED BY <1>10, <2>1, <2>2, <2>3 DEF FailedOK, OnWire
<1>15. OpenOK'
  <2> SUFFICES ASSUME NEW d \in Requests
               PROVE  (Owning(d)' => OwnOK(d)') /\ (pc'[d] = "open" => BeginOK(d)')
    BY DEF OpenOK
  <2>1. CASE d = x
    <3> SUFFICES ASSUME Owning(x)' PROVE OwnOK(x)' /\ (pc'[x] = "open" => BeginOK(x)')
      BY <2>1 DEF Owning
    <3>1. b = x /\ clientOf[x] = c
      BY <1>1, <2>1 DEF Owning
    <3>2. \A y \in OnWire(c)' : y = x \/ Ordinary(y)'
      BY <1>5, <1>7, <1>8, <1>1, <2>1
    <3>3. Mode(x) # "idle" => OnWire(c)' = {x}
      BY <1>1, <1>5, <2>1, <3>1
    <3>4. OwnOK(x)'
      BY <1>1, <1>5, <1>9, <1>10, <2>1, <3>1, <3>2, <3>3 DEF OwnOK, OnWire
    <3>5. pc'[x] = "open" => BeginOK(x)'
      BY <1>9, <1>10, <2>1, <3>1 DEF BeginOK, Done
    <3> QED BY <3>4, <3>5
  <2>2. CASE d # x /\ Owning(d)
    <3>1. CallKept(d) /\ clientOf[d] \in Clients /\ state[d] = "held"
      BY <1>9, <2>2, OwningFacts DEF CallKept, Alone, Senders
    <3>2. d # b
      <4>1. CASE x = Closer
        BY <2>2, <4>1, PinFacts, NamesAssumption DEF Owning
      <4>2. CASE x \in Requests /\ pc'[x] = "pinned"
        BY <2>2, <4>2, PinFacts, NamesAssumption DEF Owning
      <4> QED BY <2>2, <4>1, <4>2 DEF Senders
    <3>3. clientOf[d] # c
      BY <1>2, <3>1, <3>2
    <3>4. SessionKept(d)
      BY <1>4, <3>1, <3>3 DEF SessionKept
    <3>5. \A y \in OnWire(clientOf[d]) : Ordinary(y) => Ordinary(y)'
      BY <1>7, <1>8, <3>1
    <3> QED BY <2>2, <3>1, <3>4, <3>5, OwnKept, BeginKept DEF TxnInv, OpenOK, CallKept, Owning
  <2>3. CASE d # x /\ ~Owning(d)
    BY <2>3 DEF Owning, Alone
  <2> QED BY <2>1, <2>2, <2>3
<1>16. PinnedOK'
  <2> SUFFICES ASSUME NEW l \in Lanes, pins[l] # None PROVE PinOK(l)'
    BY DEF PinnedOK
  <2>1. /\ PinOK(l) /\ clientOf[pins[l]] \in Clients /\ pins[l] \in Requests
        /\ state[pins[l]] = "held" /\ pc[pins[l]] = "settled"
    BY PinFacts DEF TxnInv, PinnedOK
  <2>2. Begun(l)' => Begun(l)
    <3>1. adapterClosing => adapterClosing'
      BY DEF adapterClosing, Senders
    <3> QED BY <3>1 DEF Begun, Alone, EndKind
  <2>3. ASSUME NEW y \in OnWire(clientOf[pins[l]])'
        PROVE  y = Closer \/ (pc'[y] = "pinned" /\ on'[y] = pins[l])
    <3>1. CASE y \in OnWire(clientOf[pins[l]])
      BY <1>7, <2>1, <3>1 DEF PinOK, Alone, Senders
    <3>2. CASE y = x /\ clientOf[pins[l]] = c
      <4>1. pins[l] = b
        BY <1>2, <2>1, <3>2
      <4> QED BY <2>1, <3>2, <4>1 DEF Senders
    <3>3. OnWire(clientOf[pins[l]])' \subseteq
            OnWire(clientOf[pins[l]]) \cup (IF clientOf[pins[l]] = c THEN {x} ELSE {})
      <4>1. OnWire(clientOf[pins[l]])' = ToSet(wire'[clientOf[pins[l]]])
        BY DEF OnWire
      <4> QED BY <1>5, <1>6, <2>1, <4>1 DEF OnWire
    <3> QED BY <2>3, <3>1, <3>2, <3>3
  <2> QED BY <1>10, <2>1, <2>2, <2>3 DEF PinOK, OnWire
<1>17. StatementsOK'
  <2> SUFFICES ASSUME NEW y \in Requests, pc'[y] = "pinned" PROVE StatementOK(y)'
    BY DEF StatementsOK
  <2>1. CASE y = x
    BY <1>1, <1>9, <1>10, <2>1 DEF StatementOK, Done, Mode
  <2>2. CASE y # x
    <3>1. pc[y] = "pinned" /\ CallKept(y) /\ StatementOK(y)
      BY <1>9, <2>2 DEF CallKept, Alone, Senders, TxnInv, StatementsOK
    <3>2. Mode(on[y])' = Mode(on[y])
      BY <3>1 DEF CallKept, Mode
    <3> QED BY <3>1, <3>2 DEF StatementOK, CallKept, Done, EndsPin
  <2> QED BY <2>1, <2>2
<1>18. CloserOK'
  <2> SUFFICES ASSUME closer' = "rolling"
               PROVE  /\ ToSet(wire'[clientOf[pins[closerLane']]]) \subseteq {Closer}
                      /\ reply'[Closer] = "ok" => txn[clientOf[pins[closerLane']]].mode = "idle"
    BY DEF CloserOK, OnWire, Mode
  <2>1. CASE x = Closer
    BY <1>1, <1>5, <1>9, <2>1 DEF OnWire
  <2>2. CASE x \in Requests
    <3>1. /\ UNCHANGED <<closer, closerLane>> /\ closerLane \in Lanes
          /\ pins[closerLane] # None /\ reply'[Closer] = reply[Closer]
      BY <1>9, <2>2, NamesAssumption DEF PinsInv, RollingHasPin, Senders
    <3>2. pc'[x] # "pinned"
      BY <2>2 DEF PinsInv, PinnedAreDrained, PinsCollected
    <3>3. clientOf[pins[closerLane]] \in Clients \ {c}
      <4>1. pins[closerLane] # b
        BY <2>2, <3>1, <3>2, PinFacts
      <4> QED BY <1>2, <3>1, <4>1, PinFacts
    <3> QED BY <1>4, <3>1, <3>3 DEF TxnInv, CloserOK, OnWire, Mode
  <2> QED BY <2>1, <2>2 DEF Senders
<1> QED BY <1>11, <1>12, <1>13, <1>14, <1>15, <1>16, <1>17, <1>18 DEF TxnInv

-----------------------------------------------------------------------------
\* The kinds of the calls, and who is alone on its lane, after a step of r.
LEMMA ShapesKept ==
  ASSUME AllInv, NEW r \in Requests, Alone(r), finishing \subseteq finishing',
         Owning(r)' \/ pc'[r] \in {"open-wait", "auto-wait"} => on'[r] = r,
         Opener(r)' => Opens(req'[r]),
         pc'[r] \in {"auto-wait", "auto"} =>
           ~Opens(req'[r]) /\ req'[r].control # "reject" /\ req'[r].lane = DefaultLane,
         pc'[r] = "pinned" => ~Opens(req'[r]) /\ req'[r].control # "reject",
         ~Settled(r)' /\ req'[r].commit => on'[r] \in finishing',
         IF pc'[r] \in {"idle", "settled", "open-wait", "auto-wait"} THEN at'[r] = 1
         ELSE at'[r] <= Len(Script(req'[r]))
  PROVE  ShapesOK'
<1> SUFFICES ASSUME NEW s \in Requests
             PROVE  /\ Owning(s)' \/ pc'[s] \in {"open-wait", "auto-wait"} => on'[s] = s
                    /\ Opener(s)' => Opens(req'[s])
                    /\ pc'[s] \in {"auto-wait", "auto"} =>
                         ~Opens(req'[s]) /\ req'[s].control # "reject" /\ req'[s].lane = DefaultLane
                    /\ pc'[s] = "pinned" => ~Opens(req'[s]) /\ req'[s].control # "reject"
                    /\ ~Settled(s)' /\ req'[s].commit => on'[s] \in finishing'
                    /\ IF pc'[s] \in {"idle", "settled", "open-wait", "auto-wait"} THEN at'[s] = 1
                       ELSE at'[s] <= Len(Script(req'[s]))
  BY DEF ShapesOK, Opens
<1>1. CASE s = r
  BY <1>1
<1>2. CASE s # r
  BY <1>2 DEF AllInv, TxnInv, ShapesOK, Alone, Owning, Opener, Settled
<1> QED BY <1>1, <1>2

\* A call of a named lane is still the only one of its lane.
LEMMA NamedKept ==
  ASSUME AllInv, NEW r \in Requests, Alone(r), pins' = pins,
         ~Settled(r)' /\ req'[r].lane # DefaultLane =>
           /\ \/ ~Settled(r) /\ req'[r] = req[r]
              \/ \A s \in Requests : ~Settled(s) => req[s].lane # req'[r].lane
           /\ pc'[r] = "pinned" => pins[req'[r].lane] = on'[r]
  PROVE  NamedAlone'
<1> SUFFICES ASSUME NEW s \in Requests, ~Settled(s)', req'[s].lane # DefaultLane
             PROVE  /\ pc'[s] = "pinned" => pins[req'[s].lane] = on'[s]
                    /\ \A o \in Requests : ~Settled(o)' /\ req'[o].lane = req'[s].lane => o = s
  BY DEF NamedAlone
<1>1. \A o \in Requests \ {r} : ~Settled(o)' => ~Settled(o) /\ req'[o] = req[o]
  BY DEF Alone, Settled
<1>2. CASE s = r
  BY <1>1, <1>2 DEF AllInv, TxnInv, NamedAlone
<1>3. CASE s # r
  <2>1. \A o \in Requests : ~Settled(o)' /\ req'[o].lane = req'[s].lane => o = s
    BY <1>1, <1>3 DEF AllInv, TxnInv, NamedAlone
  <2> QED BY <1>1, <1>3, <2>1 DEF AllInv, TxnInv, NamedAlone, Alone
<1> QED BY <1>2, <1>3

\* A call sends its first batch to the client it has got.
LEMMA TxnResumes ==
  ASSUME AllInv, HoldInv', PinsInv', NEW r \in Requests, Resume(r)
  PROVE  TxnInv'
<1> USE DEF AllInv
<1>1. /\ pc[r] \in {"open-wait", "auto-wait"} /\ state[r] = "granted"
      /\ state' = [state EXCEPT ![r] = "held"]
      /\ pc' = [pc EXCEPT ![r] = IF pc[r] = "open-wait" THEN "open" ELSE "auto"] /\ Send(r, r)
      /\ UNCHANGED <<txn, clientOf, out, broken, failedReturns, pins, failedStarts>>
      /\ UNCHANGED <<req, finishing, at, on, closer, closerLane>>
  BY DEF Resume, Expose, SetState, GoTo, closeVars
<1>2. /\ pc'[r] \in {"open", "auto"} /\ (pc'[r] = "open" <=> pc[r] = "open-wait")
      /\ \A s \in Requests \ {r} : pc'[s] = pc[s]
      /\ state'[r] = "held" /\ \A s \in Requests \ {r} : state'[s] = state[s]
  BY <1>1, RequestsAssumption DEF PinsInv, PinsTypeOK, PoolInv, TypeOK
<1>3. on[r] = r /\ at[r] = 1 /\ Alone(r) /\ req[r] \in Admitted /\ r \in Senders
  BY <1>1, <1>2 DEF TxnInv, ShapesOK, Alone, HoldInv, AdmittedOK, Settled, Senders
<1>4. /\ r \notin failedReturns /\ Mode(r) = "idle" /\ clientOf[r] \in Clients
      /\ \A y \in OnWire(clientOf[r]) : Ordinary(y)
  BY <1>1, SlotFacts DEF PoolInv, ChargeInv, TxnInv, QuietOK
<1>5. \A c \in Clients : r \notin OnWire(c)
  BY <1>1, NotOnWire DEF InUse
<1>6. ShapesOK'
  <2>1. 1 <= Len(Script(req[r]))
    BY <1>3, ScriptLength
  <2> QED BY <1>1, <1>2, <1>3, <2>1, ShapesKept DEF TxnInv, ShapesOK, Opener, Settled
<1>7. NamedAlone'
  BY <1>1, <1>2, <1>3, NamedKept DEF Settled
<1>8. InUse(r)' /\ at' \in [Requests -> 1 .. 3]
  BY <1>1, <1>2 DEF InUse, TxnInv, TxnTypes
<1>9. r # Closer
  BY NamesAssumption
<1> QED BY <1>1, <1>2, <1>3, <1>4, <1>5, <1>6, <1>7, <1>8, <1>9, TxnSends

\* A call sends the next batch of its script.
LEMMA TxnNextBatch ==
  ASSUME AllInv, HoldInv', PinsInv', NEW r \in Requests, NextBatch(r)
  PROVE  TxnInv'
<1> USE DEF AllInv
<1>1. /\ InUse(r) /\ pc[r] # "rollback" /\ reply[r] = "ok" /\ at[r] < Len(Script(req[r]))
      /\ at' = [at EXCEPT ![r] = @ + 1] /\ Send(r, on[r])
      /\ UNCHANGED <<txn, clientOf, out, broken, failedReturns, pins, failedStarts>>
      /\ UNCHANGED <<req, finishing, pc, on, closer, closerLane, state>>
  BY DEF NextBatch, poolVars, closeVars, InUse
<1>2. req[r] \in Admitted /\ r \in Senders /\ on[r] \in Requests
  BY <1>1 DEF HoldInv, AdmittedOK, Settled, InUse, Senders, PinsInv, CallsUseBorrows
<1>3. Len(Script(req[r])) \in 1 .. 3 /\ at[r] \in 1 .. 3 /\ at \in [Requests -> 1 .. 3]
  BY <1>2, ScriptLength DEF TxnInv, TxnTypes
<1>4. at[r] + 1 \in 2 .. 3 /\ at[r] + 1 <= Len(Script(req[r]))
  BY <1>1, <1>3
<1>5. at' \in [Requests -> 1 .. 3] /\ at'[r] = at[r] + 1 /\ Alone(r)
  BY <1>1, <1>3, <1>4 DEF Alone
<1>6. \A c \in Clients : r \notin OnWire(c)
  BY <1>1, NotOnWire
<1>7. ShapesOK'
  BY <1>1, <1>4, <1>5, ShapesKept DEF TxnInv, ShapesOK, Owning, Opener, Settled, InUse
<1>8. NamedAlone'
  <2>1. ~Settled(r)
    BY <1>1 DEF Settled, InUse
  <2> QED BY <1>1, <1>5, <2>1, NamedKept DEF TxnInv, NamedAlone
<1>9. r # Closer /\ InUse(r)'
  BY <1>1, NamesAssumption DEF InUse
<1>10. CASE Owning(r)
  <2>1. /\ on[r] = r /\ state[r] = "held" /\ r \notin failedReturns
        /\ clientOf[r] \in Clients /\ OwnOK(r)
    BY <1>10, OwningFacts DEF TxnInv, OpenOK
  <2>2. wire[clientOf[r]] = <<>> /\ OnWire(clientOf[r]) = {}
    BY <1>1, <2>1 DEF OwnOK, OnWire, ToSet
  <2>3. Mode(r) # "idle" => txn[clientOf[r]].lane = req'[r].lane
    BY <1>1, <2>1 DEF OwnOK
  <2>4. pc'[r] = "auto" => Mode(r) = "idle"
    BY <1>1, <2>1 DEF OwnOK
  <2>5. pc'[r] = "open" => (at'[r] = 1 => Mode(r) = "idle") /\ (at'[r] = 2 => Mode(r) = "open")
    BY <1>1, <1>3, <1>4, <1>5 DEF TxnInv, OpenOK, BeginOK
  <2>6. Owning(r)' /\ pc'[r] # "pinned" /\ pc[r] # "pinned" /\ pc[r] # "settled"
    BY <1>1, <1>10 DEF Owning
  <2> QED BY <1>1, <1>2, <1>5, <1>6, <1>7, <1>8, <1>9, <2>1, <2>2, <2>3, <2>4, <2>5, <2>6,
             TxnSends
<1>11. CASE pc[r] = "pinned"
  <2>1. ~Opens(req[r])
    BY <1>11 DEF TxnInv, ShapesOK
  <2>2. req[r].commit
    <3>1. PICK q \in Admitted : q = req[r]
      BY <1>2
    <3>2. ~q.commit => Script(q) = << <<Command(q)>> >>
      BY <2>1, <3>1, PlainScript
    <3>3. ~q.commit => Len(Script(q)) = 1
      BY <3>2
    <3>4. 2 <= Len(Script(req[r]))
      BY <1>3, <1>4
    <3>5. Len(Script(q)) = 1 => ~(2 <= Len(Script(q)))
      OBVIOUS
    <3> QED BY <3>1, <3>3, <3>4, <3>5
  <2>3. pins[req[r].lane] = on[r] /\ req[r].lane \in Lanes
    BY <1>2, <1>11, <2>2 DEF EndsOnPin, Ending, Terminal, Admitted
  <2>4. state[on[r]] = "held" /\ on[r] \notin failedReturns
    BY <1>2, <2>3, PinFacts, NamesAssumption
  <2>5. at'[r] # 1 /\ pc'[r] = "pinned" /\ pc[r] # "settled" /\ ~Owning(r)'
    BY <1>1, <1>4, <1>5, <1>11 DEF Owning
  <2> QED BY <1>1, <1>2, <1>5, <1>6, <1>7, <1>8, <1>9, <1>11, <2>3, <2>4, <2>5, TxnSends
<1> QED BY <1>1, <1>10, <1>11 DEF InUse, Owning

\* An open that succeeds late sends its rollback.
LEMMA TxnIsLate ==
  ASSUME AllInv, HoldInv', PinsInv', NEW r \in Requests, OpenIsLate(r)
  PROVE  TxnInv'
<1> USE DEF AllInv
<1>1. /\ pc[r] = "open" /\ reply[r] = "ok" /\ pc' = [pc EXCEPT ![r] = "rollback"] /\ Send(r, r)
      /\ UNCHANGED <<txn, clientOf, out, broken, failedReturns, pins, failedStarts>>
      /\ UNCHANGED <<req, finishing, at, on, closer, closerLane, state>>
  BY DEF OpenIsLate, OpenSucceeded, Completed, GoTo, poolVars, closeVars
<1>2. pc'[r] = "rollback" /\ Alone(r) /\ r \in Senders /\ r # Closer /\ Owning(r) /\ InUse(r)'
  BY <1>1, NamesAssumption DEF PinsInv, PinsTypeOK, Alone, Senders, Owning, InUse
<1>3. /\ on[r] = r /\ state[r] = "held" /\ r \notin failedReturns
      /\ clientOf[r] \in Clients /\ OwnOK(r)
  BY <1>2, OwningFacts DEF TxnInv, OpenOK
<1>4. wire[clientOf[r]] = <<>> /\ OnWire(clientOf[r]) = {}
  BY <1>1, <1>3 DEF OwnOK, OnWire, ToSet
<1>5. Mode(r) # "idle" => txn[clientOf[r]].lane = req'[r].lane
  BY <1>1, <1>3 DEF OwnOK
<1>6. \A c \in Clients : r \notin OnWire(c)
  BY <1>1, NotOnWire
<1>7. ShapesOK'
  BY <1>1, <1>2, <1>3, ShapesKept DEF TxnInv, ShapesOK, Owning, Opener, Settled
<1>8. NamedAlone'
  BY <1>1, <1>2, NamedKept DEF Settled
<1>9. at' \in [Requests -> 1 .. 3]
  BY <1>1 DEF TxnInv, TxnTypes
<1> QED BY <1>1, <1>2, <1>3, <1>4, <1>5, <1>6, <1>7, <1>8, <1>9, TxnSends

\* A statement goes to the client its lane is pinned to.
LEMMA TxnCallsPinned ==
  ASSUME AllInv, HoldInv', PinsInv', NEW r \in Requests, NEW q \in ShapeType, NEW l \in Lanes,
         CallPinned(r, q, l)
  PROVE  TxnInv'
<1> USE DEF AllInv
<1> DEFINE a == [lane |-> l, start |-> q.start, control |-> q.control,
                 commit |-> q.commit, params |-> q.params]
           b == pins[l]
<1>0. /\ a.lane = l /\ a.start = q.start /\ a.control = q.control /\ a.commit = q.commit
      /\ a.params = q.params
      /\ a \in Admitted
  BY DEF ShapeType, Admitted
<1> HIDE DEF a, b
<1>1. /\ pc[r] = "idle" /\ req' = [req EXCEPT ![r] = a] /\ on' = [on EXCEPT ![r] = b]
      /\ finishing' = IF q.commit THEN finishing \cup {b} ELSE finishing
      /\ pc' = [pc EXCEPT ![r] = "pinned"] /\ Send(r, b)
      /\ UNCHANGED <<txn, clientOf, out, broken, failedReturns, pins, failedStarts>>
      /\ UNCHANGED <<at, closer, closerLane, state>>
  BY DEF CallPinned, Admissible, Admit, GoTo, closeVars, poolVars, a, b
<1>2. /\ b \in Requests /\ b = pins[l] /\ state[b] = "held" /\ b \notin failedReturns
      /\ clientOf[b] \in Clients
  BY PinFacts DEF CallPinned, b
<1>3. req'[r] = a /\ on'[r] = b /\ pc'[r] = "pinned" /\ Alone(r) /\ at[r] = 1
  BY <1>1 DEF Alone, PinsInv, PinsTypeOK, HoldInv, AdmittedOK, TxnInv, ShapesOK
<1>4. ~Opens(a) /\ q.control # "reject"
  BY <1>0 DEF CallPinned, Refused, Opens
<1>5. l # DefaultLane => \A s \in Requests : ~Settled(s) => req[s].lane # l
  BY DEF CallPinned, Admissible
<1>6. l # DefaultLane /\ q.control = "other" => Mode(b) # "idle" \/ clientOf[b] \in broken
  <2> SUFFICES ASSUME l # DefaultLane, q.control = "other"
               PROVE  Mode(b) # "idle" \/ clientOf[b] \in broken
    OBVIOUS
  <2>1. ~adapterClosing /\ l \notin failedStarts /\ b \notin finishing
    BY <1>2 DEF CallPinned, Refused, Opens, EndKind, Admissible
  <2>2. \A x \in Requests : pc[x] = "pinned" => req[x].lane # l
    BY <1>5 DEF Settled
  <2>3. Begun(l)
    BY <1>2, <2>1, <2>2 DEF Begun
  <2> QED BY <1>2, <2>3, RequestsAssumption, NamesAssumption DEF TxnInv, PinnedOK, PinOK
<1>7. \A c \in Clients : r \notin OnWire(c)
  BY <1>1, NotOnWire DEF InUse
<1>8. ShapesOK'
  <2>1. a \in Admitted
    BY <1>0
  <2>2. 1 <= Len(Script(a))
    BY <2>1, ScriptLength
  <2> QED BY <1>0, <1>1, <1>3, <1>4, <2>2, ShapesKept DEF Owning, Opener
<1>9. NamedAlone'
  BY <1>0, <1>1, <1>2, <1>3, <1>5, NamedKept
<1>10. /\ r # Closer /\ r \in Senders /\ InUse(r)' /\ ~Owning(r)' /\ pc[r] # "settled"
       /\ pc[r] # "pinned"
       /\ at' \in [Requests -> 1 .. 3]
  BY <1>1, <1>3, NamesAssumption DEF Senders, InUse, Owning, TxnInv, TxnTypes
<1>11. finishing \subseteq finishing'
  BY <1>1
<1> QED BY <1>0, <1>1, <1>2, <1>3, <1>6, <1>7, <1>8, <1>9, <1>10, <1>11, TxnSends

\* close() sends the rollback of a lane.
LEMMA TxnCloseSends ==
  ASSUME AllInv, HoldInv', PinsInv', NEW l \in Lanes, CloseRollback(l)
  PROVE  TxnInv'
<1> USE DEF AllInv
<1> DEFINE b == pins[l]
<1>1. /\ b \in Requests /\ b = pins[l] /\ state[b] = "held" /\ b \notin failedReturns
      /\ clientOf[b] \in Clients
  BY PinFacts DEF CloseRollback
<1> HIDE DEF b
<1>2. /\ closer = "returning" /\ closer' = "rolling" /\ closerLane' = l /\ Send(Closer, b)
      /\ UNCHANGED <<txn, clientOf, out, broken, failedReturns, pins, failedStarts>>
      /\ UNCHANGED <<req, finishing, pc, at, on, state>>
  BY <1>1 DEF CloseRollback, poolVars, callVars
<1>3. \A c \in Clients : Closer \notin OnWire(c)
  BY <1>2 DEF TxnInv, WireOK
<1>4. OnWire(clientOf[b]) = {}
  <2>1. PinOK(l)
    BY <1>1, NamesAssumption DEF TxnInv, PinnedOK
  <2>2. \A y \in Requests : pc[y] # "pinned"
    BY <1>2 DEF PinsInv, PinnedAreDrained, PinsCollected
  <2>3. OnWire(clientOf[b]) \subseteq Senders
    BY <1>1, OnWireSenders DEF TxnInv
  <2> QED BY <1>1, <1>3, <2>1, <2>2, <2>3 DEF PinOK, Senders
<1>5. ShapesOK' /\ NamedAlone'
  BY <1>2 DEF TxnInv, ShapesOK, NamedAlone, Owning, Opener, Settled
<1>6. /\ Closer \in Senders /\ Closer \notin Requests /\ Alone(Closer)
      /\ at' \in [Requests -> 1 .. 3]
  BY <1>2, NamesAssumption DEF Senders, Alone, TxnInv, TxnTypes
<1> QED BY <1>1, <1>2, <1>3, <1>4, <1>5, <1>6, TxnSends

-----------------------------------------------------------------------------
\* The server answers the batch of x, the first on the wire of c, with o.
Served(c, x, o) ==
  /\ wire[c] # <<>> /\ x = Head(wire[c]) /\ wire'[c] = Tail(wire[c])
  /\ \A d \in Clients \ {c} : wire'[d] = wire[d] /\ txn'[d] = txn[d]
  /\ txn'[c].mode = o[2]
  /\ o[2] # "idle" => txn'[c].lane = IF txn[c].mode = "idle" THEN LaneOf(x) ELSE txn[c].lane
  /\ reply'[x] = o[1] /\ \A y \in Senders \ {x} : reply'[y] = reply[y]
  /\ IF c \in broken THEN o[1] = "err" /\ o[2] = txn[c].mode
     ELSE o \in Outcomes(BatchOf(x), txn[c].mode)
  /\ UNCHANGED <<state, clientOf, out, broken, failedReturns, req, pc, finishing, at, on, pins,
                 failedStarts,
                 closer, closerLane>>

\* Who has sent it, and what is left on the wires.
Sent(c, x) ==
  /\ x \in OnWire(c) /\ (\A d \in Clients \ {c} : x \notin OnWire(d))
  /\ x \notin OnWire(c)' /\ OnWire(c)' \subseteq OnWire(c) /\ Once(wire'[c])
  /\ \A y \in OnWire(c) : y # x => y \in OnWire(c)'
  /\ LaneOf(x) \in Lanes
  /\ IF x = Closer THEN closer = "rolling" /\ clientOf[pins[closerLane]] = c
     ELSE x \in Requests /\ InUse(x) /\ clientOf[on[x]] = c /\ on[x] \in Requests /\ req[x] \in Admitted

\* What an answer of the server changes, and what it leaves alone.
LEMMA ServerFacts ==
  ASSUME AllInv, NEW c \in Clients, ServerStep(c)
  PROVE  /\ \E x \in Senders, o \in {"ok", "err"} \X Modes : Served(c, x, o) /\ Sent(c, x)
         /\ TxnTypes'
<1> USE DEF AllInv
<1>1. /\ wire[c] \in Seq(Senders) /\ wire[c] # <<>> /\ txn[c].mode \in Modes
      /\ txn[c].lane \in Lanes \cup {None}
  BY DEF TxnInv, TxnTypes, ServerStep
<1>2. PICK x \in Senders : x = Head(wire[c])
  BY <1>1
<1>3. /\ Tail(wire[c]) \in Seq(Senders) /\ x \in ToSet(wire[c])
      /\ ToSet(Tail(wire[c])) \subseteq ToSet(wire[c])
      /\ \A y \in ToSet(wire[c]) : y # x => y \in ToSet(Tail(wire[c]))
      /\ Once(wire[c]) => Once(Tail(wire[c])) /\ x \notin ToSet(Tail(wire[c]))
  BY <1>1, <1>2, TailFacts
<1>4. /\ IF x = Closer THEN closer = "rolling" /\ clientOf[pins[closerLane]] = c
         ELSE InUse(x) /\ clientOf[on[x]] = c
      /\ Once(wire[c]) /\ \A d \in Clients \ {c} : x \notin OnWire(d)
  <2>1. x \in OnWire(c)
    BY <1>3 DEF OnWire
  <2>2. Once(wire[c])
    BY DEF TxnInv, WireOK
  <2>3. \A d \in Clients : x \in OnWire(d) =>
          IF x = Closer THEN closer = "rolling" /\ clientOf[pins[closerLane]] = d
          ELSE InUse(x) /\ clientOf[on[x]] = d
    BY DEF TxnInv, WireOK
  <2> QED BY <2>1, <2>2, <2>3
<1>5. x # Closer => x \in Requests /\ on[x] \in Requests /\ req[x] \in Admitted
  BY <1>4 DEF Senders, InUse, Settled, HoldInv, AdmittedOK, PinsInv, CallsUseBorrows
<1>6. LaneOf(x) \in Lanes
  BY <1>4, <1>5 DEF LaneOf, Admitted, PinsInv, RollingHasPin
<1>7. PICK o \in {"ok", "err"} \X Modes :
        /\ IF c \in broken THEN o = <<"err", txn[c].mode>> ELSE o \in Outcomes(BatchOf(x), txn[c].mode)
        /\ reply' = [reply EXCEPT ![x] = o[1]]
        /\ txn' = [txn EXCEPT ![c] = IF o[2] = "idle" THEN NoTxn
                     ELSE [mode |-> o[2], lane |-> IF txn[c].mode = "idle" THEN LaneOf(x) ELSE txn[c].lane]]
  <2>1. \A b, m : Outcomes(b, m) \subseteq {"ok", "err"} \X Modes
    BY DEF Outcomes
  <2>2. <<"err", txn[c].mode>> \in {"ok", "err"} \X Modes
    BY <1>1
  <2> QED BY <1>2, <2>1, <2>2 DEF ServerStep
<1>8. /\ wire' = [wire EXCEPT ![c] = Tail(@)]
      /\ UNCHANGED <<state, clientOf, out, broken, failedReturns, req, pc, finishing, at, on,
                     pins, failedStarts,
                     closer, closerLane>>
  BY DEF ServerStep, poolVars
<1>9. o[1] \in {"ok", "err"} /\ o[2] \in Modes
  BY <1>7
<1>10. /\ reply \in [Senders -> {"none", "ok", "err"}] /\ wire \in [Clients -> Seq(Senders)]
       /\ txn \in [Clients -> [mode : Modes, lane : Lanes \cup {None}]]
  BY DEF TxnInv, TxnTypes
<1>11. IF o[2] = "idle" THEN txn'[c] = NoTxn
       ELSE txn'[c] = [mode |-> o[2], lane |-> IF txn[c].mode = "idle" THEN LaneOf(x) ELSE txn[c].lane]
  BY <1>7, <1>10
<1>12. Served(c, x, o)
  <2>1. /\ txn'[c].mode = o[2]
        /\ (o[2] # "idle" => txn'[c].lane = IF txn[c].mode = "idle" THEN LaneOf(x) ELSE txn[c].lane)
    BY <1>11 DEF NoTxn
  <2>2. IF c \in broken THEN o[1] = "err" /\ o[2] = txn[c].mode
        ELSE o \in Outcomes(BatchOf(x), txn[c].mode)
    BY <1>7
  <2>3. reply'[x] = o[1] /\ \A y \in Senders \ {x} : reply'[y] = reply[y]
    BY <1>7, <1>10
  <2>4. /\ wire'[c] = Tail(wire[c])
        /\ \A d \in Clients \ {c} : wire'[d] = wire[d] /\ txn'[d] = txn[d]
    BY <1>7, <1>8, <1>10
  <2> QED BY <1>1, <1>2, <1>8, <2>1, <2>2, <2>3, <2>4 DEF Served
<1>13. Sent(c, x)
  <2>1. OnWire(c)' = ToSet(Tail(wire[c])) /\ wire'[c] = Tail(wire[c])
    BY <1>8, <1>10 DEF OnWire
  <2> QED BY <1>3, <1>4, <1>5, <1>6, <2>1 DEF Sent, OnWire
<1>14. TxnTypes'
  <2>1. wire' \in [Clients -> Seq(Senders)]
    BY <1>3, <1>8, <1>10
  <2>2. reply' \in [Senders -> {"none", "ok", "err"}]
    BY <1>7, <1>9, <1>10
  <2>3. NoTxn \in [mode : Modes, lane : Lanes \cup {None}]
    BY DEF NoTxn, Modes
  <2>4. txn'[c] \in [mode : Modes, lane : Lanes \cup {None}]
    BY <1>1, <1>6, <1>9, <1>11, <2>3
  <2>5. txn' \in [Clients -> [mode : Modes, lane : Lanes \cup {None}]]
    BY <1>7, <1>10, <1>11, <2>4
  <2> QED BY <1>8, <2>1, <2>2, <2>5 DEF TxnInv, TxnTypes
<1> QED BY <1>12, <1>13, <1>14

\* What is sent in a transaction of its own, or to end one, begins none.
LEMMA ServesIdle ==
  ASSUME AllInv, NEW c \in Clients, NEW x \in Senders, NEW o \in {"ok", "err"} \X Modes,
         Served(c, x, o), Sent(c, x), txn[c].mode = "idle", x = Closer \/ pc[x] # "open"
  PROVE  o[2] = "idle"
<1>1. CASE c \in broken
  BY <1>1 DEF Served
<1>2. CASE c \notin broken /\ (x = Closer \/ pc[x] = "rollback")
  BY <1>2, EndOutcome DEF Served, BatchOf
<1>3. CASE c \notin broken /\ x # Closer /\ pc[x] \in {"auto", "pinned"}
  <2>1. ~Opens(req[x]) /\ req[x].control # "reject" /\ at[x] <= Len(Script(req[x]))
    BY <1>3 DEF AllInv, TxnInv, ShapesOK, Sent
  <2>2. at[x] \in 1 .. Len(Script(req[x]))
    <3>1. at[x] \in 1 .. 3 /\ Len(Script(req[x])) \in 1 .. 3
      BY <1>3, ScriptLength DEF AllInv, TxnInv, TxnTypes, Sent
    <3> QED BY <2>1, <3>1
  <2>3. o \in Outcomes(Script(req[x])[at[x]], "idle")
    BY <1>3 DEF Served, BatchOf
  <2>4. req[x] \in Admitted
    BY <1>3 DEF Sent
  <2> QED BY <2>1, <2>2, <2>3, <2>4, IdleOutcome
<1> QED BY <1>1, <1>2, <1>3 DEF Sent, InUse

\* What a statement of a lane does to its session.
LEMMA ServesStatement ==
  ASSUME AllInv, NEW c \in Clients, NEW x \in Requests, NEW o \in {"ok", "err"} \X Modes,
         Served(c, x, o), Sent(c, x), pc[x] = "pinned"
  PROVE  /\ o[1] = "ok" /\ at[x] = Len(Script(req[x])) /\ EndsPin(req[x]) => o[2] = "idle"
         /\ req[x].control = "chain" /\ ~req[x].commit /\ o[1] = "ok" => o[2] # "idle"
         /\ req[x].control = "other" /\ ~req[x].commit => (o[2] = "idle" <=> txn[c].mode = "idle")
<1>1. CASE c \in broken
  BY <1>1 DEF Served
<1>2. CASE c \notin broken
  <2>1. ~Opens(req[x]) /\ req[x].control # "reject" /\ at[x] <= Len(Script(req[x]))
    BY DEF AllInv, TxnInv, ShapesOK
  <2>2. req[x] \in Admitted /\ txn[c].mode \in Modes
    BY NamesAssumption DEF Sent, AllInv, TxnInv, TxnTypes
  <2>3. at[x] \in 1 .. Len(Script(req[x]))
    <3>1. at[x] \in 1 .. 3 /\ Len(Script(req[x])) \in 1 .. 3
      BY <2>2, ScriptLength DEF AllInv, TxnInv, TxnTypes
    <3> QED BY <2>1, <3>1
  <2>4. o \in Outcomes(Script(req[x])[at[x]], txn[c].mode)
    BY <1>2, NamesAssumption DEF Served, BatchOf
  <2> QED BY <2>1, <2>2, <2>3, <2>4, StatementOutcome
<1> QED BY <1>1, <1>2

\* What a call that opens a transaction has begun.
LEMMA ServesOpen ==
  ASSUME AllInv, NEW c \in Clients, NEW x \in Requests, NEW o \in {"ok", "err"} \X Modes,
         Served(c, x, o), Sent(c, x), pc[x] = "open", reply[x] = "none"
  PROVE  BeginOK(x)'
<1>1. /\ on[x] = x /\ clientOf[x] = c /\ BeginOK(x) /\ x # Closer /\ req[x] \in Admitted
      /\ Opens(req[x])
  BY NamesAssumption DEF AllInv, TxnInv, ShapesOK, Sent, OpenOK, Owning, Opener
<1>2. reply'[x] = o[1] /\ o[1] \in {"ok", "err"} /\ Mode(x)' = o[2] /\ clientOf'[x] = c
  BY <1>1 DEF Served, Mode
<1>3. at[x] \in 1 .. Len(Script(req[x]))
  <2>1. at[x] \in 1 .. 3 /\ Len(Script(req[x])) \in 1 .. 3 /\ at[x] <= Len(Script(req[x]))
    BY <1>1, ScriptLength DEF AllInv, TxnInv, TxnTypes, ShapesOK
  <2> QED BY <2>1
<1>4. UNCHANGED <<req, at, broken>>
  BY DEF Served
<1>5. CASE c \in broken
  <2>1. reply'[x] = "err" /\ clientOf'[x] \in broken'
    BY <1>2, <1>4, <1>5 DEF Served
  <2> QED BY <2>1 DEF BeginOK, Done
<1>6. CASE c \notin broken
  <2>1. o \in Outcomes(Script(req[x])[at[x]], Mode(x))
    BY <1>1, <1>6 DEF Served, BatchOf, Mode
  <2>2. (at[x] = 1 => Mode(x) = "idle") /\ (at[x] = 2 => Mode(x) = "open")
    BY <1>1 DEF BeginOK
  <2>3. /\ at[x] = 1 /\ o[1] = "ok" /\ Len(Script(req[x])) > 1 => o[2] = "open"
        /\ ~req[x].commit =>
             /\ o[1] = "ok" /\ at[x] = Len(Script(req[x])) /\ req[x].control # "end" => o[2] = "open"
             /\ at[x] > 1 /\ o[1] = "err" /\ ~EndKind(req[x]) => o[2] = "aborted"
        /\ /\ o[1] = "ok" /\ at[x] = Len(Script(req[x])) /\ ~RefusedAfterBegin(req[x])
           /\ EndsAtOnce(req[x])
           => o[2] = "idle"
    BY <1>1, <1>3, <2>1, <2>2, OpenOutcome
  <2> QED BY <1>2, <1>4, <2>3 DEF BeginOK, Done, EndKind, RefusedAfterBegin, EndsAtOnce
<1> QED BY <1>5, <1>6

\* The server answers a batch.
LEMMA TxnServes ==
  ASSUME AllInv, NEW c \in Clients, ServerStep(c)
  PROVE  TxnInv'
<1> USE DEF AllInv
<1>1. TxnTypes'
  BY ServerFacts
<1>2. PICK x \in Senders, o \in {"ok", "err"} \X Modes : Served(c, x, o) /\ Sent(c, x)
  BY ServerFacts
<1>3. /\ UNCHANGED <<state, clientOf, out, broken, failedReturns, req, pc, finishing, at, on,
                     pins, failedStarts,
                     closer, closerLane>>
      /\ \A d \in Clients \ {c} : wire'[d] = wire[d] /\ txn'[d] = txn[d]
      /\ \A y \in Senders \ {x} : reply'[y] = reply[y]
      /\ o[1] \in {"ok", "err"} /\ reply'[x] = o[1] /\ txn'[c].mode = o[2]
  BY <1>2 DEF Served
<1>4. /\ \A d \in Clients : OnWire(d)' \subseteq OnWire(d) \ {x}
      /\ \A d \in Clients : OnWire(d) \subseteq Senders
      /\ x \in OnWire(c) /\ x \in Senders
  BY <1>2, <1>3, OnWireSenders DEF Sent, OnWire, TxnInv
<1>5. \A s : Ordinary(s)' <=> Ordinary(s)
  BY <1>3 DEF Ordinary
<1>6. txn[c].mode = "idle" /\ (x = Closer \/ pc[x] # "open") => o[2] = "idle"
  BY <1>2, ServesIdle
<1>7. txn[c].mode # "idle" /\ o[2] # "idle" => txn'[c].lane = txn[c].lane
  BY <1>2 DEF Served
<1>8. Ordinary(x) => (o[2] = "idle" <=> txn[c].mode = "idle")
  BY <1>2, ServesStatement DEF Ordinary
<1>9. x # Closer => x \in Requests /\ InUse(x) /\ clientOf[on[x]] = c /\ on[x] \in Requests
  BY <1>2 DEF Sent
<1>10. ShapesOK' /\ NamedAlone'
  BY <1>3 DEF TxnInv, ShapesOK, NamedAlone, Owning, Opener, Settled
<1>11. WireOK'
  <2> SUFFICES ASSUME NEW d \in Clients
               PROVE  /\ Once(wire'[d])
                      /\ \A y \in OnWire(d)' :
                           /\ reply'[y] = "none"
                           /\ IF y = Closer THEN closer = "rolling" /\ clientOf[pins[closerLane]] = d
                              ELSE InUse(y) /\ clientOf[on[y]] = d
    BY <1>3 DEF WireOK, InUse
  <2>1. Once(wire'[d])
    BY <1>2, <1>3 DEF Sent, TxnInv, WireOK
  <2>2. \A y \in OnWire(d)' : y \in OnWire(d) /\ reply'[y] = reply[y]
    BY <1>3, <1>4
  <2> QED BY <2>1, <2>2 DEF TxnInv, WireOK
<1>12. QuietOK'
  <2>1. ASSUME NEW d \in Clients, txn[d].mode = "idle", \A y \in OnWire(d) : Ordinary(y)
        PROVE  txn'[d].mode = "idle" /\ \A y \in OnWire(d)' : Ordinary(y)'
    BY <1>3, <1>4, <1>5, <1>8, <2>1
  <2>2. ASSUME NEW b \in Requests, state[b] = "granted"
        PROVE  Mode(b)' = "idle" /\ \A y \in OnWire(clientOf[b])' : Ordinary(y)'
    <3>1. /\ clientOf[b] \in Clients /\ txn[clientOf[b]].mode = "idle"
          /\ \A y \in OnWire(clientOf[b]) : Ordinary(y)
      BY <2>2, SlotFacts DEF TxnInv, QuietOK, Mode
    <3> QED BY <1>3, <2>1, <3>1 DEF Mode
  <2> QED BY <1>3, <2>1, <2>2 DEF QuietOK, TxnInv, OnWire
<1>13. FailedOK'
  <2>1. ASSUME NEW b \in failedReturns
        PROVE  \A y \in OnWire(clientOf[b])' :
                 Ordinary(y)' /\ (Mode(b)' # "idle" => txn'[clientOf[b]].lane = DefaultLane)
    <3>1. b \in Requests /\ clientOf[b] \in Clients
      BY RequestsAssumption, SlotFacts DEF PoolInv, ChargeInv, TypeOK
    <3>2. \A y \in OnWire(clientOf[b]) :
            Ordinary(y) /\ (Mode(b) # "idle" => txn[clientOf[b]].lane = DefaultLane)
      BY DEF TxnInv, FailedOK
    <3>3. CASE clientOf[b] = c
      BY <1>3, <1>4, <1>5, <1>7, <1>8, <3>1, <3>2, <3>3 DEF Mode
    <3>4. CASE clientOf[b] # c
      BY <1>3, <1>4, <1>5, <3>1, <3>2, <3>4 DEF Mode
    <3> QED BY <3>3, <3>4
  <2> QED BY <1>3, <2>1 DEF FailedOK, TxnInv, OnWire
<1>14. OpenOK'
  <2> SUFFICES ASSUME NEW b \in Requests, Owning(b)
               PROVE  OwnOK(b)' /\ (pc[b] = "open" => BeginOK(b)')
    BY <1>3 DEF OpenOK, Owning
  <2>1. /\ on[b] = b /\ clientOf[b] \in Clients /\ OwnOK(b) /\ (pc[b] = "open" => BeginOK(b))
        /\ b # Closer
    BY OwningFacts, NamesAssumption DEF TxnInv, OpenOK
  <2>2. CASE clientOf[b] # c
    <3>1. SessionKept(b) /\ CallKept(b)
      BY <1>3, <1>9, <2>1, <2>2 DEF SessionKept, CallKept, Senders
    <3> QED BY <1>5, <2>1, <3>1, OwnKept, BeginKept
  <2>3. CASE clientOf[b] = c
    <3>1. /\ wire[c] # <<>> /\ wire[c] \in Seq(Senders) /\ x = Head(wire[c])
          /\ wire'[c] = Tail(wire[c])
      BY <1>2 DEF Served, TxnInv, TxnTypes
    <3>2. /\ reply[b] = "none" /\ b \in OnWire(c)
          /\ \A i \in DOMAIN wire[c] : wire[c][i] = b => i = Len(wire[c])
          /\ \A y \in OnWire(c) : y = b \/ Ordinary(y)
      BY <2>1, <2>3, <3>1 DEF OwnOK
    <3>3. /\ \A i \in DOMAIN wire'[c] : wire'[c][i] = b => i = Len(wire'[c])
          /\ x = b => wire'[c] = <<>>
      BY <3>1, <3>2, TailFacts
    <3>4. CASE x = b
      <4>1. wire'[c] = <<>> /\ OnWire(c)' = {}
        BY <3>3, <3>4 DEF OnWire, ToSet
      <4>2. o[2] # "idle" => txn'[c].lane = req[b].lane
        <5>1. txn[c].mode # "idle" => txn[c].lane = req[b].lane
          BY <2>1, <2>3 DEF OwnOK, Mode
        <5>2. o[2] # "idle" => txn'[c].lane = IF txn[c].mode = "idle" THEN LaneOf(x) ELSE txn[c].lane
          BY <1>2 DEF Served
        <5> QED BY <2>1, <3>4, <5>1, <5>2 DEF LaneOf
      <4>3. pc[b] = "auto" => o[2] = "idle"
        BY <1>6, <2>1, <2>3, <3>4 DEF OwnOK, Mode
      <4>4. pc[b] = "rollback" /\ o[1] = "ok" => o[2] = "idle"
        BY <1>2, <3>4, EndOutcome DEF Served, BatchOf
      <4>5. OwnOK(b)'
        BY <1>3, <2>3, <3>4, <4>1, <4>2, <4>3, <4>4 DEF OwnOK, Mode, OnWire
      <4>6. pc[b] = "open" => BeginOK(b)'
        BY <1>2, <3>2, <3>4, ServesOpen
      <4> QED BY <4>5, <4>6
    <3>5. CASE x # b
      <4>1. Ordinary(x) /\ txn[c].mode = "idle" /\ o[2] = "idle"
        BY <1>4, <1>8, <2>1, <2>3, <3>2, <3>5 DEF OwnOK, Mode
      <4>2. b \in OnWire(c)' /\ \A y \in OnWire(c)' : y = b \/ Ordinary(y)'
        BY <1>2, <1>4, <1>5, <3>2, <3>5 DEF Sent
      <4>3. reply'[b] = "none" /\ Mode(b)' = "idle" /\ Mode(b) = "idle"
        BY <1>3, <2>3, <3>2, <3>5, <4>1 DEF Mode, Senders
      <4>4. OwnOK(b)'
        BY <1>3, <2>3, <3>3, <4>2, <4>3 DEF OwnOK, OnWire
      <4>5. pc[b] = "open" => BeginOK(b)'
        BY <1>3, <2>1, <3>2, <4>3 DEF BeginOK, Done
      <4> QED BY <4>4, <4>5
    <3> QED BY <3>4, <3>5
  <2> QED BY <2>2, <2>3
<1>15. \A l \in Lanes : pins[l] # None /\ clientOf[pins[l]] = c =>
         x = Closer \/ (pc[x] = "pinned" /\ on[x] = pins[l])
  BY <1>4 DEF TxnInv, PinnedOK, PinOK
<1>16. PinnedOK'
  <2> SUFFICES ASSUME NEW l \in Lanes, pins[l] # None PROVE PinOK(l)'
    BY <1>3 DEF PinnedOK
  <2>1. PinOK(l) /\ clientOf[pins[l]] \in Clients
    BY PinFacts DEF TxnInv, PinnedOK
  <2>2. Begun(l)' <=> Begun(l)
    BY <1>3 DEF Begun, adapterClosing, EndKind
  <2>3. CASE clientOf[pins[l]] # c
    <3>1. SessionKept(pins[l])
      BY <1>3, <2>1, <2>3 DEF SessionKept
    <3> QED BY <1>3, <2>1, <2>2, <3>1, PinKept
  <2>4. CASE clientOf[pins[l]] = c
    <3>1. x = Closer \/ (pc[x] = "pinned" /\ on[x] = pins[l])
      BY <1>15, <2>4
    <3>2. o[2] # "idle" => txn'[c].lane = l
      BY <1>6, <1>7, <2>1, <2>4, <3>1 DEF PinOK, Mode
    <3>3. ASSUME Begun(l), c \notin broken PROVE o[2] # "idle"
      <4>1. x # Closer /\ txn[c].mode # "idle"
        BY <1>2, <2>1, <2>4, <3>3 DEF Begun, adapterClosing, Sent, PinOK, Mode
      <4>2. /\ x \in Requests /\ pc[x] = "pinned" /\ on[x] = pins[l] /\ l = req[x].lane
            /\ req[x] \in Admitted
        BY <1>2, <1>9, <3>1, <4>1 DEF HoldInv, StatementsOnPins, Sent
      <4>3. ~EndKind(req[x]) /\ ~req[x].commit
        BY <3>3, <4>2 DEF Begun, TxnInv, ShapesOK, Settled
      <4>4. req[x].control = "other"
        BY <4>2, <4>3 DEF TxnInv, ShapesOK, Opens, EndKind, Admitted, Controls
      <4> QED BY <1>2, <4>1, <4>2, <4>3, <4>4, ServesStatement
    <3> QED BY <1>3, <1>4, <2>1, <2>2, <2>4, <3>2, <3>3 DEF PinOK, OnWire, Mode
  <2> QED BY <2>3, <2>4
<1>17. StatementsOK'
  <2> SUFFICES ASSUME NEW y \in Requests, pc[y] = "pinned" PROVE StatementOK(y)'
    BY <1>3 DEF StatementsOK
  <2>1. StatementOK(y) /\ on[y] \in Requests /\ ~Settled(y) /\ y # Closer
    BY NamesAssumption DEF TxnInv, StatementsOK, PinsInv, CallsUseBorrows, Settled
  <2>2. CASE y = x
    <3>1. clientOf[on[y]] = c /\ Mode(on[y])' = o[2] /\ reply'[y] = o[1]
      BY <1>3, <1>9, <2>1, <2>2 DEF Mode
    <3>2. /\ o[1] = "ok" /\ at[y] = Len(Script(req[y])) /\ EndsPin(req[y]) => o[2] = "idle"
          /\ req[y].control = "chain" /\ ~req[y].commit /\ o[1] = "ok" => o[2] # "idle"
      BY <1>2, <2>2, ServesStatement
    <3> QED BY <1>3, <3>1, <3>2 DEF StatementOK, Done, EndsPin
  <2>3. CASE y # x /\ clientOf[on[y]] # c
    <3>1. CallKept(y)
      BY <1>3, <2>3 DEF CallKept, Senders
    <3>2. ASSUME (Done(y) /\ EndsPin(req[y])) \/ req[y].lane # DefaultLane
          PROVE  Mode(on[y])' = Mode(on[y])
      <4>1. pins[req[y].lane] = on[y] /\ req[y].lane \in Lanes
        BY <2>1, <3>2
           DEF EndsOnPin, Ending, Terminal, EndsPin, EndKind, TxnInv, NamedAlone, HoldInv,
               AdmittedOK, Admitted
      <4>2. clientOf[on[y]] \in Clients
        BY <2>1, <4>1, PinFacts, NamesAssumption
      <4> QED BY <1>3, <2>3, <4>2 DEF Mode
    <3> QED BY <1>3, <2>1, <3>1, <3>2 DEF StatementOK, CallKept, Done, EndsPin
  <2>4. CASE y # x /\ clientOf[on[y]] = c
    <3>1. Mode(on[y])' = o[2] /\ Mode(on[y]) = txn[c].mode /\ reply'[y] = reply[y]
      BY <1>3, <2>4 DEF Mode, Senders
    <3>2. ASSUME Done(y), EndsPin(req[y]) PROVE o[2] = "idle"
      <4>1. pins[req[y].lane] = on[y] /\ req[y].lane \in Lanes
        BY <2>1, <3>2
           DEF EndsOnPin, Ending, Terminal, EndsPin, EndKind, HoldInv, AdmittedOK, Admitted
      <4>2. x = Closer \/ pc[x] # "open"
        BY <1>15, <2>1, <2>4, <4>1, NamesAssumption
      <4> QED BY <1>6, <2>1, <3>1, <3>2, <4>2 DEF StatementOK
    <3>3. req[y].lane = DefaultLane
      <4> SUFFICES ASSUME req[y].lane # DefaultLane PROVE FALSE
        OBVIOUS
      <4>1. pins[req[y].lane] = on[y] /\ req[y].lane \in Lanes
        BY <2>1 DEF TxnInv, NamedAlone, HoldInv, AdmittedOK, Admitted
      <4>2. x # Closer
        BY <1>2 DEF Sent, PinsInv, PinnedAreDrained, PinsCollected
      <4>3. pc[x] = "pinned" /\ on[x] = on[y] /\ x \in Requests /\ ~Settled(x)
        BY <1>9, <1>15, <2>1, <2>4, <4>1, <4>2, NamesAssumption DEF Settled, InUse
      <4>4. req[x].lane = req[y].lane
        BY <4>1, <4>3 DEF HoldInv, StatementsOnPins
      <4> QED BY <2>1, <2>4, <4>3, <4>4 DEF TxnInv, NamedAlone
    <3>4. Done(y)' <=> Done(y)
      BY <1>3, <3>1 DEF Done
    <3> QED BY <1>3, <3>1, <3>2, <3>3, <3>4 DEF StatementOK, EndsPin
  <2> QED BY <2>2, <2>3, <2>4
<1>18. CloserOK'
  <2> SUFFICES ASSUME closer = "rolling"
               PROVE  /\ OnWire(clientOf[pins[closerLane]])' \subseteq {Closer}
                      /\ reply'[Closer] = "ok" => Mode(pins[closerLane])' = "idle"
    BY <1>3 DEF CloserOK, OnWire
  <2>1. closerLane \in Lanes /\ pins[closerLane] # None
    BY DEF PinsInv, RollingHasPin
  <2>2. /\ clientOf[pins[closerLane]] \in Clients
        /\ OnWire(clientOf[pins[closerLane]]) \subseteq {Closer}
    BY <2>1, PinFacts DEF TxnInv, CloserOK
  <2>3. OnWire(clientOf[pins[closerLane]])' \subseteq {Closer}
    BY <1>3, <1>4, <2>2 DEF OnWire
  <2>4. CASE clientOf[pins[closerLane]] = c
    <3>1. x = Closer
      BY <1>4, <2>2, <2>4
    <3>2. o[1] = "ok" => o[2] = "idle"
      BY <1>2, <3>1, EndOutcome DEF Served, BatchOf
    <3> QED BY <1>3, <2>3, <2>4, <3>1, <3>2 DEF Mode
  <2>5. CASE clientOf[pins[closerLane]] # c
    <3>1. x # Closer
      BY <1>2, <2>5 DEF Sent
    <3>2. reply'[Closer] = reply[Closer] /\ Mode(pins[closerLane])' = Mode(pins[closerLane])
      BY <1>3, <2>2, <2>5, <3>1 DEF Mode, Senders
    <3> QED BY <2>3, <3>2 DEF TxnInv, CloserOK
  <2> QED BY <2>4, <2>5
<1> QED BY <1>1, <1>10, <1>11, <1>12, <1>13, <1>14, <1>16, <1>17, <1>18 DEF TxnInv

-----------------------------------------------------------------------------
\* Before the first call there is nothing on any wire.
LEMMA TxnStarts == AdapterInit => TxnInv /\ EndsOnPin /\ EveryClientHasAnOwner
<1> SUFFICES ASSUME AdapterInit PROVE TxnInv /\ EndsOnPin /\ EveryClientHasAnOwner
  OBVIOUS
<1> USE NamesAssumption
<1>1. /\ \A r \in Requests : pc[r] = "idle" /\ at[r] = 1 /\ state[r] = "none"
      /\ \A x \in Senders : reply[x] = "none"
      /\ \A c \in Clients : wire[c] = <<>> /\ txn[c] = NoTxn
      /\ \A l \in Lanes : pins[l] = None
      /\ closer = "none" /\ closerLane = None /\ failedStarts = {}
      /\ failedReturns = {} /\ out = {}
  BY RequestsAssumption DEF AdapterInit, PoolInit
<1>2. /\ \A c \in Clients : OnWire(c) = {} /\ Once(wire[c]) /\ txn[c].mode = "idle"
  BY <1>1 DEF OnWire, ToSet, Once, NoTxn
<1>3. TxnTypes
  <2>1. /\ wire \in [Clients -> Seq(Senders)]
        /\ txn \in [Clients -> [mode : Modes, lane : Lanes \cup {None}]]
    BY DEF AdapterInit, NoTxn, Modes
  <2>2. at \in [Requests -> 1 .. 3] /\ reply \in [Senders -> {"none", "ok", "err"}]
    BY DEF AdapterInit
  <2> QED BY <1>1, <2>1, <2>2 DEF TxnTypes, CloserStates
<1>4. ShapesOK /\ NamedAlone
  BY <1>1 DEF ShapesOK, NamedAlone, Owning, Opener, Settled
<1>5. WireOK /\ QuietOK /\ FailedOK
  BY <1>1, <1>2 DEF WireOK, QuietOK, FailedOK
<1>6. OpenOK /\ PinnedOK /\ StatementsOK /\ CloserOK
  BY <1>1 DEF OpenOK, PinnedOK, StatementsOK, CloserOK, Owning
<1>7. EndsOnPin /\ EveryClientHasAnOwner
  BY <1>1, RequestsAssumption DEF EndsOnPin, Ending, EveryClientHasAnOwner
<1> QED BY <1>3, <1>4, <1>5, <1>6, <1>7 DEF TxnInv

\* Every step of the adapter keeps the invariant.
LEMMA TxnStep ==
  ASSUME AllInv, HoldInv', PinsInv', [AdapterNext]_vars
  PROVE  TxnInv'
<1>1. ASSUME NEW r \in Requests, NEW call \in Calls, Call(r, call[1], call[2])
      PROVE  TxnInv'
  <2>1. call[1] \in ShapeType /\ call[2] \in Lanes
    BY CallsAssumption
  <2> QED BY <1>1, <2>1, TxnRefused, TxnConnects, TxnCallsPinned DEF Call
<1>2. ASSUME NEW r \in Requests, Continue(r) \/ ConnectFails(r)
      PROVE  TxnInv'
  <2>1. ~PinnedEndsTwice(r)
    BY NotTwice
  <2>2. ASSUME NEW ok \in BOOLEAN,
               \/ OpenReleases(r, ok) \/ OpenFailsReleased(r, ok) \/ LateOpenReturns(r, ok)
               \/ PinnedEnds(r, ok) \/ PinnedEndFails(r, ok) \/ AutoReturns(r, ok)
        PROVE  TxnInv'
    BY <2>2, TxnOwnReturns, TxnPinnedReturns
  <2>3. ASSUME \/ Resume(r) \/ ConnectIsLate(r) \/ ConnectFails(r) \/ NextBatch(r) \/ OpenPins(r)
               \/ OpenIsLate(r) \/ OpenFailsPinned(r) \/ PinnedContinues(r)
        PROVE  TxnInv'
    BY <2>3, TxnResumes, TxnConnectEnds, TxnNextBatch, TxnPins, TxnIsLate, TxnContinues
  <2> QED BY <1>2, <2>1, <2>2, <2>3 DEF Continue
<1>3. ASSUME CloseStep PROVE TxnInv'
  BY <1>3, TxnIdleSteps, TxnCloseSends, TxnCloseReturns DEF CloseStep
<1> QED BY <1>1, <1>2, <1>3, TxnIdleSteps, TxnPoolEnds, TxnServes DEF AdapterNext

\* The owner of a client tells whose commands are on their way to it.
LEMMA IsolatedNow ==
  ASSUME AllInv, EveryClientHasAnOwner
  PROVE  SessionsAreIsolated
<1> USE DEF AllInv
<1>1. \A c \in idle : txn[c].mode = "idle"
  BY DEF TxnInv, QuietOK, PoolInv, TypeOK, BrokenInv
<1>2. ASSUME NEW c \in Clients, wire[c] # <<>>, txn[c].mode # "idle"
      PROVE  LaneOf(Head(wire[c])) = txn[c].lane
  <2>1. PICK x \in Senders : x = Head(wire[c])
    BY <1>2 DEF TxnInv, TxnTypes
  <2>2. x \in OnWire(c)
    <3>1. wire[c] \in Seq(Senders)
      BY DEF TxnInv, TxnTypes
    <3> QED BY <1>2, <2>1, <3>1, TailFacts DEF OnWire
  <2>3. PICK b \in Requests : state[b] \in {"granted", "held", "late"} /\ clientOf[b] = c
    <3>1. c \in out
      BY <1>2 DEF TxnInv, QuietOK
    <3> QED BY <3>1, RequestsAssumption DEF PoolInv, SlotInv, OwnsSlot, ClientsOf
  <2>4. state[b] # "granted"
    BY <1>2, <2>3 DEF TxnInv, QuietOK, Mode
  <2>5. CASE Owning(b)
    <3>1. x = b /\ txn[c].lane = req[b].lane
      BY <1>2, <2>2, <2>3, <2>5 DEF TxnInv, OpenOK, OwnOK, Mode
    <3> QED BY <2>1, <3>1, NamesAssumption DEF LaneOf
  <2>6. ASSUME NEW l \in Lanes, pins[l] = b PROVE LaneOf(x) = txn[c].lane
    <3>1. pins[l] # None /\ PinOK(l)
      BY <2>6, NamesAssumption DEF TxnInv, PinnedOK
    <3>2. txn[c].lane = l /\ (x = Closer \/ (pc[x] = "pinned" /\ on[x] = pins[l]))
      BY <1>2, <2>2, <2>3, <2>6, <3>1 DEF PinOK, Mode
    <3>3. CASE x = Closer
      <4>1. closerLane \in Lanes /\ pins[closerLane] # None /\ clientOf[pins[closerLane]] = c
        BY <2>2, <3>3 DEF TxnInv, WireOK, PinsInv, RollingHasPin
      <4>2. pins[closerLane] = b
        BY <2>3, <4>1, PinFacts, SlotFacts
      <4>3. \A k \in Lanes : pins[k] = pins[l] => k = l
        BY <3>1, PinFacts
      <4>4. closerLane = l
        BY <2>6, <4>1, <4>2, <4>3
      <4> QED BY <3>2, <3>3, <4>4 DEF LaneOf
    <3>4. CASE x # Closer
      BY <3>2, <3>4, <2>1 DEF LaneOf, HoldInv, StatementsOnPins, Senders
    <3> QED BY <3>3, <3>4
  <2>7. CASE b \in failedReturns
    <3>1. Ordinary(x) /\ txn[c].lane = DefaultLane
      BY <1>2, <2>2, <2>3, <2>7 DEF TxnInv, FailedOK, Mode
    <3> QED BY <2>1, <3>1, NamesAssumption DEF LaneOf, Ordinary
  <2> QED BY <2>1, <2>3, <2>4, <2>5, <2>6, <2>7, RequestsAssumption
      DEF EveryClientHasAnOwner, Owning, TxnInv, FailedOK
<1> QED BY <1>1, <1>2 DEF SessionsAreIsolated

\* A statement of a named lane finds the transaction of its lane.
LEMMA NoAutocommitNow ==
  ASSUME AllInv
  PROVE  NoAutocommitInTransaction
<1> USE DEF AllInv
<1> SUFFICES ASSUME NEW c \in Clients, wire[c] # <<>>, c \notin broken, Head(wire[c]) # Closer,
                    pc[Head(wire[c])] = "pinned", LaneOf(Head(wire[c])) # DefaultLane,
                    BatchOf(Head(wire[c]))[1] = "work"
             PROVE  txn[c].mode # "idle"
  BY DEF NoAutocommitInTransaction
<1>1. wire[c] \in Seq(Senders)
  BY DEF TxnInv, TxnTypes
<1>2. PICK x \in Requests : x = Head(wire[c]) /\ x # Closer
  BY <1>1 DEF Senders
<1>3. x \in OnWire(c)
  BY <1>1, <1>2, TailFacts DEF OnWire
<1>4. pc[x] = "pinned" /\ reply[x] = "none" /\ clientOf[on[x]] = c /\ StatementOK(x)
  BY <1>2, <1>3 DEF TxnInv, WireOK, StatementsOK
<1>5. req[x] \in Admitted /\ ~Opens(req[x]) /\ at[x] \in 1 .. 3 /\ at[x] <= Len(Script(req[x]))
  BY <1>4 DEF HoldInv, AdmittedOK, Settled, TxnInv, TxnTypes, ShapesOK
<1>6. Script(req[x])[at[x]][1] = "work" /\ req[x].lane # DefaultLane
  BY <1>2, <1>4 DEF BatchOf, LaneOf
<1>7. at[x] = 1 /\ req[x].control = "other"
  <2>1. PICK q \in Admitted : q = req[x]
    BY <1>5
  <2>2. PICK n \in 1 .. 3 : n = at[x] /\ n <= Len(Script(q)) /\ Script(q)[n][1] = "work"
    BY <1>5, <1>6, <2>1
  <2>3. Command(q) = "work" => q.control = "other"
    BY DEF Command, Admitted, Controls
  <2>4. ~Opens(q)
    BY <1>5, <2>1
  <2>5. n = 1 /\ Command(q) = "work"
    <3>1. CASE Script(q) = << <<Command(q)>> >>
      BY <2>2, <3>1
    <3>2. CASE Script(q) = << <<Command(q)>>, <<"end">> >>
      BY <2>2, <3>2
    <3>3. CASE Script(q) = << <<Command(q), "end">> >>
      BY <2>2, <3>3
    <3> QED BY <2>4, <3>1, <3>2, <3>3, PlainScript
  <2> QED BY <2>1, <2>2, <2>3, <2>5
<1> QED BY <1>4, <1>6, <1>7 DEF StatementOK, Mode

(***************************************************************************)
(* The sessions of the lanes, in every execution.                          *)
(***************************************************************************)
LEMMA AdapterTxn == ~OverlappingEnds => (Spec => [](AllInv /\ EveryClientHasAnOwner))
<1> SUFFICES ASSUME ~OverlappingEnds PROVE Spec => [](AllInv /\ EveryClientHasAnOwner)
  OBVIOUS
<1>1. TxnInv /\ EndsOnPin /\ HoldInv /\ PinsInv /\ PoolInv /\ HoldInv' /\ PinsInv' /\ [AdapterNext]_vars
      => (TxnInv /\ EndsOnPin)'
  BY EndsStep, TxnStep DEF AllInv
<1>2. TxnInv /\ HoldInv /\ PinsInv /\ PoolInv /\ EndsOnPin => AllInv
  BY DEF AllInv
<1> QED BY <1>1, <1>2, TxnStarts, AdapterHolds, AdapterInvariant, AdapterPool,
           AdapterEveryClientHasAnOwner, PTL DEF Spec

(***************************************************************************)
(* A client never goes back to the pool with a transaction in progress,    *)
(* and no command runs in a transaction that another lane began (db.ts:621 *)
(* to 660, 718-727): however calls, connects, faults, failing commands and *)
(* close() interleave, provided that the statements that end a transaction *)
(* do not overlap on a lane.                                               *)
(***************************************************************************)
THEOREM AdapterSessionsAreIsolated == ~OverlappingEnds => (Spec => []SessionsAreIsolated)
BY AdapterTxn, IsolatedNow, PTL

(***************************************************************************)
(* A statement of a named transaction is never executed on its own: not    *)
(* when its BEGIN failed, when the transaction was ended, nor when close() *)
(* takes the lane's client (db.ts:626-628, 670-674).                       *)
(***************************************************************************)
THEOREM AdapterNoAutocommitInTransaction ==
  ~OverlappingEnds => (Spec => []NoAutocommitInTransaction)
BY AdapterTxn, NoAutocommitNow, PTL
=============================================================================
