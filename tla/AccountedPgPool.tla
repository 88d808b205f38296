-------------------------- MODULE AccountedPgPool --------------------------
(***************************************************************************)
(* src/src/worker/pool-capacity.ts: the wrapper that charges every         *)
(* checkout of a PostgreSQL pool and drains the charges before it ends the *)
(* provider's pool.                                                        *)
(*                                                                         *)
(* One element of Borrows is one call of connect().  The provider          *)
(* (node-postgres) is external: it has one slot per element of Clients,    *)
(* lends a free slot to a waiting checkout, and a release may throw        *)
(* without having returned the slot.  A destroyed slot is connected afresh *)
(* by the next checkout that gets it.                                      *)
(*                                                                         *)
(* JavaScript runs one synchronous stretch of code at a time, so an action *)
(* is the code between two awaits.                                         *)
(***************************************************************************)
EXTENDS Naturals, FiniteSets

CONSTANTS
  Borrows,    \* the calls of connect()
  Clients,    \* the provider's connection slots: its capacity
  NoClient,   \* not a slot
  Faulty,     \* the borrows whose connection may emit an error event
  Throwing    \* the borrows whose physical return may throw

ASSUME BorrowsAssumption == IsFiniteSet(Borrows)
ASSUME ClientsAssumption == NoClient \notin Clients
ASSUME FaultAssumption == Faulty \subseteq Borrows /\ Throwing \subseteq Borrows

VARIABLES
  state,          \* how far each connect() call and its borrow have come
  clientOf,       \* the slot a borrow was given (kept after its return)
  out,            \* provider: the slots checked out
  idle,           \* provider: the connected slots waiting to be lent again
  broken,         \* the slots whose connection has failed
  faulted,        \* the borrows with a latched fault
  normal,         \* the charge
  failedReturns,  \* the borrows whose physical return threw
  closing,        \* admission is sealed
  endTask         \* the task of end(): see EndStates

poolVars == <<state, clientOf, out, idle, broken, faulted, normal,
              failedReturns, closing, endTask>>

(***************************************************************************)
(* none       connect() has not been called                                *)
(* refused    connect() threw: the pool is closed                          *)
(* connecting charged, waiting for the provider                            *)
(* failed     the provider's checkout failed                               *)
(* granted    the provider's slot is observed, connect() has not resumed   *)
(* held       the caller has the client                                    *)
(* late       granted after the pool was sealed and the return threw: the  *)
(*            caller never gets the client, the charge stays               *)
(* returned   the provider has the slot back                               *)
(***************************************************************************)
BorrowStates == {"none", "refused", "connecting", "failed",
                 "granted", "held", "late", "returned"}

(***************************************************************************)
(* none       end() has not been called, or failed before the raw end      *)
(* scheduled  the drain loop is about to run its body                      *)
(* waiting    the drain loop awaits a change                               *)
(* ending     the provider's end() is in flight (rawEndStarted)            *)
(* ended, endFailed   its outcome, retained                                *)
(***************************************************************************)
EndStates == {"none", "scheduled", "waiting", "ending", "ended", "endFailed"}

RawEndStarted == endTask \in {"ending", "ended", "endFailed"}
OwnsSlot(b)   == state[b] \in {"granted", "held", "late"}
Charged(b)    == state[b] = "connecting" \/ OwnsSlot(b)
ClientsOf(B)  == {clientOf[b] : b \in B}

PoolInit ==
  /\ state = [b \in Borrows |-> "none"]
  /\ clientOf = [b \in Borrows |-> NoClient]
  /\ out = {} /\ idle = {} /\ broken = {}
  /\ faulted = {} /\ failedReturns = {}
  /\ normal = 0
  /\ closing = FALSE
  /\ endTask = "none"

-----------------------------------------------------------------------------
\* Mutant: a change wakes nobody.
NotifyLost == UNCHANGED endTask

\* notify(): whoever awaits the current change promise resumes.
Notify == endTask' = IF endTask = "waiting" THEN "scheduled" ELSE endTask

SetState(b, s) == state' = [state EXCEPT ![b] = s]

\* The provider takes back the slots of B; a destroyed one loses its connection.
TakeBack(B, destroyed) ==
  /\ out' = out \ ClientsOf(B)
  /\ idle' = (idle \cup ClientsOf(B)) \ ClientsOf(destroyed)
  /\ broken' = broken \ ClientsOf(destroyed)

\* The charges of the borrows in B end.
Discharge(B) ==
  /\ normal' = normal - Cardinality(B)
  /\ failedReturns' = failedReturns \ B
-----------------------------------------------------------------------------
\* connect() up to its await: a sealed pool throws, otherwise charge.
ConnectRefused(b) ==
  /\ state[b] = "none"
  /\ closing
  /\ SetState(b, "refused")
  /\ UNCHANGED <<clientOf, out, idle, broken, faulted, normal, failedReturns,
                 closing, endTask>>

\* Mutant: a closed pool still admits a checkout.
ConnectUnchecked(b) ==
  /\ state[b] = "none"
  /\ SetState(b, "connecting")
  /\ normal' = normal + 1
  /\ UNCHANGED <<clientOf, out, idle, broken, faulted, failedReturns,
                 closing, endTask>>

Connect(b) ==
  /\ state[b] = "none"
  /\ ~closing
  /\ SetState(b, "connecting")
  /\ normal' = normal + 1
  /\ UNCHANGED <<clientOf, out, idle, broken, faulted, failedReturns,
                 closing, endTask>>

\* The provider lends slot c and checkout() attaches its error observer.
Checkout(b, c) ==
  /\ state[b] = "connecting"
  /\ c \notin out
  /\ SetState(b, "granted")
  /\ clientOf' = [clientOf EXCEPT ![b] = c]
  /\ out' = out \cup {c}
  /\ idle' = idle \ {c}
  /\ UNCHANGED <<broken, faulted, normal, failedReturns, closing, endTask>>

CheckoutFails(b) ==
  /\ state[b] = "connecting"
  /\ SetState(b, "failed")
  /\ normal' = normal - 1
  /\ Notify
  /\ UNCHANGED <<clientOf, out, idle, broken, faulted, failedReturns, closing>>

\* Mutant: connect() does not look at closing again after its await.
ExposeUnchecked(b) ==
  /\ state[b] = "granted"
  /\ SetState(b, "held")
  /\ UNCHANGED <<clientOf, out, idle, broken, faulted, normal, failedReturns,
                 closing, endTask>>

\* connect() resumes: the caller gets the client unless the pool was sealed.
Expose(b) ==
  /\ state[b] = "granted"
  /\ ~closing
  /\ SetState(b, "held")
  /\ UNCHANGED <<clientOf, out, idle, broken, faulted, normal, failedReturns,
                 closing, endTask>>

\* Mutant: the latched fault is ignored.
DestroyedWithoutFaults(b, destroy) == IF destroy THEN {b} ELSE {}

\* rawRelease(destroy || fault !== undefined)
Destroyed(b, destroy) == IF destroy \/ b \in faulted THEN {b} ELSE {}

\* A release whose physical return succeeds.
Returns(b, destroy) ==
  /\ SetState(b, "returned")
  /\ TakeBack({b}, Destroyed(b, destroy))
  /\ Discharge({b})
  /\ Notify
  /\ UNCHANGED <<clientOf, faulted, closing>>

\* Mutant: the charge is given up although nothing was returned.
ReturnThrowsUncharged(b) ==
  /\ b \in Throwing
  /\ failedReturns' = failedReturns \cup {b}
  /\ normal' = normal - 1
  /\ Notify
  /\ UNCHANGED <<clientOf, out, idle, broken, faulted, closing>>

\* A release whose physical return throws: the charge and the handle stay.
ReturnThrows(b) ==
  /\ b \in Throwing
  /\ failedReturns' = failedReturns \cup {b}
  /\ Notify
  /\ UNCHANGED <<clientOf, out, idle, broken, faulted, normal, closing>>

\* connect() resumes after end() was called: it releases and throws.
LateCheckout(b) ==
  /\ state[b] = "granted"
  /\ closing
  /\ \/ Returns(b, TRUE)
     \/ ReturnThrows(b) /\ SetState(b, "late")

\* The wrapper's release(destroy), the first time or after it threw.
ReleaseOk(b, destroy) ==
  /\ state[b] = "held"
  /\ Returns(b, destroy)

ReleaseThrows(b) ==
  /\ state[b] = "held"
  /\ ReturnThrows(b)
  /\ UNCHANGED state

Release(b, destroy) == ReleaseOk(b, destroy) \/ ReleaseThrows(b)

\* Mutant: an old wrapper releases the client's current checkout.
ReleaseCurrentOwner(b) ==
  /\ state[b] = "returned"
  /\ out' = out \ {clientOf[b]}
  /\ idle' = idle \cup {clientOf[b]}
  /\ UNCHANGED <<state, clientOf, broken, faulted, normal, failedReturns,
                 closing, endTask>>

\* release() of a returned borrow only repeats this borrow's own rawRelease,
\* which the provider rejects.
DuplicateRelease(b) ==
  /\ state[b] = "returned"
  /\ UNCHANGED poolVars

\* The connection of a borrow fails: its observer latches the fault.
Fault(b) ==
  /\ b \in Faulty \ faulted
  /\ OwnsSlot(b)
  /\ faulted' = faulted \cup {b}
  /\ broken' = broken \cup {clientOf[b]}
  /\ UNCHANGED <<state, clientOf, out, idle, normal, failedReturns, closing,
                 endTask>>
-----------------------------------------------------------------------------
\* end(): a call while a task is published returns that task.
End ==
  /\ endTask = "none"
  /\ closing' = TRUE
  /\ endTask' = "scheduled"
  /\ UNCHANGED <<state, clientOf, out, idle, broken, faulted, normal,
                 failedReturns>>

\* Mutant: nothing left to retry counts as nothing left.
AfterPassEager(retried, failures, charge) ==
  IF failures # {} THEN "none"
  ELSE IF retried = {} \/ charge = 0 THEN "ending" ELSE "scheduled"

(***************************************************************************)
(* One pass of the drain loop: every failed return is retried with         *)
(* destroy, those in S throw again.  A failure ends the task and lets      *)
(* end() be called again; no charge left starts the provider's end(); a    *)
(* pass that retried nothing awaits the next change (a retry has already   *)
(* resolved the promise captured before it).                               *)
(***************************************************************************)
AfterPass(retried, failures, charge) ==
  IF failures # {} THEN "none"
  ELSE IF charge = 0 THEN "ending"
  ELSE IF retried = {} THEN "waiting" ELSE "scheduled"

EndPass(S) ==
  LET R == failedReturns \ S
  IN /\ endTask = "scheduled"
     /\ S \subseteq failedReturns \cap Throwing
     /\ state' = [b \in Borrows |-> IF b \in R THEN "returned" ELSE state[b]]
     /\ TakeBack(R, R)
     /\ Discharge(R)
     /\ endTask' = AfterPass(R, S, normal')
     /\ UNCHANGED <<clientOf, faulted, closing>>

RawEnd ==
  /\ endTask = "ending"
  /\ endTask' \in {"ended", "endFailed"}
  /\ UNCHANGED <<state, clientOf, out, idle, broken, faulted, normal,
                 failedReturns, closing>>
-----------------------------------------------------------------------------
\* The steps of the provider, and of the pool on its own.
PoolInternal ==
  \/ \E b \in Borrows, c \in Clients : Checkout(b, c)
  \/ \E b \in Borrows : CheckoutFails(b) \/ Expose(b) \/ LateCheckout(b)
  \/ \E b \in Borrows : Fault(b)
  \/ \E S \in SUBSET failedReturns : EndPass(S)
  \/ RawEnd

\* The calls its users make.
PoolCalls ==
  \/ \E b \in Borrows : ConnectRefused(b) \/ Connect(b) \/ DuplicateRelease(b)
  \/ \E b \in Borrows, destroy \in BOOLEAN : Release(b, destroy)
  \/ End

PoolNext == PoolInternal \/ PoolCalls

PoolSpec == PoolInit /\ [][PoolNext]_poolVars

(***************************************************************************)
(* Fairness: the provider settles every checkout it can serve and its      *)
(* end(), the event loop runs what is runnable, and whoever holds a client *)
(* calls release() on it (once: a release that threw is left to end()).    *)
(***************************************************************************)
Progress(b) ==
  \/ \E c \in Clients : Checkout(b, c)
  \/ Expose(b)
  \/ LateCheckout(b)
  \/ b \notin failedReturns /\ \E destroy \in BOOLEAN : Release(b, destroy)

PoolFairness ==
  /\ \A b \in Borrows : WF_poolVars(Progress(b))
  /\ WF_poolVars(\E S \in SUBSET failedReturns : EndPass(S))
  /\ WF_poolVars(RawEnd)

FairPoolSpec == PoolSpec /\ PoolFairness
-----------------------------------------------------------------------------
TypeOK ==
  /\ state \in [Borrows -> BorrowStates]
  /\ clientOf \in [Borrows -> Clients \cup {NoClient}]
  /\ out \subseteq Clients /\ idle \subseteq Clients /\ broken \subseteq Clients
  /\ faulted \subseteq Borrows /\ failedReturns \subseteq Borrows
  /\ normal \in Nat
  /\ closing \in BOOLEAN
  /\ endTask \in EndStates

(***************************************************************************)
(* The charge counts exactly the checkouts the provider is still owed: the *)
(* waiting ones, the ones held, and the ones whose return threw. No path   *)
(* of connect(), release() or the drain loop changes it twice or not at    *)
(* all (pool-capacity.ts:80-120, 143-162).                                 *)
(***************************************************************************)
ChargeIsExact ==
  /\ normal = Cardinality({b \in Borrows : Charged(b)})
  /\ failedReturns \subseteq {b \in Borrows : state[b] \in {"held", "late"}}

(***************************************************************************)
(* The provider's checked-out slots are those of the borrows that were     *)
(* neither returned nor refused, each lent to one borrow: an old wrapper   *)
(* never returns a later checkout of the same client                       *)
(* (pool-capacity.ts:92-102).                                              *)
(***************************************************************************)
SlotsAreOwned ==
  /\ out = ClientsOf({b \in Borrows : OwnsSlot(b)})
  /\ \A b1, b2 \in Borrows :
       OwnsSlot(b1) /\ OwnsSlot(b2) /\ clientOf[b1] = clientOf[b2] => b1 = b2

(***************************************************************************)
(* The provider's end() starts only when every checkout has been returned: *)
(* none waits, none is held, no throwing return is outstanding             *)
(* (pool-capacity.ts:142-166).                                             *)
(***************************************************************************)
DrainedBeforeEnd ==
  RawEndStarted => /\ closing /\ failedReturns = {} /\ out = {}
                   /\ \A b \in Borrows : ~Charged(b)

(***************************************************************************)
(* A connection whose failure was observed never waits in the provider for *)
(* another checkout, whatever way it was given back                        *)
(* (pool-capacity.ts:62-70).                                               *)
(***************************************************************************)
BrokenNeverIdle == idle \cap broken = {}

(***************************************************************************)
(* Once end() was called no caller gets a client: neither a new connect()  *)
(* nor one that was waiting for the provider (pool-capacity.ts:81, 117).   *)
(***************************************************************************)
SealedAdmission ==
  [][closing => /\ closing'
                /\ \A b \in Borrows : state'[b] = "held" => state[b] = "held"]_poolVars

(***************************************************************************)
(* Every call of end() is answered: if holders release, the drain loop     *)
(* never sleeps through the last return and a throwing retry ends it with  *)
(* an error instead (pool-capacity.ts:142-173).                            *)
(***************************************************************************)
EndSettles ==
  endTask \in {"scheduled", "waiting", "ending"}
    ~> endTask \in {"none", "ended", "endFailed"}

(***************************************************************************)
(* The pool implements DrainedPool: a charge is an abstract loan, the      *)
(* first end() seals, starting the provider's end() shuts.                 *)
(***************************************************************************)
Phase == IF RawEndStarted THEN "shut" ELSE IF closing THEN "sealed" ELSE "open"

Drained == INSTANCE DrainedPool WITH
  lent <- {b \in Borrows : Charged(b)}, phase <- Phase

ImplementsDrainedPool == Drained!Spec
=============================================================================
