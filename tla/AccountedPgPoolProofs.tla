----------------------- MODULE AccountedPgPoolProofs -----------------------
(***************************************************************************)
(* Theorems about AccountedPgPool for every set of borrows, every provider *)
(* capacity and every choice of faulty connections and throwing returns.   *)
(***************************************************************************)
EXTENDS AccountedPgPool, FiniteSetTheorems, TLAPS

ChargedSet == {b \in Borrows : Charged(b)}

(***************************************************************************)
(* What makes the invariants inductive: a slot is known for every borrow   *)
(* that owns one, an idle slot is not out, a broken one is, and its owner  *)
(* has the latched fault.                                                  *)
(***************************************************************************)
SlotInv ==
  /\ \A b \in Borrows : OwnsSlot(b) => clientOf[b] \in out
  /\ \A c \in out : \E b \in Borrows : OwnsSlot(b) /\ clientOf[b] = c
  /\ \A b1, b2 \in Borrows :
       OwnsSlot(b1) /\ OwnsSlot(b2) /\ clientOf[b1] = clientOf[b2] => b1 = b2

BrokenInv ==
  /\ idle \cap out = {}
  /\ broken \subseteq out
  /\ \A b \in Borrows : OwnsSlot(b) /\ clientOf[b] \in broken => b \in faulted

ChargeInv ==
  /\ normal = Cardinality(ChargedSet)
  /\ \A b \in failedReturns : state[b] \in {"held", "late"}

EndInv ==
  /\ endTask # "none" => closing
  /\ RawEndStarted => normal = 0

PoolInv == TypeOK /\ SlotInv /\ BrokenInv /\ ChargeInv /\ EndInv

-----------------------------------------------------------------------------
\* The charged borrows are finitely many, so the charge is a natural number.
LEMMA ChargedFinite ==
  /\ IsFiniteSet(ChargedSet)
  /\ Cardinality(ChargedSet) \in Nat
  /\ Cardinality(ChargedSet)' \in Nat
<1>1. ChargedSet \subseteq Borrows /\ ChargedSet' \subseteq Borrows
  BY DEF ChargedSet
<1>2. IsFiniteSet(ChargedSet) /\ IsFiniteSet(ChargedSet')
  BY <1>1, BorrowsAssumption, FS_Subset
<1>. QED
  BY <1>2, FS_CardinalityType

\* A charge of zero means that no borrow is charged.
LEMMA NoChargeNoBorrow ==
  Cardinality(ChargedSet) = 0 => \A b \in Borrows : ~Charged(b)
BY ChargedFinite, FS_EmptySet DEF ChargedSet

\* The same of the next state.
LEMMA DischargedAll ==
  Cardinality(ChargedSet)' = 0 => \A b \in Borrows : ~Charged(b)'
<1>1. ChargedSet' \subseteq Borrows
  BY DEF ChargedSet
<1>2. IsFiniteSet(ChargedSet')
  BY <1>1, BorrowsAssumption, FS_Subset
<1>. QED
  BY <1>2, FS_EmptySet DEF ChargedSet

\* Entering a borrow that was not charged raises the charge by one.
LEMMA ChargeOne ==
  ASSUME NEW b \in Borrows, ~Charged(b), Charged(b)',
         \A x \in Borrows \ {b} : Charged(x)' <=> Charged(x)
  PROVE  Cardinality(ChargedSet)' = Cardinality(ChargedSet) + 1
<1>1. ChargedSet' = ChargedSet \cup {b}
  BY DEF ChargedSet
<1>2. b \notin ChargedSet
  BY DEF ChargedSet
<1>. QED
  BY <1>1, <1>2, ChargedFinite, FS_AddElement

\* A step that keeps every borrow charged or uncharged keeps the count.
LEMMA ChargeSame ==
  ASSUME \A x \in Borrows : Charged(x)' <=> Charged(x)
  PROVE  Cardinality(ChargedSet)' = Cardinality(ChargedSet)
BY DEF ChargedSet

\* Ending the charges of the borrows in R lowers the count by their number.
LEMMA DischargeSet ==
  ASSUME NEW R \in SUBSET Borrows,
         \A x \in R : Charged(x) /\ ~Charged(x)',
         \A x \in Borrows \ R : Charged(x)' <=> Charged(x)
  PROVE  Cardinality(ChargedSet)' = Cardinality(ChargedSet) - Cardinality(R)
<1>1. ChargedSet' = ChargedSet \ R /\ R \subseteq ChargedSet
  BY DEF ChargedSet
<1>2. IsFiniteSet(R) /\ Cardinality(R) \in Nat
  BY <1>1, ChargedFinite, FS_Subset, FS_CardinalityType
<1>3. Cardinality(ChargedSet \ R)
        = Cardinality(ChargedSet) - Cardinality(ChargedSet \cap R)
  BY ChargedFinite, FS_Difference
<1>4. ChargedSet \cap R = R
  BY <1>1
<1>. QED
  BY <1>1, <1>2, <1>3, <1>4, ChargedFinite
-----------------------------------------------------------------------------
\* Initially nothing is charged.
LEMMA PoolInitInv == PoolInit => PoolInv
<1> SUFFICES ASSUME PoolInit PROVE PoolInv
  OBVIOUS
<1>1. \A b \in Borrows : state[b] = "none"
  BY DEF PoolInit
<1>2. ChargedSet = {}
  BY <1>1 DEF ChargedSet, Charged, OwnsSlot
<1>3. TypeOK
  BY DEF PoolInit, TypeOK, BorrowStates, EndStates
<1>4. SlotInv /\ BrokenInv
  BY <1>1 DEF PoolInit, SlotInv, BrokenInv, OwnsSlot
<1>5. ChargeInv
  BY <1>2, FS_EmptySet DEF PoolInit, ChargeInv
<1>6. EndInv
  BY DEF PoolInit, EndInv, RawEndStarted
<1>. QED
  BY <1>3, <1>4, <1>5, <1>6 DEF PoolInv

-----------------------------------------------------------------------------
\* A refused connect() and the settling of the provider's end().
LEMMA ConnectRefusedInv ==
  ASSUME PoolInv, NEW b \in Borrows, ConnectRefused(b)
  PROVE  PoolInv'
<1> USE DEF ConnectRefused, SetState
<1>1. \A x \in Borrows : state'[x] = IF x = b THEN "refused" ELSE state[x]
  BY DEF PoolInv, TypeOK
<1>2. \A x \in Borrows : (Charged(x)' <=> Charged(x)) /\ (OwnsSlot(x)' <=> OwnsSlot(x))
  BY <1>1 DEF Charged, OwnsSlot
<1>3. TypeOK'
  BY <1>1 DEF PoolInv, TypeOK, BorrowStates
<1>4. SlotInv' /\ BrokenInv'
  BY <1>2 DEF PoolInv, SlotInv, BrokenInv
<1>5. ChargeInv'
  BY <1>1, <1>2, ChargeSame DEF PoolInv, ChargeInv
<1>6. EndInv'
  BY DEF PoolInv, EndInv, RawEndStarted
<1>. QED
  BY <1>3, <1>4, <1>5, <1>6 DEF PoolInv

\* connect() charges the borrow.
LEMMA ConnectInv ==
  ASSUME PoolInv, NEW b \in Borrows, Connect(b)
  PROVE  PoolInv'
<1> USE DEF Connect, SetState
<1>1. \A x \in Borrows : state'[x] = IF x = b THEN "connecting" ELSE state[x]
  BY DEF PoolInv, TypeOK
<1>2. /\ \A x \in Borrows : OwnsSlot(x)' <=> OwnsSlot(x)
      /\ \A x \in Borrows \ {b} : Charged(x)' <=> Charged(x)
      /\ ~Charged(b) /\ Charged(b)'
  BY <1>1 DEF Charged, OwnsSlot
<1>3. TypeOK'
  BY <1>1 DEF PoolInv, TypeOK, BorrowStates
<1>4. SlotInv' /\ BrokenInv'
  BY <1>2 DEF PoolInv, SlotInv, BrokenInv
<1>5. ChargeInv'
  BY <1>1, <1>2, ChargeOne DEF PoolInv, ChargeInv
<1>6. EndInv'
  BY DEF PoolInv, EndInv, RawEndStarted
<1>. QED
  BY <1>3, <1>4, <1>5, <1>6 DEF PoolInv

\* The provider lends a slot that is not out.
LEMMA CheckoutInv ==
  ASSUME PoolInv, NEW b \in Borrows, NEW c \in Clients, Checkout(b, c)
  PROVE  PoolInv'
<1> USE DEF Checkout, SetState
<1>1. \A x \in Borrows :
        /\ state'[x] = IF x = b THEN "granted" ELSE state[x]
        /\ clientOf'[x] = IF x = b THEN c ELSE clientOf[x]
  BY DEF PoolInv, TypeOK
<1>2. /\ \A x \in Borrows : Charged(x)' <=> Charged(x)
      /\ \A x \in Borrows \ {b} : OwnsSlot(x)' <=> OwnsSlot(x)
      /\ ~OwnsSlot(b) /\ OwnsSlot(b)'
  BY <1>1 DEF Charged, OwnsSlot
<1>3. TypeOK'
  BY <1>1 DEF PoolInv, TypeOK, BorrowStates
<1>4. SlotInv'
  BY <1>1, <1>2 DEF PoolInv, SlotInv
<1>5. BrokenInv'
  BY <1>1, <1>2 DEF PoolInv, BrokenInv
<1>6. ChargeInv'
  BY <1>1, <1>2, ChargeSame DEF PoolInv, ChargeInv
<1>7. EndInv'
  BY DEF PoolInv, EndInv, RawEndStarted
<1>. QED
  BY <1>3, <1>4, <1>5, <1>6, <1>7 DEF PoolInv

\* A failed checkout gives up its charge.
LEMMA CheckoutFailsInv ==
  ASSUME PoolInv, NEW b \in Borrows, CheckoutFails(b)
  PROVE  PoolInv'
<1> USE DEF CheckoutFails, SetState
<1>1. \A x \in Borrows : state'[x] = IF x = b THEN "failed" ELSE state[x]
  BY DEF PoolInv, TypeOK
<1>2. /\ \A x \in Borrows : OwnsSlot(x)' <=> OwnsSlot(x)
      /\ \A x \in Borrows \ {b} : Charged(x)' <=> Charged(x)
      /\ Charged(b) /\ ~Charged(b)'
  BY <1>1 DEF Charged, OwnsSlot
<1>3. normal' = Cardinality(ChargedSet)' /\ normal' \in Nat
  <2>1. Cardinality(ChargedSet)' = Cardinality(ChargedSet) - Cardinality({b})
    BY <1>2, DischargeSet
  <2>2. Cardinality(ChargedSet)' \in Nat
    BY ChargedFinite
  <2>. QED
    BY <2>1, <2>2, FS_Singleton DEF PoolInv, ChargeInv
<1>4. TypeOK'
  BY <1>1, <1>3 DEF PoolInv, TypeOK, BorrowStates, EndStates, Notify
<1>5. SlotInv' /\ BrokenInv'
  BY <1>2 DEF PoolInv, SlotInv, BrokenInv
<1>6. ChargeInv'
  BY <1>1, <1>3 DEF PoolInv, ChargeInv
<1>7. EndInv'
  BY <1>2, NoChargeNoBorrow DEF PoolInv, ChargeInv, EndInv, RawEndStarted, Notify
<1>. QED
  BY <1>4, <1>5, <1>6, <1>7 DEF PoolInv

\* connect() hands the client over.
LEMMA ExposeInv ==
  ASSUME PoolInv, NEW b \in Borrows, Expose(b)
  PROVE  PoolInv'
<1> USE DEF Expose, SetState
<1>1. \A x \in Borrows : state'[x] = IF x = b THEN "held" ELSE state[x]
  BY DEF PoolInv, TypeOK
<1>2. \A x \in Borrows : (Charged(x)' <=> Charged(x)) /\ (OwnsSlot(x)' <=> OwnsSlot(x))
  BY <1>1 DEF Charged, OwnsSlot
<1>3. TypeOK'
  BY <1>1 DEF PoolInv, TypeOK, BorrowStates
<1>4. SlotInv' /\ BrokenInv'
  BY <1>2 DEF PoolInv, SlotInv, BrokenInv
<1>5. ChargeInv'
  BY <1>1, <1>2, ChargeSame DEF PoolInv, ChargeInv
<1>6. EndInv'
  BY DEF PoolInv, EndInv, RawEndStarted
<1>. QED
  BY <1>3, <1>4, <1>5, <1>6 DEF PoolInv

\* Taking back the slots of a set R of owners, destroying at least the faulted
\* ones, keeps the slots accounted for.  Releases and drain passes both do so.
LEMMA TakeBackInv ==
  ASSUME PoolInv, NEW R \in SUBSET Borrows, NEW D \in SUBSET R,
         \A x \in R : OwnsSlot(x) /\ state'[x] = "returned",
         \A x \in Borrows \ R : state'[x] = state[x],
         R \cap faulted \subseteq D,
         TakeBack(R, D), UNCHANGED <<clientOf, faulted>>
  PROVE  SlotInv' /\ BrokenInv' /\ out' \subseteq out
         /\ idle' \subseteq idle \cup out /\ broken' \subseteq broken
<1>1. /\ \A x \in R : OwnsSlot(x) /\ ~OwnsSlot(x)'
      /\ \A x \in Borrows \ R : OwnsSlot(x)' <=> OwnsSlot(x)
  BY DEF OwnsSlot
<1>2. /\ \A x \in R : clientOf[x] \in out
      /\ \A x \in Borrows \ R : OwnsSlot(x) => clientOf[x] \notin ClientsOf(R)
      /\ ClientsOf(R) \subseteq out /\ ClientsOf(D) \subseteq ClientsOf(R)
  BY <1>1 DEF PoolInv, SlotInv, ClientsOf
<1>3. SlotInv'
  <2>1. \A b \in Borrows : OwnsSlot(b)' => clientOf'[b] \in out'
    BY <1>1, <1>2 DEF PoolInv, SlotInv, TakeBack
  <2>2. \A c \in out' : \E b \in Borrows : OwnsSlot(b)' /\ clientOf'[b] = c
    <3> TAKE c \in out'
    <3>1. PICK b \in Borrows : OwnsSlot(b) /\ clientOf[b] = c
      BY DEF PoolInv, SlotInv, TakeBack
    <3>2. b \notin R
      BY <3>1 DEF TakeBack, ClientsOf
    <3>. QED
      BY <1>1, <3>1, <3>2
  <2>. QED
    BY <1>1, <2>1, <2>2 DEF PoolInv, SlotInv
<1>4. BrokenInv'
  <2>1. broken' \subseteq out'
    <3> SUFFICES ASSUME NEW c \in broken, c \notin ClientsOf(D) PROVE c \in out'
      BY DEF TakeBack
    <3>1. c \notin ClientsOf(R)
      BY <1>1 DEF PoolInv, BrokenInv, ClientsOf
    <3>. QED
      BY <3>1 DEF PoolInv, BrokenInv, TakeBack
  <2>2. idle' \cap out' = {}
    BY <1>2 DEF PoolInv, BrokenInv, TakeBack
  <2>3. \A b \in Borrows : OwnsSlot(b)' /\ clientOf'[b] \in broken' => b \in faulted'
    BY <1>1 DEF PoolInv, BrokenInv, TakeBack
  <2>. QED
    BY <2>1, <2>2, <2>3 DEF BrokenInv
<1>. QED
  BY <1>2, <1>3, <1>4 DEF TakeBack

\* A release whose physical return succeeds, whoever calls it.
LEMMA ReturnsInv ==
  ASSUME PoolInv, NEW b \in Borrows, NEW destroy \in BOOLEAN,
         OwnsSlot(b), Returns(b, destroy)
  PROVE  PoolInv'
<1> USE DEF Returns, SetState
<1>1. \A x \in Borrows : state'[x] = IF x = b THEN "returned" ELSE state[x]
  BY DEF PoolInv, TypeOK
<1>2. /\ \A x \in Borrows \ {b} : Charged(x)' <=> Charged(x)
      /\ Charged(b) /\ ~Charged(b)'
  BY <1>1 DEF Charged, OwnsSlot
<1>3. SlotInv' /\ BrokenInv' /\ out' \subseteq out
      /\ idle' \subseteq idle \cup out /\ broken' \subseteq broken
  <2>1. Destroyed(b, destroy) \in SUBSET {b} /\ {b} \cap faulted \subseteq Destroyed(b, destroy)
    BY DEF Destroyed
  <2>. QED
    BY <1>1, <2>1, TakeBackInv
<1>4. normal' = Cardinality(ChargedSet)' /\ normal' \in Nat
  <2>1. Cardinality(ChargedSet)' = Cardinality(ChargedSet) - Cardinality({b})
    BY <1>2, DischargeSet
  <2>. QED
    BY <2>1, ChargedFinite, FS_Singleton DEF PoolInv, ChargeInv, Discharge
<1>5. TypeOK'
  BY <1>1, <1>3, <1>4 DEF PoolInv, TypeOK, BorrowStates, EndStates, Notify, Discharge
<1>6. ChargeInv'
  BY <1>1, <1>4 DEF PoolInv, TypeOK, ChargeInv, Discharge
<1>7. EndInv'
  BY <1>2, NoChargeNoBorrow DEF PoolInv, ChargeInv, EndInv, RawEndStarted, Notify
<1>. QED
  BY <1>3, <1>5, <1>6, <1>7 DEF PoolInv

\* A release whose physical return throws keeps charge and slot.
LEMMA ReturnThrowsInv ==
  ASSUME PoolInv, NEW b \in Borrows, OwnsSlot(b), ReturnThrows(b),
         NEW s \in {"held", "late"}, SetState(b, s)
  PROVE  PoolInv'
<1> USE DEF ReturnThrows, SetState
<1>1. \A x \in Borrows : state'[x] = IF x = b THEN s ELSE state[x]
  BY DEF PoolInv, TypeOK
<1>2. \A x \in Borrows : (Charged(x)' <=> Charged(x)) /\ (OwnsSlot(x)' <=> OwnsSlot(x))
  BY <1>1 DEF Charged, OwnsSlot
<1>3. TypeOK'
  BY <1>1 DEF PoolInv, TypeOK, BorrowStates, EndStates, Notify
<1>4. SlotInv' /\ BrokenInv'
  BY <1>2 DEF PoolInv, SlotInv, BrokenInv
<1>5. ChargeInv'
  BY <1>1, <1>2, ChargeSame DEF PoolInv, ChargeInv
<1>6. EndInv'
  BY DEF PoolInv, EndInv, RawEndStarted, Notify
<1>. QED
  BY <1>3, <1>4, <1>5, <1>6 DEF PoolInv

\* A connection failure.
LEMMA FaultInv ==
  ASSUME PoolInv, NEW b \in Borrows, Fault(b)
  PROVE  PoolInv'
<1> USE DEF Fault
<1>1. \A x \in Borrows : (Charged(x)' <=> Charged(x)) /\ (OwnsSlot(x)' <=> OwnsSlot(x))
  BY DEF Charged, OwnsSlot
<1>2. TypeOK' /\ SlotInv'
  BY <1>1 DEF PoolInv, TypeOK, SlotInv
<1>3. BrokenInv'
  BY <1>1 DEF PoolInv, SlotInv, BrokenInv
<1>4. ChargeInv' /\ EndInv'
  BY <1>1, ChargeSame DEF PoolInv, ChargeInv, EndInv, RawEndStarted
<1>. QED
  BY <1>2, <1>3, <1>4 DEF PoolInv

\* Sealing the pool, and the outcome of the provider's end().
LEMMA EndStepsInv ==
  ASSUME PoolInv, End \/ RawEnd
  PROVE  PoolInv'
<1> USE DEF End, RawEnd
<1>1. \A x \in Borrows : (Charged(x)' <=> Charged(x)) /\ (OwnsSlot(x)' <=> OwnsSlot(x))
  BY DEF Charged, OwnsSlot
<1>2. TypeOK' /\ SlotInv' /\ BrokenInv'
  BY <1>1 DEF PoolInv, TypeOK, EndStates, SlotInv, BrokenInv
<1>3. ChargeInv' /\ EndInv'
  BY <1>1, ChargeSame DEF PoolInv, ChargeInv, EndInv, RawEndStarted
<1>. QED
  BY <1>2, <1>3 DEF PoolInv

\* One pass of the drain loop.
LEMMA EndPassInv ==
  ASSUME PoolInv, NEW S \in SUBSET failedReturns, EndPass(S)
  PROVE  PoolInv'
<1> DEFINE R == failedReturns \ S
<1>1. R \in SUBSET Borrows
  BY DEF PoolInv, TypeOK
<1>2. \A x \in Borrows : state'[x] = IF x \in R THEN "returned" ELSE state[x]
  BY DEF EndPass
<1>3. \A x \in R : state[x] \in {"held", "late"}
  BY DEF PoolInv, ChargeInv
<1>4. /\ \A x \in R : Charged(x) /\ ~Charged(x)'
      /\ \A x \in Borrows \ R : Charged(x)' <=> Charged(x)
  BY <1>1, <1>2, <1>3 DEF Charged, OwnsSlot
<1>5. SlotInv' /\ BrokenInv' /\ out' \subseteq out
      /\ idle' \subseteq idle \cup out /\ broken' \subseteq broken
  <2>1. \A x \in R : OwnsSlot(x)
    BY <1>3 DEF OwnsSlot
  <2>2. TakeBack(R, R) /\ UNCHANGED <<clientOf, faulted>>
    BY DEF EndPass
  <2> HIDE DEF R
  <2>. QED
    BY <1>1, <1>2, <2>1, <2>2, TakeBackInv
<1>6. normal' = Cardinality(ChargedSet)' /\ normal' \in Nat
  <2>1. Cardinality(ChargedSet)' = Cardinality(ChargedSet) - Cardinality(R)
    BY <1>1, <1>4, DischargeSet
  <2>. QED
    BY <2>1, ChargedFinite DEF PoolInv, ChargeInv, EndPass, Discharge
<1>7. endTask = "scheduled" /\ endTask' \in EndStates
      /\ (endTask' \in {"ending", "ended", "endFailed"} => normal' = 0)
  BY DEF EndPass, AfterPass, EndStates
<1>8. TypeOK'
  <2>1. state' \in [Borrows -> BorrowStates]
    BY DEF PoolInv, TypeOK, EndPass, BorrowStates
  <2>. QED
    BY <2>1, <1>5, <1>6, <1>7 DEF PoolInv, TypeOK, EndPass, Discharge
<1>9. ChargeInv'
  BY <1>1, <1>2, <1>6 DEF PoolInv, TypeOK, ChargeInv, EndPass, Discharge
<1>10. EndInv'
  BY <1>7 DEF PoolInv, EndInv, RawEndStarted, EndPass
<1>. QED
  BY <1>5, <1>8, <1>9, <1>10 DEF PoolInv

\* Steps that change nothing.
LEMMA StutterInv == PoolInv /\ UNCHANGED poolVars => PoolInv'
<1> SUFFICES ASSUME PoolInv, UNCHANGED poolVars PROVE PoolInv'
  OBVIOUS
<1>1. ChargedSet' = ChargedSet
  BY DEF poolVars, ChargedSet, Charged, OwnsSlot
<1>. QED
  BY <1>1 DEF poolVars, PoolInv, TypeOK, SlotInv, BrokenInv, ChargeInv, EndInv,
     OwnsSlot, RawEndStarted

-----------------------------------------------------------------------------
\* Every step of the pool keeps the invariant.
THEOREM PoolStepInv == PoolInv /\ [PoolNext]_poolVars => PoolInv'
<1> SUFFICES ASSUME PoolInv, [PoolNext]_poolVars PROVE PoolInv'
  OBVIOUS
<1>1. ASSUME NEW b \in Borrows, NEW c \in Clients, Checkout(b, c) PROVE PoolInv'
  BY <1>1, CheckoutInv
<1>2. ASSUME NEW b \in Borrows,
             CheckoutFails(b) \/ Expose(b) \/ Fault(b)
      PROVE  PoolInv'
  BY <1>2, CheckoutFailsInv, ExposeInv, FaultInv
<1>3. ASSUME NEW b \in Borrows, LateCheckout(b) PROVE PoolInv'
  <2>1. OwnsSlot(b)
    BY <1>3 DEF LateCheckout, OwnsSlot
  <2>. QED
    BY <1>3, <2>1, ReturnsInv, ReturnThrowsInv DEF LateCheckout
<1>4. ASSUME NEW S \in SUBSET failedReturns, EndPass(S) PROVE PoolInv'
  BY <1>4, EndPassInv
<1>5. CASE End \/ RawEnd
  BY <1>5, EndStepsInv
<1>6. ASSUME NEW b \in Borrows, ConnectRefused(b) \/ Connect(b) PROVE PoolInv'
  BY <1>6, ConnectRefusedInv, ConnectInv
<1>7. ASSUME NEW b \in Borrows, NEW destroy \in BOOLEAN, Release(b, destroy)
      PROVE  PoolInv'
  <2>1. CASE ReleaseOk(b, destroy)
    BY <2>1, ReturnsInv DEF ReleaseOk, OwnsSlot
  <2>2. CASE ReleaseThrows(b)
    <3>1. OwnsSlot(b) /\ SetState(b, "held")
      BY <2>2 DEF ReleaseThrows, OwnsSlot, SetState, PoolInv, TypeOK
    <3>. QED
      BY <2>2, <3>1, ReturnThrowsInv DEF ReleaseThrows
  <2>. QED
    BY <1>7, <2>1, <2>2 DEF Release
<1>8. CASE (\E b \in Borrows : DuplicateRelease(b)) \/ UNCHANGED poolVars
  BY <1>8, StutterInv DEF DuplicateRelease
<1>. QED
  BY <1>1, <1>2, <1>3, <1>4, <1>5, <1>6, <1>7, <1>8
     DEF PoolNext, PoolInternal, PoolCalls

\* The inductive invariant holds in every reachable state.
THEOREM PoolInvariant == PoolSpec => []PoolInv
BY PoolInitInv, PoolStepInv, PTL DEF PoolSpec

\* The types of the pool's variables.
THEOREM PoolTypeCorrect == PoolSpec => []TypeOK
BY PoolInvariant, PTL DEF PoolInv

\* The charge counts the checkouts the provider is owed
\* (pool-capacity.ts:80-120).
THEOREM PoolChargeIsExact == PoolSpec => []ChargeIsExact
<1>1. PoolInv => ChargeIsExact
  BY DEF PoolInv, TypeOK, ChargeInv, ChargeIsExact, ChargedSet
<1>. QED
  BY <1>1, PoolInvariant, PTL

\* Every checked-out slot belongs to exactly one unreturned borrow
\* (pool-capacity.ts:92-115).
THEOREM PoolSlotsAreOwned == PoolSpec => []SlotsAreOwned
<1>1. PoolInv => SlotsAreOwned
  BY DEF PoolInv, SlotInv, SlotsAreOwned, ClientsOf
<1>. QED
  BY <1>1, PoolInvariant, PTL

\* The provider's end() starts only with every checkout returned
\* (pool-capacity.ts:142-166).
THEOREM PoolDrainedBeforeEnd == PoolSpec => []DrainedBeforeEnd
<1>1. PoolInv => DrainedBeforeEnd
  <2> SUFFICES ASSUME PoolInv, RawEndStarted PROVE DrainedBeforeEnd
    BY DEF DrainedBeforeEnd
  <2>1. \A b \in Borrows : ~Charged(b)
    BY NoChargeNoBorrow DEF PoolInv, EndInv, ChargeInv
  <2>2. failedReturns = {}
    BY <2>1 DEF PoolInv, TypeOK, ChargeInv, Charged, OwnsSlot
  <2>3. out = {}
    BY <2>1 DEF PoolInv, SlotInv, Charged
  <2>4. closing
    BY DEF PoolInv, EndInv, RawEndStarted
  <2>. QED
    BY <2>1, <2>2, <2>3, <2>4 DEF DrainedBeforeEnd
<1>. QED
  BY <1>1, PoolInvariant, PTL

\* No failed connection waits in the provider for another checkout
\* (pool-capacity.ts:62-70).
THEOREM PoolBrokenNeverIdle == PoolSpec => []BrokenNeverIdle
<1>1. PoolInv => BrokenNeverIdle
  BY DEF PoolInv, BrokenInv, BrokenNeverIdle
<1>. QED
  BY <1>1, PoolInvariant, PTL

-----------------------------------------------------------------------------
\* No step of a sealed pool gives a caller a client, and none unseals it
\* (pool-capacity.ts:81, 117-120).
LEMMA SealedStep ==
  ASSUME TypeOK, closing, [PoolNext]_poolVars
  PROVE  closing' /\ \A x \in Borrows : state'[x] = "held" => state[x] = "held"
<1>1. ASSUME NEW b \in Borrows, NEW s \in BorrowStates \ {"held"}, SetState(b, s)
      PROVE  \A x \in Borrows : state'[x] = "held" => state[x] = "held"
  BY <1>1 DEF TypeOK, SetState
<1>2. ASSUME NEW b \in Borrows, NEW c \in Clients, Checkout(b, c)
      PROVE  closing' /\ \A x \in Borrows : state'[x] = "held" => state[x] = "held"
  BY <1>1, <1>2 DEF Checkout, BorrowStates
<1>3. ASSUME NEW b \in Borrows, CheckoutFails(b) \/ ConnectRefused(b)
      PROVE  closing' /\ \A x \in Borrows : state'[x] = "held" => state[x] = "held"
  BY <1>1, <1>3 DEF CheckoutFails, ConnectRefused, BorrowStates
<1>4. ASSUME NEW b \in Borrows, LateCheckout(b)
      PROVE  closing' /\ \A x \in Borrows : state'[x] = "held" => state[x] = "held"
  BY <1>1, <1>4 DEF LateCheckout, Returns, ReturnThrows, BorrowStates
<1>5. ASSUME NEW b \in Borrows, NEW destroy \in BOOLEAN, Release(b, destroy)
      PROVE  closing' /\ \A x \in Borrows : state'[x] = "held" => state[x] = "held"
  BY <1>1, <1>5 DEF Release, ReleaseOk, ReleaseThrows, Returns, ReturnThrows,
     BorrowStates
<1>6. ASSUME NEW S \in SUBSET failedReturns, EndPass(S)
      PROVE  closing' /\ \A x \in Borrows : state'[x] = "held" => state[x] = "held"
  BY <1>6 DEF EndPass
<1>7. ASSUME NEW b \in Borrows, Fault(b) \/ DuplicateRelease(b)
      PROVE  closing' /\ \A x \in Borrows : state'[x] = "held" => state[x] = "held"
  BY <1>7 DEF Fault, DuplicateRelease, poolVars
<1>8. ASSUME NEW b \in Borrows, Expose(b) \/ Connect(b) PROVE FALSE
  BY <1>8 DEF Expose, Connect
<1>9. CASE End \/ RawEnd \/ UNCHANGED poolVars
  BY <1>9 DEF End, RawEnd, poolVars
<1>. QED
  BY <1>2, <1>3, <1>4, <1>5, <1>6, <1>7, <1>8, <1>9
     DEF PoolNext, PoolInternal, PoolCalls

\* Admission stays sealed in every behaviour of the pool.
THEOREM PoolSealedAdmission == PoolSpec => SealedAdmission
<1>1. TypeOK /\ [PoolNext]_poolVars
        => [closing => /\ closing'
                       /\ \A b \in Borrows : state'[b] = "held" => state[b] = "held"]_poolVars
  BY SealedStep
<1>. QED
  BY <1>1, PoolTypeCorrect, PTL DEF PoolSpec, SealedAdmission

-----------------------------------------------------------------------------
\* A step that changes neither the charged borrows nor the phase is an
\* abstract stutter.
LEMMA AbstractStutter ==
  ASSUME \A x \in Borrows : Charged(x)' <=> Charged(x), Phase' = Phase
  PROVE  UNCHANGED Drained!vars
BY DEF Drained!vars

\* A step that only ends charges is an abstract return, unless the pool is shut.
LEMMA AbstractReturn ==
  ASSUME NEW R \in SUBSET Borrows, Phase # "shut", Phase' = Phase,
         \A x \in R : Charged(x) /\ ~Charged(x)',
         \A x \in Borrows \ R : Charged(x)' <=> Charged(x)
  PROVE  [Drained!Next]_(Drained!vars)
<1>1. CASE R = {}
  BY <1>1, AbstractStutter
<1>2. CASE R # {}
  <2>1. Drained!Return(R)
    BY <1>2 DEF Drained!Return
  <2>. QED
    BY <2>1 DEF Drained!Next
<1>. QED
  BY <1>1, <1>2

\* Every step of the pool is a step of DrainedPool or a stutter.
LEMMA AbstractStep ==
  ASSUME PoolInv, [PoolNext]_poolVars
  PROVE  [Drained!Next]_(Drained!vars)
<1> USE DEF Phase, RawEndStarted, SetState
<1>1. ASSUME NEW b \in Borrows, ConnectRefused(b) PROVE [Drained!Next]_(Drained!vars)
  <2>1. \A x \in Borrows : Charged(x)' <=> Charged(x)
    BY <1>1 DEF ConnectRefused, Charged, OwnsSlot, PoolInv, TypeOK
  <2>. QED
    BY <1>1, <2>1, AbstractStutter DEF ConnectRefused
<1>2. ASSUME NEW b \in Borrows, Connect(b) PROVE [Drained!Next]_(Drained!vars)
  <2>1. ~Charged(b) /\ Charged(b)'
        /\ \A x \in Borrows \ {b} : Charged(x)' <=> Charged(x)
    BY <1>2 DEF Connect, Charged, OwnsSlot, PoolInv, TypeOK
  <2>2. Phase = "open" /\ Phase' = "open"
    BY <1>2 DEF Connect, PoolInv, EndInv
  <2>3. Drained!Lend(b)
    BY <2>1, <2>2 DEF Drained!Lend
  <2>. QED
    BY <2>3 DEF Drained!Next
<1>3. ASSUME NEW b \in Borrows, NEW c \in Clients, Checkout(b, c)
      PROVE  [Drained!Next]_(Drained!vars)
  <2>1. \A x \in Borrows : Charged(x)' <=> Charged(x)
    BY <1>3 DEF Checkout, Charged, OwnsSlot, PoolInv, TypeOK
  <2>. QED
    BY <1>3, <2>1, AbstractStutter DEF Checkout
<1>4. ASSUME NEW b \in Borrows, Expose(b) \/ Fault(b)
      PROVE  [Drained!Next]_(Drained!vars)
  <2>1. \A x \in Borrows : Charged(x)' <=> Charged(x)
    BY <1>4 DEF Expose, Fault, Charged, OwnsSlot, PoolInv, TypeOK
  <2>. QED
    BY <1>4, <2>1, AbstractStutter DEF Expose, Fault
<1>5. ASSUME NEW b \in Borrows, Charged(b), SetState(b, "failed") \/ SetState(b, "returned"),
             Notify, UNCHANGED closing
      PROVE  [Drained!Next]_(Drained!vars)
  <2>1. Charged(b) /\ ~Charged(b)'
        /\ \A x \in Borrows \ {b} : Charged(x)' <=> Charged(x)
    BY <1>5 DEF Charged, OwnsSlot, PoolInv, TypeOK
  <2>2. Phase # "shut" /\ Phase' = Phase
    BY <1>5, NoChargeNoBorrow DEF Notify, PoolInv, EndInv, ChargeInv
  <2>. QED
    BY <2>1, <2>2, AbstractReturn
<1>6. ASSUME NEW b \in Borrows, OwnsSlot(b), ReturnThrows(b),
             NEW s \in {"held", "late"}, SetState(b, s)
      PROVE  [Drained!Next]_(Drained!vars)
  <2>1. \A x \in Borrows : Charged(x)' <=> Charged(x)
    BY <1>6 DEF Charged, OwnsSlot, PoolInv, TypeOK
  <2>. QED
    BY <1>6, <2>1, AbstractStutter DEF ReturnThrows, Notify
<1>7. ASSUME NEW b \in Borrows, CheckoutFails(b) PROVE [Drained!Next]_(Drained!vars)
  BY <1>5, <1>7 DEF CheckoutFails, Charged
<1>8. ASSUME NEW b \in Borrows, LateCheckout(b) PROVE [Drained!Next]_(Drained!vars)
  BY <1>5, <1>6, <1>8 DEF LateCheckout, Returns, Charged, OwnsSlot
<1>9. ASSUME NEW b \in Borrows, NEW destroy \in BOOLEAN, Release(b, destroy)
      PROVE  [Drained!Next]_(Drained!vars)
  <2>1. OwnsSlot(b) /\ Charged(b) /\ state[b] = "held"
    BY <1>9 DEF Release, ReleaseOk, ReleaseThrows, Charged, OwnsSlot
  <2>2. CASE ReleaseOk(b, destroy)
    BY <1>5, <2>1, <2>2 DEF ReleaseOk, Returns
  <2>3. CASE ReleaseThrows(b)
    <3>1. SetState(b, "held")
      BY <2>1, <2>3 DEF ReleaseThrows, PoolInv, TypeOK
    <3>. QED
      BY <1>6, <2>1, <2>3, <3>1 DEF ReleaseThrows
  <2>. QED
    BY <1>9, <2>2, <2>3 DEF Release
<1>10. ASSUME NEW S \in SUBSET failedReturns, EndPass(S)
       PROVE  [Drained!Next]_(Drained!vars)
  <2> DEFINE R == failedReturns \ S
  <2>1. /\ R \in SUBSET Borrows
        /\ \A x \in R : Charged(x) /\ ~Charged(x)'
        /\ \A x \in Borrows \ R : Charged(x)' <=> Charged(x)
    BY <1>10 DEF EndPass, PoolInv, TypeOK, ChargeInv, Charged, OwnsSlot
  <2>2. closing /\ closing' /\ endTask = "scheduled"
    BY <1>10 DEF EndPass, PoolInv, EndInv
  <2>3. PoolInv'
    BY <1>10, EndPassInv
  <2>4. CASE endTask' = "ending"
    <3>1. \A x \in Borrows : ~Charged(x)'
      <4>1. Cardinality(ChargedSet)' = 0
        BY <2>3, <2>4 DEF PoolInv, EndInv, ChargeInv
      <4>. QED
        BY <4>1, DischargedAll
    <3>2. Drained!Shut
      BY <2>2, <2>4, <3>1 DEF Drained!Shut
    <3>. QED
      BY <3>2 DEF Drained!Next
  <2>5. CASE endTask' # "ending"
    <3>1. Phase = "sealed" /\ Phase' = "sealed"
      BY <1>10, <2>2, <2>5 DEF EndPass, AfterPass
    <3> HIDE DEF R
    <3>. QED
      BY <2>1, <3>1, AbstractReturn
  <2>. QED
    BY <2>4, <2>5
<1>11. CASE End
  <2>1. \A x \in Borrows : Charged(x)' <=> Charged(x)
    BY <1>11 DEF End, Charged, OwnsSlot
  <2>2. CASE closing
    BY <1>11, <2>1, <2>2, AbstractStutter DEF End
  <2>3. CASE ~closing
    <3>1. Drained!Seal
      BY <1>11, <2>1, <2>3 DEF End, Drained!Seal, PoolInv, TypeOK
    <3>. QED
      BY <3>1 DEF Drained!Next
  <2>. QED
    BY <2>2, <2>3
<1>12. ASSUME RawEnd \/ UNCHANGED poolVars PROVE [Drained!Next]_(Drained!vars)
  <2>1. \A x \in Borrows : Charged(x)' <=> Charged(x)
    BY <1>12 DEF RawEnd, poolVars, Charged, OwnsSlot
  <2>. QED
    BY <1>12, <2>1, AbstractStutter DEF RawEnd, poolVars
<1>. QED
  BY <1>1, <1>2, <1>3, <1>4, <1>7, <1>8, <1>9, <1>10, <1>11, <1>12
     DEF PoolNext, PoolInternal, PoolCalls, DuplicateRelease

\* The pool implements the abstract drained pool: nothing is lent once it is
\* sealed and it shuts only when nothing is lent (pool-capacity.ts:80-175).
THEOREM PoolImplementsDrainedPool == PoolSpec => ImplementsDrainedPool
<1>1. PoolInit => Drained!Init
  BY DEF PoolInit, Drained!Init, Charged, OwnsSlot, Phase, RawEndStarted
<1>2. PoolInv /\ [PoolNext]_poolVars => [Drained!Next]_(Drained!vars)
  BY AbstractStep
<1>. QED
  BY <1>1, <1>2, PoolInvariant, PTL DEF PoolSpec, ImplementsDrainedPool, Drained!Spec
=============================================================================
