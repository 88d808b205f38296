------------------------- MODULE SubsequencesProofs -------------------------
(***************************************************************************)
(* What the subsequence of a sequence in a set contains, for every         *)
(* sequence and every set.  The facts are by induction on the prefixes of  *)
(* the sequence, carried out on the least prefix that would be a           *)
(* counterexample: the induction theorems of the library take an operator  *)
(* as parameter, the least element of a set of naturals does not.          *)
(***************************************************************************)
EXTENDS Subsequences, SequencesExt, WellFoundedInduction, TLAPS

LEMMA LeastNatural ==
  ASSUME NEW T, T \subseteq Nat, T # {}
  PROVE  \E x \in T : \A y \in T : x <= y
<1> DEFINE R == OpToRel(<, Nat)
<1>1. IsWellFoundedOn(R, Nat)
  BY NatLessThanWellFounded
<1>2. \A a, b \in Nat : <<a, b>> \in R <=> a < b
  BY DEF OpToRel
<1> HIDE DEF R
<1>3. PICK x \in T : \A y \in T : ~(<<y, x>> \in R)
  BY <1>1, WFMin
<1>4. ASSUME NEW y \in T PROVE x <= y
  <2>1. x \in Nat /\ y \in Nat
    OBVIOUS
  <2>2. ~(y < x)
    BY <1>2, <1>3, <2>1
  <2> QED BY <2>1, <2>2
<1> QED BY <1>4

\* A set of naturals that has 0 and is closed under successor up to n has 0..n.
LEMMA InitialSegment ==
  ASSUME NEW n \in Nat, NEW P, 0 \in P, \A i \in 0..n : i \in P /\ i < n => i+1 \in P
  PROVE  0..n \subseteq P
<1> SUFFICES ASSUME (0..n) \ P # {} PROVE FALSE
  OBVIOUS
<1> DEFINE T == (0..n) \ P
<1>0. T \subseteq Nat /\ T # {}
  OBVIOUS
<1> HIDE DEF T
<1>1. PICK x \in T : \A y \in T : x <= y
  BY <1>0, LeastNatural
<1> USE DEF T
<1>2. x # 0 /\ x \in Nat /\ x <= n
  BY <1>1
<1>3. x-1 \in 0..n /\ x-1 < n /\ ~(x <= x-1)
  BY <1>2
<1>4. x-1 \in P
  BY <1>1, <1>3
<1>5. (x-1)+1 = x
  BY <1>2
<1> QED BY <1>1, <1>3, <1>4, <1>5

\* One step of Filtered, and the function it is up to k.
Step(s, S, g, n) == IF s[n] \in S THEN Append(g, s[n]) ELSE g

UpTo(s, S, g, k) == g = [n \in 0..k |-> IF n = 0 THEN <<>> ELSE Step(s, S, g[n-1], n)]

LEMMA FilteredExists ==
  ASSUME NEW A, NEW s \in Seq(A), NEW S
  PROVE  \E g : UpTo(s, S, g, Len(s))
<1> DEFINE P == {k \in 0..Len(s) : \E g : UpTo(s, S, g, k)}
<1>1. 0 \in P
  <2>1. UpTo(s, S, [n \in 0..0 |-> <<>>], 0)
    BY DEF UpTo
  <2> QED BY <2>1
<1>2. ASSUME NEW k \in 0..Len(s), k \in P, k < Len(s)
      PROVE  k+1 \in P
  <2>1. PICK g : UpTo(s, S, g, k)
    BY <1>2
  <2> DEFINE h == [n \in 0..(k+1) |-> IF n <= k THEN g[n] ELSE Step(s, S, g[k], n)]
  <2>2. ASSUME NEW n \in 0..(k+1)
        PROVE  h[n] = IF n = 0 THEN <<>> ELSE Step(s, S, h[n-1], n)
    <3>1. CASE n = 0
      BY <2>1, <3>1 DEF UpTo
    <3>2. CASE n # 0 /\ n <= k
      <4>1. h[n] = g[n] /\ h[n-1] = g[n-1]
        BY <3>2
      <4>2. g[n] = Step(s, S, g[n-1], n)
        BY <2>1, <3>2 DEF UpTo
      <4> QED BY <3>2, <4>1, <4>2
    <3>3. CASE n = k+1
      <4>1. h[n] = Step(s, S, g[k], n) /\ h[n-1] = g[k]
        BY <3>3
      <4> QED BY <3>3, <4>1
    <3> QED BY <3>1, <3>2, <3>3
  <2>3. UpTo(s, S, h, k+1)
    BY <2>2 DEF UpTo
  <2> HIDE DEF h
  <2> QED BY <1>2, <2>3
<1> HIDE DEF P
<1>3. Len(s) \in Nat
  OBVIOUS
<1>4. 0..Len(s) \subseteq P
  BY <1>1, <1>2, <1>3, InitialSegment
<1>5. Len(s) \in P
  BY <1>3, <1>4
<1> QED BY <1>5 DEF P

LEMMA FilteredSteps ==
  ASSUME NEW A, NEW s \in Seq(A), NEW S
  PROVE  /\ Filtered(s, S)[0] = <<>>
         /\ \A n \in 1..Len(s) : Filtered(s, S)[n] = Step(s, S, Filtered(s, S)[n-1], n)
<1>1. Filtered(s, S) = CHOOSE g : UpTo(s, S, g, Len(s))
  BY DEF Filtered, UpTo, Step
<1>2. UpTo(s, S, Filtered(s, S), Len(s))
  BY <1>1, FilteredExists
<1> DEFINE g == Filtered(s, S)
<1> HIDE DEF g
<1>3. g = [n \in 0..Len(s) |-> IF n = 0 THEN <<>> ELSE Step(s, S, g[n-1], n)]
  BY <1>2 DEF UpTo, g
<1>6. Len(s) \in Nat
  OBVIOUS
<1>4. g[0] = <<>>
  BY <1>3, <1>6
<1>5. ASSUME NEW n \in 1..Len(s) PROVE g[n] = Step(s, S, g[n-1], n)
  BY <1>3, <1>6
<1> QED BY <1>4, <1>5 DEF g

-----------------------------------------------------------------------------
\* The members of a sequence, and whether it has one twice, as it grows and shrinks.
LEMMA AppendMembers ==
  ASSUME NEW A, NEW s \in Seq(A), NEW x \in A
  PROVE  /\ Append(s, x) \in Seq(A) /\ ToSet(Append(s, x)) = ToSet(s) \cup {x}
         /\ (IsInjective(s) /\ x \notin ToSet(s)) => IsInjective(Append(s, x))
<1> DEFINE t == Append(s, x)
<1>1. /\ t \in Seq(A) /\ Len(t) = Len(s) + 1 /\ Len(s) \in Nat /\ t[Len(s)+1] = x
      /\ \A i \in 1..Len(s) : t[i] = s[i]
  OBVIOUS
<1>2. DOMAIN t = 1..(Len(s)+1) /\ DOMAIN s = 1..Len(s)
  BY <1>1
<1> HIDE DEF t
<1>3. ToSet(t) = ToSet(s) \cup {x}
  <2>1. ASSUME NEW e \in ToSet(t) PROVE e \in ToSet(s) \cup {x}
    <3>1. PICK i \in 1..(Len(s)+1) : e = t[i]
      BY <1>2, <2>1 DEF ToSet
    <3>2. i \in 1..Len(s) \/ i = Len(s)+1
      BY <1>1, <3>1
    <3> QED BY <1>1, <1>2, <3>1, <3>2 DEF ToSet
  <2>2. ASSUME NEW e \in ToSet(s) PROVE e \in ToSet(t)
    <3>1. PICK i \in 1..Len(s) : e = s[i]
      BY <1>2, <2>2 DEF ToSet
    <3>2. i \in DOMAIN t /\ e = t[i]
      BY <1>1, <1>2, <3>1
    <3> QED BY <3>2 DEF ToSet
  <2>3. x \in ToSet(t)
    <3>1. Len(s)+1 \in DOMAIN t
      BY <1>1, <1>2
    <3> QED BY <1>1, <3>1 DEF ToSet
  <2> QED BY <2>1, <2>2, <2>3
<1>4. ASSUME IsInjective(s), x \notin ToSet(s) PROVE IsInjective(t)
  <2>1. \A i \in 1..Len(s) : s[i] # x
    BY <1>2, <1>4 DEF ToSet
  <2>2. \A i, j \in 1..Len(s) : s[i] = s[j] => i = j
    BY <1>2, <1>4 DEF IsInjective
  <2>3. ASSUME NEW i \in 1..(Len(s)+1), NEW j \in 1..(Len(s)+1), t[i] = t[j] PROVE i = j
    BY <1>1, <2>1, <2>2, <2>3
  <2> QED BY <1>2, <2>3 DEF IsInjective
<1> QED BY <1>1, <1>3, <1>4 DEF t

LEMMA TailMembers ==
  ASSUME NEW A, NEW s \in Seq(A), s # <<>>
  PROVE  /\ Head(s) \in A /\ Tail(s) \in Seq(A) /\ Head(s) \in ToSet(s)
         /\ ToSet(s) = {Head(s)} \cup ToSet(Tail(s))
         /\ IsInjective(s) => (IsInjective(Tail(s)) /\ Head(s) \notin ToSet(Tail(s)))
<1> DEFINE t == Tail(s)
<1>1. /\ t \in Seq(A) /\ Len(s) \in Nat /\ Len(s) >= 1 /\ Len(t) = Len(s) - 1
      /\ Head(s) = s[1] /\ Head(s) \in A
      /\ \A i \in 1..Len(t) : t[i] = s[i+1]
  OBVIOUS
<1>2. DOMAIN t = 1..(Len(s)-1) /\ DOMAIN s = 1..Len(s)
  BY <1>1
<1> HIDE DEF t
<1>3. Head(s) \in ToSet(s)
  <2>1. 1 \in DOMAIN s
    BY <1>1, <1>2
  <2> QED BY <1>1, <2>1 DEF ToSet
<1>4. ToSet(s) = {Head(s)} \cup ToSet(t)
  <2>1. ASSUME NEW e \in ToSet(s), e # Head(s) PROVE e \in ToSet(t)
    <3>1. PICK i \in 1..Len(s) : e = s[i]
      BY <1>2, <2>1 DEF ToSet
    <3>2. i-1 \in DOMAIN t /\ t[i-1] = e
      BY <1>1, <1>2, <2>1, <3>1
    <3> QED BY <3>2 DEF ToSet
  <2>2. ASSUME NEW e \in ToSet(t) PROVE e \in ToSet(s)
    <3>1. PICK i \in 1..(Len(s)-1) : e = t[i]
      BY <1>2, <2>2 DEF ToSet
    <3>2. i+1 \in DOMAIN s /\ s[i+1] = e
      BY <1>1, <1>2, <3>1
    <3> QED BY <3>2 DEF ToSet
  <2> QED BY <1>3, <2>1, <2>2
<1>5. ASSUME IsInjective(s) PROVE IsInjective(t) /\ Head(s) \notin ToSet(t)
  <2>1. \A i, j \in 1..Len(s) : s[i] = s[j] => i = j
    BY <1>2, <1>5 DEF IsInjective
  <2>2. ASSUME NEW i \in DOMAIN t, NEW j \in DOMAIN t, t[i] = t[j] PROVE i = j
    <3>1. i+1 \in 1..Len(s) /\ j+1 \in 1..Len(s) /\ s[i+1] = s[j+1]
      BY <1>1, <1>2, <2>2
    <3>2. i+1 = j+1
      BY <2>1, <3>1
    <3> QED BY <1>1, <1>2, <3>2
  <2>3. ASSUME NEW i \in DOMAIN t, t[i] = Head(s) PROVE FALSE
    <3>1. i+1 \in 1..Len(s) /\ s[i+1] = s[1] /\ 1 \in 1..Len(s)
      BY <1>1, <1>2, <2>3
    <3>2. i+1 = 1
      BY <2>1, <3>1
    <3> QED BY <1>1, <1>2, <3>2
  <2> QED BY <2>2, <2>3 DEF IsInjective, ToSet
<1> QED BY <1>1, <1>3, <1>4, <1>5 DEF t

LEMMA ConcatMembers ==
  ASSUME NEW A, NEW s \in Seq(A), NEW t \in Seq(A)
  PROVE  /\ s \o t \in Seq(A) /\ ToSet(s \o t) = ToSet(s) \cup ToSet(t)
         /\ (IsInjective(s) /\ IsInjective(t) /\ ToSet(s) \cap ToSet(t) = {})
              => IsInjective(s \o t)
<1> DEFINE u == s \o t
<1>1. /\ u \in Seq(A) /\ Len(s) \in Nat /\ Len(t) \in Nat /\ Len(u) = Len(s) + Len(t)
      /\ \A i \in 1..Len(s) : u[i] = s[i]
      /\ \A i \in 1..Len(t) : u[Len(s)+i] = t[i]
  OBVIOUS
<1>2. DOMAIN s = 1..Len(s) /\ DOMAIN t = 1..Len(t) /\ DOMAIN u = 1..(Len(s)+Len(t))
  BY <1>1
<1> HIDE DEF u
<1>3. \A i \in DOMAIN u : \/ i \in DOMAIN s /\ u[i] = s[i]
                          \/ i - Len(s) \in DOMAIN t /\ u[i] = t[i - Len(s)]
  <2> SUFFICES ASSUME NEW i \in DOMAIN u
               PROVE  \/ i \in DOMAIN s /\ u[i] = s[i]
                      \/ i - Len(s) \in DOMAIN t /\ u[i] = t[i - Len(s)]
    OBVIOUS
  <2>1. CASE i <= Len(s)
    BY <1>1, <1>2, <2>1
  <2>2. CASE ~(i <= Len(s))
    <3>1. i - Len(s) \in 1..Len(t) /\ Len(s) + (i - Len(s)) = i
      BY <1>1, <1>2, <2>2
    <3> QED BY <1>1, <1>2, <3>1
  <2> QED BY <2>1, <2>2
<1>4. ToSet(u) = ToSet(s) \cup ToSet(t)
  <2>1. ToSet(u) \subseteq ToSet(s) \cup ToSet(t)
    BY <1>3 DEF ToSet
  <2>2. ASSUME NEW i \in DOMAIN s PROVE s[i] \in ToSet(u)
    <3>1. i \in DOMAIN u /\ u[i] = s[i]
      BY <1>1, <1>2
    <3> QED BY <3>1 DEF ToSet
  <2>3. ASSUME NEW i \in DOMAIN t PROVE t[i] \in ToSet(u)
    <3>1. Len(s)+i \in DOMAIN u /\ u[Len(s)+i] = t[i]
      BY <1>1, <1>2
    <3> QED BY <3>1 DEF ToSet
  <2> QED BY <2>1, <2>2, <2>3 DEF ToSet
<1>5. ASSUME IsInjective(s), IsInjective(t), ToSet(s) \cap ToSet(t) = {}
      PROVE  IsInjective(u)
  <2> SUFFICES ASSUME NEW i \in DOMAIN u, NEW j \in DOMAIN u, u[i] = u[j] PROVE i = j
    BY DEF IsInjective
  <2>1. \A k \in DOMAIN s, l \in DOMAIN t : s[k] # t[l]
    BY <1>5 DEF ToSet
  <2>2. CASE i \in DOMAIN s /\ u[i] = s[i]
    BY <1>3, <1>5, <2>1, <2>2 DEF IsInjective
  <2>3. CASE i - Len(s) \in DOMAIN t /\ u[i] = t[i - Len(s)]
    <3>1. j - Len(s) \in DOMAIN t /\ u[j] = t[j - Len(s)]
      BY <1>3, <2>1, <2>3
    <3>2. i - Len(s) = j - Len(s)
      BY <1>5, <2>3, <3>1 DEF IsInjective
    <3> QED BY <1>1, <1>2, <3>2
  <2> QED BY <1>3, <2>2, <2>3
<1> QED BY <1>1, <1>4, <1>5 DEF u

\* The elements of a sequence that grew at its end, or lost its head.
LEMMA AppendAt ==
  ASSUME NEW A, NEW s \in Seq(A), NEW x \in A, NEW t, t = Append(s, x)
  PROVE  /\ Len(s) \in Nat /\ Len(t) = Len(s) + 1 /\ t[Len(s)+1] = x
         /\ \A i \in 1..Len(s) : t[i] = s[i]
OBVIOUS

LEMMA TailAt ==
  ASSUME NEW A, NEW s \in Seq(A), s # <<>>, NEW t, t = Tail(s)
  PROVE  /\ Len(s) \in Nat /\ Len(s) >= 1 /\ Len(t) = Len(s) - 1 /\ s[1] = Head(s)
         /\ \A i \in 1..Len(t) : t[i] = s[i+1]
OBVIOUS

LEMMA PairAt ==
  ASSUME NEW A, NEW s \in Seq(A), NEW a \in A, NEW b \in A, NEW t, t = s \o <<a, b>>
  PROVE  /\ Len(s) \in Nat /\ Len(t) = Len(s) + 2 /\ t[Len(s)+1] = a /\ t[Len(s)+2] = b
         /\ \A i \in 1..Len(s) : t[i] = s[i]
<1>1. <<a, b>> \in Seq(A) /\ Len(<<a, b>>) = 2 /\ <<a, b>>[1] = a /\ <<a, b>>[2] = b
  OBVIOUS
<1>2. Len(s) \in Nat /\ 1 \in 1..2 /\ 2 \in 1..2
  OBVIOUS
<1> DEFINE u == <<a, b>>
<1> HIDE DEF u
<1>3. /\ u \in Seq(A) /\ Len(u) = 2 /\ t = s \o u /\ u[1] = a /\ u[2] = b
  BY <1>1 DEF u
<1>4. /\ Len(t) = Len(s) + 2 /\ \A i \in 1..Len(s) : t[i] = s[i]
      /\ \A i \in 1..2 : t[Len(s)+i] = u[i]
  BY <1>3
<1> QED BY <1>2, <1>3, <1>4

\* The type of a sequence that grows at its end, shrinks at its head or is joined.
LEMMA GrowsInSeq ==
  ASSUME NEW A, NEW s \in Seq(A), NEW x \in A, NEW t, t \in {s, Append(s, x)}
  PROVE  t \in Seq(A)
<1>1. Append(s, x) \in Seq(A)
  OBVIOUS
<1> QED BY <1>1

LEMMA ShrinksInSeq ==
  ASSUME NEW A, NEW s \in Seq(A), s # <<>>, NEW t, t \in {s, Tail(s)}
  PROVE  t \in Seq(A)
<1>1. Tail(s) \in Seq(A)
  OBVIOUS
<1> QED BY <1>1

LEMMA JoinsInSeq ==
  ASSUME NEW A, NEW s \in Seq(A), NEW t \in Seq(A)
  PROVE  s \o t \in Seq(A)
OBVIOUS

LEMMA PairInSeq ==
  ASSUME NEW A, NEW a \in A, NEW b \in A
  PROVE  <<a, b>> \in Seq(A)
OBVIOUS

-----------------------------------------------------------------------------
(***************************************************************************)
(* Among(s, S) has exactly the elements of s that are in S, and none twice *)
(* unless s has.                                                           *)
(***************************************************************************)
THEOREM AmongMembers ==
  ASSUME NEW A, NEW s \in Seq(A), NEW S
  PROVE  /\ Among(s, S) \in Seq(A)
         /\ ToSet(Among(s, S)) = ToSet(s) \cap S
         /\ IsInjective(s) => IsInjective(Among(s, S))
<1> DEFINE F == Filtered(s, S)
           Seen(k) == {s[i] : i \in 1..k}
           P == {k \in 0..Len(s) : /\ F[k] \in Seq(A) /\ ToSet(F[k]) = Seen(k) \cap S
                                   /\ IsInjective(s) => IsInjective(F[k])}
<1>0. Len(s) \in Nat /\ DOMAIN s = 1..Len(s) /\ \A i \in 1..Len(s) : s[i] \in A
  OBVIOUS
<1>1. F[0] = <<>> /\ \A n \in 1..Len(s) : F[n] = Step(s, S, F[n-1], n)
  BY FilteredSteps
<1> HIDE DEF F
<1>2. 0 \in P
  <2>1. Seen(0) = {} /\ ToSet(F[0]) = {} /\ IsInjective(F[0]) /\ F[0] \in Seq(A)
    BY <1>1 DEF ToSet, IsInjective
  <2> QED BY <1>0, <2>1
<1>3. ASSUME NEW k \in 0..Len(s), k \in P, k < Len(s)
      PROVE  k+1 \in P
  <2>1. k+1 \in 1..Len(s) /\ (k+1)-1 = k /\ s[k+1] \in A
    BY <1>0, <1>3
  <2>2. Seen(k+1) = Seen(k) \cup {s[k+1]}
    <3>1. 1..(k+1) = (1..k) \cup {k+1}
      BY <1>0
    <3> QED BY <3>1
  <2>3. F[k+1] = Step(s, S, F[k], k+1)
    BY <1>1, <2>1
  <2>4. IsInjective(s) => s[k+1] \notin Seen(k)
    BY <1>0, <2>1 DEF IsInjective
  <2>5. CASE s[k+1] \in S
    <3>1. F[k+1] = Append(F[k], s[k+1])
      BY <2>3, <2>5 DEF Step
    <3>2. F[k] \in Seq(A) /\ ToSet(F[k]) = Seen(k) \cap S /\ (IsInjective(s) => IsInjective(F[k]))
      BY <1>3
    <3> HIDE DEF Seen
    <3>3. /\ F[k+1] \in Seq(A) /\ ToSet(F[k+1]) = ToSet(F[k]) \cup {s[k+1]}
          /\ IsInjective(F[k]) /\ s[k+1] \notin ToSet(F[k]) => IsInjective(F[k+1])
      BY <2>1, <3>1, <3>2, AppendMembers
    <3> QED BY <1>0, <2>1, <2>2, <2>4, <2>5, <3>2, <3>3
  <2>6. CASE s[k+1] \notin S
    <3>1. F[k+1] = F[k]
      BY <2>3, <2>6 DEF Step
    <3> HIDE DEF Seen
    <3> QED BY <1>0, <1>3, <2>1, <2>2, <2>6, <3>1
  <2> QED BY <2>5, <2>6
<1> HIDE DEF P
<1>4. 0..Len(s) \subseteq P
  BY <1>0, <1>2, <1>3, InitialSegment
<1>5. Len(s) \in P
  BY <1>0, <1>4
<1>6. Seen(Len(s)) = ToSet(s)
  BY <1>0 DEF ToSet
<1> QED BY <1>5, <1>6 DEF P, F, Among

-----------------------------------------------------------------------------
(***************************************************************************)
(* The order of the members, as the sequence grows and is filtered.        *)
(***************************************************************************)
LEMMA PrecedesIn ==
  ASSUME NEW A, NEW s \in Seq(A), NEW a, NEW b, Precedes(s, a, b)
  PROVE  a \in ToSet(s) /\ b \in ToSet(s)
<1>1. DOMAIN s = 1..Len(s)
  OBVIOUS
<1> QED BY <1>1 DEF Precedes, ToSet

LEMMA PrecedesTotal ==
  ASSUME NEW A, NEW s \in Seq(A), NEW a \in ToSet(s), NEW b \in ToSet(s), a # b
  PROVE  Precedes(s, a, b) \/ Precedes(s, b, a)
<1>1. DOMAIN s = 1..Len(s) /\ Len(s) \in Nat
  OBVIOUS
<1>2. PICK i \in 1..Len(s) : s[i] = a
  BY <1>1 DEF ToSet
<1>3. PICK j \in 1..Len(s) : s[j] = b
  BY <1>1 DEF ToSet
<1>4. i < j \/ j < i
  BY <1>1, <1>2, <1>3
<1> QED BY <1>2, <1>3, <1>4 DEF Precedes

LEMMA PrecedesIrreflexive ==
  ASSUME NEW A, NEW s \in Seq(A), IsInjective(s), NEW a
  PROVE  ~Precedes(s, a, a)
<1>1. DOMAIN s = 1..Len(s) /\ Len(s) \in Nat
  OBVIOUS
<1>2. ASSUME NEW i \in 1..Len(s), NEW j \in 1..Len(s), s[i] = s[j] PROVE ~(i < j)
  <2>1. i = j
    BY <1>1, <1>2 DEF IsInjective
  <2> QED BY <2>1
<1> QED BY <1>2 DEF Precedes

LEMMA PrecedesAppend ==
  ASSUME NEW A, NEW s \in Seq(A), NEW x \in A, NEW a, NEW b
  PROVE  /\ Precedes(Append(s, x), a, b) => Precedes(s, a, b) \/ (a \in ToSet(s) /\ b = x)
         /\ Precedes(s, a, b) => Precedes(Append(s, x), a, b)
<1> DEFINE t == Append(s, x)
<1>1. /\ Len(s) \in Nat /\ Len(t) = Len(s) + 1 /\ t[Len(s)+1] = x
      /\ \A i \in 1..Len(s) : t[i] = s[i]
  BY AppendAt
<1>2. DOMAIN s = 1..Len(s)
  OBVIOUS
<1> HIDE DEF t
<1>3. ASSUME Precedes(t, a, b) PROVE Precedes(s, a, b) \/ (a \in ToSet(s) /\ b = x)
  <2>1. PICK i, j \in 1..Len(t) : i < j /\ t[i] = a /\ t[j] = b
    BY <1>3 DEF Precedes
  <2>2. i \in 1..Len(s) /\ s[i] = a
    BY <1>1, <2>1
  <2>3. a \in ToSet(s)
    BY <1>2, <2>2 DEF ToSet
  <2>4. j = Len(s)+1 \/ j \in 1..Len(s)
    BY <1>1, <2>1
  <2>5. CASE j = Len(s)+1
    BY <1>1, <2>1, <2>3, <2>5
  <2>6. CASE j \in 1..Len(s)
    <3>1. s[j] = b
      BY <1>1, <2>1, <2>6
    <3> QED BY <2>1, <2>2, <2>6, <3>1 DEF Precedes
  <2> QED BY <2>4, <2>5, <2>6
<1>4. ASSUME Precedes(s, a, b) PROVE Precedes(t, a, b)
  <2>1. PICK i, j \in 1..Len(s) : i < j /\ s[i] = a /\ s[j] = b
    BY <1>4 DEF Precedes
  <2>2. i \in 1..Len(t) /\ j \in 1..Len(t) /\ t[i] = a /\ t[j] = b
    BY <1>1, <2>1
  <2> QED BY <2>1, <2>2 DEF Precedes
<1> QED BY <1>3, <1>4 DEF t

LEMMA PrecedesConcat ==
  ASSUME NEW A, NEW s \in Seq(A), NEW t \in Seq(A), NEW a, NEW b, Precedes(s \o t, a, b)
  PROVE  b \in ToSet(t) \/ Precedes(s, a, b)
<1> DEFINE u == s \o t
<1>1. /\ Len(s) \in Nat /\ Len(t) \in Nat /\ Len(u) = Len(s) + Len(t)
      /\ \A i \in 1..Len(s) : u[i] = s[i]
      /\ \A i \in 1..Len(u) : i > Len(s) => u[i] = t[i - Len(s)]
  OBVIOUS
<1>2. DOMAIN t = 1..Len(t)
  OBVIOUS
<1>3. Precedes(u, a, b)
  OBVIOUS
<1> HIDE DEF u
<1>4. PICK i, j \in 1..Len(u) : i < j /\ u[i] = a /\ u[j] = b
  BY <1>3 DEF Precedes
<1>5. CASE j > Len(s)
  <2>1. b = t[j - Len(s)] /\ j - Len(s) \in 1..Len(t)
    BY <1>1, <1>4, <1>5
  <2> QED BY <1>2, <2>1 DEF ToSet
<1>6. CASE ~(j > Len(s))
  <2>1. i \in 1..Len(s) /\ j \in 1..Len(s)
    BY <1>1, <1>4, <1>6
  <2>2. s[i] = a /\ s[j] = b
    BY <1>1, <1>4, <2>1
  <2> QED BY <1>4, <2>1, <2>2 DEF Precedes
<1> QED BY <1>5, <1>6

LEMMA PrecedesAmong ==
  ASSUME NEW A, NEW s \in Seq(A), NEW S, NEW a, NEW b, Precedes(Among(s, S), a, b)
  PROVE  Precedes(s, a, b)
<1> DEFINE F == Filtered(s, S)
           Before(k) == \E i, j \in 1..k : i < j /\ s[i] = a /\ s[j] = b
           P == {k \in 0..Len(s) : /\ F[k] \in Seq(A)
                                   /\ a \in ToSet(F[k]) => \E i \in 1..k : s[i] = a
                                   /\ Precedes(F[k], a, b) => Before(k)}
<1>0. Len(s) \in Nat /\ \A i \in 1..Len(s) : s[i] \in A
  OBVIOUS
<1>1. F[0] = <<>> /\ \A n \in 1..Len(s) : F[n] = Step(s, S, F[n-1], n)
  BY FilteredSteps
<1> HIDE DEF F
<1>2. 0 \in P
  <2>1. F[0] \in Seq(A) /\ ToSet(F[0]) = {} /\ ~Precedes(F[0], a, b)
    BY <1>1 DEF ToSet, Precedes
  <2> QED BY <1>0, <2>1
<1>3. ASSUME NEW k \in 0..Len(s), k \in P, k < Len(s)
      PROVE  k+1 \in P
  <2>1. k+1 \in 1..Len(s) /\ (k+1)-1 = k /\ s[k+1] \in A /\ k+1 \in 0..Len(s)
    BY <1>0, <1>3
  <2>2. F[k+1] = Step(s, S, F[k], k+1)
    BY <1>1, <2>1
  <2>3. /\ F[k] \in Seq(A) /\ (a \in ToSet(F[k]) => \E i \in 1..k : s[i] = a)
        /\ Precedes(F[k], a, b) => Before(k)
    BY <1>3
  <2>4. Before(k) => Before(k+1)
    BY <1>0
  <2>5. CASE s[k+1] \in S
    <3>1. F[k+1] = Append(F[k], s[k+1])
      BY <2>2, <2>5 DEF Step
    <3>2. F[k+1] \in Seq(A) /\ ToSet(F[k+1]) = ToSet(F[k]) \cup {s[k+1]}
      BY <2>1, <2>3, <3>1, AppendMembers
    <3>3. Precedes(F[k+1], a, b) => Precedes(F[k], a, b) \/ (a \in ToSet(F[k]) /\ b = s[k+1])
      BY <2>1, <2>3, <3>1, PrecedesAppend
    <3>4. a \in ToSet(F[k+1]) => \E i \in 1..(k+1) : s[i] = a
      BY <1>0, <2>1, <2>3, <3>2
    <3>5. ASSUME a \in ToSet(F[k]), b = s[k+1] PROVE Before(k+1)
      <4>1. PICK i \in 1..k : s[i] = a
        BY <2>3, <3>5
      <4>2. i \in 1..(k+1) /\ k+1 \in 1..(k+1) /\ i < k+1
        BY <1>0
      <4> QED BY <3>5, <4>1, <4>2
    <3> HIDE DEF Before
    <3> QED BY <2>1, <2>3, <2>4, <3>2, <3>3, <3>4, <3>5
  <2>6. CASE s[k+1] \notin S
    <3>1. F[k+1] = F[k]
      BY <2>2, <2>6 DEF Step
    <3>2. a \in ToSet(F[k+1]) => \E i \in 1..(k+1) : s[i] = a
      BY <1>0, <2>3, <3>1
    <3> HIDE DEF Before
    <3> QED BY <2>1, <2>3, <2>4, <3>1, <3>2
  <2> QED BY <2>5, <2>6
<1> HIDE DEF P
<1>4. 0..Len(s) \subseteq P
  BY <1>0, <1>2, <1>3, InitialSegment
<1>5. Len(s) \in P
  BY <1>0, <1>4
<1>6. Precedes(F[Len(s)], a, b)
  BY DEF F, Among
<1> QED BY <1>5, <1>6 DEF P, Precedes
=============================================================================
