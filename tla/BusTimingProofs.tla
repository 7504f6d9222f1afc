--------------------------- MODULE BusTimingProofs --------------------------
(***************************************************************************)
(* Lemmas about struct timespec and about the times a thread derives from  *)
(* the intervals of its actions, which the proofs about the scheduler, the *)
(* loop and the parser cite.  They hold for every length of the second and *)
(* every list of intervals.                                                *)
(*                                                                         *)
(* The sums and products of BusTiming are folds, which are recursive: that *)
(* they are what one expects is shown by induction over a set of numbers.  *)
(***************************************************************************)
EXTENDS BusTiming, FiniteSetTheorems, WellFoundedInduction, TLAPS

(* A second has at least one nanosecond.                                   *)
LEMMA NSECPositive == NSEC \in Nat \ {0}
  BY UnitAssumption, SMT DEF NSEC

(* timespec_add returns a normalised value: its own asserts hold of its    *)
(* result when they hold of its arguments.                                 *)
LEMMA AddType == \A a, b \in TimeVal : timespec_add(a, b) \in TimeVal
  BY NSECPositive, SMT DEF TimeVal, timespec_add

(* Before is a strict total order on normalised values.                    *)
LEMMA BeforeIrreflexive == \A a \in TimeVal : ~Before(a, a)
  BY NSECPositive, SMT DEF TimeVal, Before

(* The comparison of insertEventByDueDate is transitive.                   *)
LEMMA BeforeTransitive ==
    \A a, b, c \in TimeVal : Before(a, b) /\ Before(b, c) => Before(a, c)
  BY NSECPositive, SMT DEF TimeVal, Before

(* So is its negation the other way round.                                 *)
LEMMA NotAfterTransitive ==
    \A a, b, c \in TimeVal :
        NotAfter(a, b) /\ NotAfter(b, c) => NotAfter(a, c)
  BY NSECPositive, SMT DEF TimeVal, NotAfter, Before

(* Any two different due dates are ordered.                                *)
LEMMA BeforeTotal ==
    \A a, b \in TimeVal : Before(a, b) \/ a = b \/ Before(b, a)
  BY NSECPositive, SMT DEF TimeVal, Before

(* Adding a positive interval moves a due date strictly into the future:   *)
(* the entry determineNextEvent re-inserts is due later than it was.       *)
LEMMA AddLater ==
    \A a, b \in TimeVal : b # Zero => Before(a, timespec_add(a, b))
  BY NSECPositive, SMT DEF TimeVal, Before, timespec_add, Zero

(* Adding the same interval keeps the order of two due dates.              *)
LEMMA AddMonotone ==
    \A a, b, c \in TimeVal :
        NotAfter(a, b) => NotAfter(timespec_add(a, c), timespec_add(b, c))
  BY NSECPositive, SMT DEF TimeVal, NotAfter, Before, timespec_add

(* A sum of timespec_add is not before its first argument.                 *)
LEMMA AddNotEarlier ==
    \A a, b \in TimeVal : NotAfter(a, timespec_add(a, b))
  BY NSECPositive, SMT DEF TimeVal, NotAfter, Before, timespec_add

(* The sign of timespec_diff's return value decides the order, which is    *)
(* what get_minimal_modbus_action_interval relies on.                      *)
LEMMA DiffSign ==
    \A a, b \in TimeVal : timespec_diff(a, b).sec < 0 <=> Before(a, b)
  BY NSECPositive, SMT DEF TimeVal, Before, timespec_diff

(* A configured interval is a normalised, positive time value.             *)
LEMMA IntervalType ==
    \A us \in Nat \ {0} : /\ us_to_timespec(us) \in TimeVal
                          /\ us_to_timespec(us) # Zero
  <1> SUFFICES ASSUME NEW us \in Nat \ {0}
               PROVE  /\ us_to_timespec(us) \in TimeVal
                      /\ us_to_timespec(us) # Zero
    OBVIOUS
  <1> DEFINE q == us \div USEC
             r == us % USEC
  <1>1. q \in Nat /\ r \in 0 .. USEC - 1 /\ us = USEC * q + r
    BY UnitAssumption, SMT
  <1> HIDE DEF q, r
  <1>2. r * NSUS \in 0 .. NSEC - 1
    <2>1. r * NSUS <= (USEC - 1) * NSUS
      BY <1>1, UnitAssumption, SMT
    <2>2. (USEC - 1) * NSUS <= NSEC - 1
      BY UnitAssumption, SMT DEF NSEC
    <2>3. QED
      BY <1>1, <2>1, <2>2, UnitAssumption, NSECPositive, SMT
  <1>3. r = 0 => q # 0
    BY <1>1, UnitAssumption, SMT
  <1>4. r # 0 => r * NSUS # 0
    BY <1>1, UnitAssumption, SMT
  <1>5. us_to_timespec(us) = [sec |-> q, nsec |-> r * NSUS]
    BY DEF us_to_timespec, q, r
  <1>6. QED
    BY <1>1, <1>2, <1>3, <1>4, <1>5, SMT DEF TimeVal, Zero
-----------------------------------------------------------------------------
(* A normalised value in nanoseconds.                                      *)
LEMMA NsType == \A t \in TimeVal : Ns(t) \in Nat
  BY NSECPositive, SMT DEF TimeVal, Ns

(* The carry of timespec_add loses nothing.                                *)
LEMMA NsOfSum ==
    \A a, b \in TimeVal : Ns(timespec_add(a, b)) = Ns(a) + Ns(b)
  <1> SUFFICES ASSUME NEW a \in TimeVal, NEW b \in TimeVal
               PROVE  Ns(timespec_add(a, b)) = Ns(a) + Ns(b)
    OBVIOUS
  <1> DEFINE N == NSEC
  <1> HIDE DEF N
  <1>1. /\ a.sec \in Nat /\ a.nsec \in Nat /\ b.sec \in Nat /\ b.nsec \in Nat
        /\ N \in Nat
    BY NSECPositive DEF TimeVal, N
  <1>2. \A x, y \in Nat : (x + y) * N = x * N + y * N
                          /\ (x + y + 1) * N = x * N + y * N + N
    BY <1>1
  <1>3. Ns(a) = a.sec * N + a.nsec /\ Ns(b) = b.sec * N + b.nsec
    BY DEF Ns, N
  <1>4. a.sec * N \in Nat /\ b.sec * N \in Nat
    BY <1>1
  <1>5. CASE a.nsec + b.nsec >= N
    <2>1. timespec_add(a, b) = [sec |-> a.sec + b.sec + 1,
                                nsec |-> a.nsec + b.nsec - N]
      BY <1>1, <1>5, SMT DEF timespec_add, N
    <2>2. Ns(timespec_add(a, b)) =
              (a.sec + b.sec + 1) * N + (a.nsec + b.nsec - N)
      BY <2>1 DEF Ns, N
    <2>3. QED
      BY <1>1, <1>2, <1>3, <1>4, <2>2
  <1>6. CASE ~(a.nsec + b.nsec >= N)
    <2>1. timespec_add(a, b) = [sec |-> a.sec + b.sec,
                                nsec |-> a.nsec + b.nsec]
      BY <1>6 DEF timespec_add, N
    <2>2. Ns(timespec_add(a, b)) = (a.sec + b.sec) * N + (a.nsec + b.nsec)
      BY <2>1 DEF Ns, N
    <2>3. QED
      BY <1>1, <1>2, <1>3, <1>4, <2>2
  <1>7. QED
    BY <1>5, <1>6

(* The comparison field by field is that of the nanoseconds.               *)
LEMMA NsOrder ==
    \A a, b \in TimeVal : NotAfter(a, b) <=> Ns(a) <= Ns(b)
  <1> SUFFICES ASSUME NEW a \in TimeVal, NEW b \in TimeVal
               PROVE  Before(b, a) <=> Ns(b) < Ns(a)
    BY NsType DEF NotAfter
  <1> DEFINE N == NSEC
  <1>1. /\ a.sec \in Nat /\ a.nsec \in 0 .. N - 1
        /\ b.sec \in Nat /\ b.nsec \in 0 .. N - 1
        /\ N \in Nat \ {0}
    BY NSECPositive DEF TimeVal
  <1>2. Ns(a) = a.sec * N + a.nsec /\ Ns(b) = b.sec * N + b.nsec
    BY DEF Ns
  <1> HIDE DEF N
  <1>3. \A x, y \in Nat : x < y => x * N + N <= y * N
    <2> SUFFICES ASSUME NEW x \in Nat, NEW y \in Nat, x < y
                 PROVE  x * N + N <= y * N
      OBVIOUS
    <2>1. (x + 1) * N = x * N + N
      BY <1>1
    <2>2. PICK k \in Nat : y = x + 1 + k
      <3>1. y - (x + 1) \in Nat /\ y = x + 1 + (y - (x + 1))
        OBVIOUS
      <3> QED BY <3>1
    <2>3. y * N = (x + 1) * N + k * N /\ k * N \in Nat /\ x * N \in Nat
      BY <1>1, <2>2
    <2> QED BY <1>1, <2>1, <2>3
  <1>4. a.sec * N \in Nat /\ b.sec * N \in Nat
    BY <1>1
  <1>5. CASE b.sec < a.sec
    BY <1>1, <1>2, <1>3, <1>4, <1>5 DEF Before
  <1>6. CASE a.sec < b.sec
    BY <1>1, <1>2, <1>3, <1>4, <1>6 DEF Before
  <1>7. CASE a.sec = b.sec
    BY <1>1, <1>2, <1>4, <1>7 DEF Before
  <1> QED BY <1>1, <1>5, <1>6, <1>7

(* The conversion of a configured interval loses nothing.                  *)
LEMMA NsOfInterval ==
    \A us \in Nat \ {0} : Ns(us_to_timespec(us)) = NSUS * us
  <1> SUFFICES ASSUME NEW us \in Nat \ {0}
               PROVE  Ns(us_to_timespec(us)) = NSUS * us
    OBVIOUS
  <1> DEFINE q == us \div USEC
             r == us % USEC
  <1>1. q \in Nat /\ r \in Nat /\ us = USEC * q + r
    BY UnitAssumption, SMT
  <1>2. Ns(us_to_timespec(us)) = q * (USEC * NSUS) + r * NSUS
    BY DEF us_to_timespec, Ns, NSEC
  <1> HIDE DEF q, r
  <1>3. q * (USEC * NSUS) = (USEC * q) * NSUS
    BY <1>1, UnitAssumption
  <1>4. USEC * q \in Nat
    BY <1>1, UnitAssumption
  <1>5. ((USEC * q) + r) * NSUS = (USEC * q) * NSUS + r * NSUS
    BY <1>1, <1>4, UnitAssumption
  <1>6. us * NSUS = NSUS * us
    BY UnitAssumption
  <1> QED BY <1>1, <1>2, <1>3, <1>5, <1>6
-----------------------------------------------------------------------------
(* A set of natural numbers that is not empty has a least element.         *)
LEMMA LeastElement ==
    ASSUME NEW T \in SUBSET Nat, T # {}
    PROVE  \E x \in T : \A y \in T : x <= y
  <1> DEFINE R == {ss \in Nat \X Nat : ss[1] < ss[2]}
  <1>1. OpToRel(<, Nat) = R
    BY Zenon DEF OpToRel
  <1>2. IsWellFoundedOn(R, Nat)
    BY <1>1, NatLessThanWellFounded, Zenon
  <1>3. \E x \in T : \A y \in T : ~ (<<y, x>> \in R)
    <2> HIDE DEF R
    <2> QED  BY <1>2, WFMin, Zenon
  <1>4. PICK x \in T : \A y \in T : ~ (<<y, x>> \in R)
    BY <1>3
  <1>5. ASSUME NEW y \in T PROVE x <= y
    <2>1. <<y, x>> \in Nat \X Nat /\ x \in Nat /\ y \in Nat
      BY <1>4, Zenon
    <2>2. ~ (y < x)
      BY <1>4, <2>1, Zenon
    <2>3. QED
      BY <2>1, <2>2, SMT
  <1>6. QED
    BY <1>5

(* A common positive factor can be left out of a comparison.               *)
LEMMA Divided ==
    ASSUME NEW x \in Nat, NEW y \in Nat, NEW k \in Nat \ {0}, k * x <= k * y
    PROVE  x <= y
  <1> SUFFICES ASSUME y < x PROVE FALSE
    OBVIOUS
  <1>1. x - (y + 1) \in Nat /\ x = (y + 1) + (x - (y + 1))
    OBVIOUS
  <1>2. PICK d \in Nat : x = (y + 1) + d
    BY <1>1
  <1>3. k * x = k * (y + 1) + k * d /\ k * d \in Nat
    BY <1>2
  <1>4. k * (y + 1) = k * y + k /\ k * y \in Nat
    OBVIOUS
  <1>5. QED
    BY <1>3, <1>4

(* Induction over the natural numbers, for a set.                          *)
LEMMA NatSetInduction ==
    ASSUME NEW T \in SUBSET Nat, 0 \in T, \A k \in T : k + 1 \in T
    PROVE  T = Nat
  <1> SUFFICES ASSUME Nat \ T # {} PROVE FALSE
    OBVIOUS
  <1>1. PICK x \in Nat \ T : \A y \in Nat \ T : x <= y
    <2> DEFINE R == Nat \ T
    <2>1. R \in SUBSET Nat /\ R # {}
      OBVIOUS
    <2> HIDE DEF R
    <2>2. \E x \in R : \A y \in R : x <= y
      BY <2>1, LeastElement
    <2>3. QED
      BY <2>2 DEF R
  <1>2. x # 0 /\ x - 1 \in Nat
    BY <1>1
  <1>3. x - 1 \in T
    BY <1>1, <1>2
  <1>4. (x - 1) + 1 = x
    BY <1>1
  <1>5. QED
    BY <1>1, <1>3, <1>4

(* The greatest index of a segment, which a fold takes first.              *)
LEMMA MaxOfSegment ==
    ASSUME NEW k \in Nat, NEW t \in SUBSET (1 .. k), k \in t
    PROVE  Max(t) = k
  <1>1. \A y \in t : k >= y
    OBVIOUS
  <1>2. \A x \in t : (\A y \in t : x >= y) => x = k
    OBVIOUS
  <1>3. QED
    BY <1>1, <1>2 DEF Max

(* A fold over a sequence of length n is a function on the sets of its     *)
(* indices.  One exists for every starting value and every step.           *)
IsFold(n, base, step, f) ==
    \A t \in SUBSET (1 .. n) :
        f[t] = IF t = {} THEN base ELSE step[<<Max(t), f[t \ {Max(t)}]>>]

(* A fold over index sets exists: one for k indices gives one for k + 1.   *)
LEMMA FoldExists ==
    ASSUME NEW n \in Nat, NEW V, NEW base \in V,
           NEW step \in [(1 .. n) \X V -> V]
    PROVE  \E f \in [SUBSET (1 .. n) -> V] : IsFold(n, base, step, f)
  <1> DEFINE Fold(k, f) == \A t \in SUBSET (1 .. k) :
                 f[t] = IF t = {} THEN base
                        ELSE step[<<Max(t), f[t \ {Max(t)}]>>]
             T == {k \in Nat : k <= n =>
                      \E f \in [SUBSET (1 .. k) -> V] : Fold(k, f)}
  <1>1. 0 \in T
    <2> DEFINE f == [t \in SUBSET (1 .. 0) |-> base]
    <2>1. 1 .. 0 = {}
      OBVIOUS
    <2>2. \A t \in SUBSET (1 .. 0) : t = {}
      BY <2>1
    <2>3. f \in [SUBSET (1 .. 0) -> V] /\ Fold(0, f)
      BY <2>2
    <2>4. QED
      BY <2>3
  <1>2. ASSUME NEW k \in T PROVE k + 1 \in T
    <2>0. k \in Nat /\ k + 1 \in Nat
      <3>1. k \in Nat
        BY Zenon
      <3> HIDE DEF T
      <3>2. QED
        BY <3>1
    <2> SUFFICES ASSUME k + 1 <= n
                 PROVE  \E f \in [SUBSET (1 .. k + 1) -> V] : Fold(k + 1, f)
      BY <2>0, Zenon
    <2>1. k \in Nat /\ k <= n /\ k + 1 \in 1 .. n
      <3>1. k \in Nat
        BY <2>0
      <3> HIDE DEF T
      <3>2. QED
        BY <3>1
    <2>2. PICK f \in [SUBSET (1 .. k) -> V] : Fold(k, f)
      BY <2>1
    <2> DEFINE g == [t \in SUBSET (1 .. k + 1) |->
                        IF k + 1 \in t
                        THEN step[<<k + 1, f[t \ {k + 1}]>>] ELSE f[t]]
    <2>3. ASSUME NEW t \in SUBSET (1 .. k + 1)
          PROVE  IF k + 1 \in t THEN t \ {k + 1} \in SUBSET (1 .. k)
                                ELSE t \in SUBSET (1 .. k)
      BY <2>1
    <2>4. g \in [SUBSET (1 .. k + 1) -> V]
      BY <2>1, <2>2, <2>3
    <2>5. \A t \in SUBSET (1 .. k) : t \in SUBSET (1 .. k + 1) /\ k + 1 \notin t
      BY <2>1
    <2>6. \A t \in SUBSET (1 .. k) : g[t] = f[t]
      BY <2>5
    <2>7. ASSUME NEW t \in SUBSET (1 .. k + 1)
          PROVE  g[t] = IF t = {} THEN base
                        ELSE step[<<Max(t), g[t \ {Max(t)}]>>]
      <3>1. CASE k + 1 \in t
        <4>1. Max(t) = k + 1
          BY <2>0, <3>1, MaxOfSegment
        <4>2. g[t \ {k + 1}] = f[t \ {k + 1}]
          BY <2>3, <2>6, <3>1
        <4>3. g[t] = step[<<k + 1, f[t \ {k + 1}]>>]
          BY <3>1
        <4> HIDE DEF g
        <4>4. QED
          BY <3>1, <4>1, <4>2, <4>3
      <3>2. CASE k + 1 \notin t
        <4>1. t \in SUBSET (1 .. k) /\ t \ {Max(t)} \in SUBSET (1 .. k)
          BY <2>3, <3>2
        <4>2. g[t] = f[t] /\ g[t \ {Max(t)}] = f[t \ {Max(t)}]
          BY <2>6, <4>1
        <4> HIDE DEF g
        <4>3. QED
          BY <2>2, <4>1, <4>2
      <3>3. QED
        BY <3>1, <3>2
    <2>8. QED
      BY <2>4, <2>7
  <1>3. T = Nat
    <2>1. T \in SUBSET Nat
      OBVIOUS
    <2> HIDE DEF T
    <2>2. QED
      BY <1>1, <1>2, <2>1, NatSetInduction
  <1>4. n \in T /\ n <= n
    <2> HIDE DEF T
    <2>1. QED
      BY <1>3
  <1>5. \E f \in [SUBSET (1 .. n) -> V] : Fold(n, f)
    BY <1>4, Zenon
  <1>6. QED
    BY <1>5 DEF IsFold

(* A non-empty set of indices has its maximum among its elements.          *)
LEMMA MaxOfIndices ==
    ASSUME NEW n \in Nat, NEW t \in SUBSET (1 .. n), t # {}
    PROVE  Max(t) \in t
  <1> DEFINE T == {n - x : x \in t}
  <1>1. T \in SUBSET Nat /\ T # {}
    <2>1. \A x \in t : n - x \in Nat
      OBVIOUS
    <2>2. QED
      BY <2>1, Zenon
  <1>2. PICK m \in T : \A y \in T : m <= y
    <2> HIDE DEF T
    <2>1. QED
      BY <1>1, LeastElement
  <1>3. PICK x \in t : m = n - x
    OBVIOUS
  <1>4. \A y \in t : x >= y
    <2> TAKE y \in t
    <2>1. m <= n - y
      BY <1>2, Zenon
    <2> HIDE DEF T
    <2>2. x \in Nat /\ y \in Nat
      OBVIOUS
    <2>3. QED
      BY <1>3, <2>1, <2>2
  <1>5. QED
    BY <1>4 DEF Max

(* The sum and the product of a list, one element after the other.         *)
LEMMA SumChain ==
    ASSUME NEW s \in Seq(Nat)
    PROVE  \E c : /\ c[0] = 0
                  /\ \A k \in 1 .. Len(s) : c[k] = c[k - 1] + s[k]
                  /\ SumOf(s) = c[Len(s)]
  <1> DEFINE n == Len(s)
             F(f) == [t \in SUBSET DOMAIN s |->
                        IF t = {} THEN 0 ELSE f[t \ {Max(t)}] + s[Max(t)]]
             f == CHOOSE g : g = F(g)
             c == [k \in 0 .. n |-> f[1 .. k]]
  <1>1. n \in Nat /\ DOMAIN s = 1 .. n /\ \A i \in 1 .. n : s[i] \in Nat
    OBVIOUS
  <1>2. SumOf(s) = f[DOMAIN s]
    BY DEF SumOf, FoldLeft, MapThenFoldSet
  <1> HIDE DEF n
  <1>3. \E g : g = F(g)
    <2> DEFINE step == [p \in (1 .. n) \X Nat |-> p[2] + s[p[1]]]
    <2>1. step \in [(1 .. n) \X Nat -> Nat]
      BY <1>1
    <2>2. \A i \in 1 .. n, v \in Nat : step[<<i, v>>] = v + s[i]
      OBVIOUS
    <2> HIDE DEF step
    <2>3. PICK g \in [SUBSET (1 .. n) -> Nat] : IsFold(n, 0, step, g)
      <3>1. n \in Nat /\ 0 \in Nat
        BY <1>1
      <3>2. QED
        BY <2>1, <3>1, FoldExists, Zenon
    <2>4. ASSUME NEW t \in SUBSET (1 .. n)
          PROVE  g[t] = IF t = {} THEN 0 ELSE g[t \ {Max(t)}] + s[Max(t)]
      <3>1. CASE t = {}
        BY <2>3, <3>1 DEF IsFold
      <3>2. CASE t # {}
        <4>1. Max(t) \in 1 .. n /\ t \ {Max(t)} \in SUBSET (1 .. n)
          BY <1>1, <3>2, MaxOfIndices
        <4>2. g[t \ {Max(t)}] \in Nat
          BY <2>3, <4>1
        <4>3. QED
          BY <2>2, <2>3, <3>2, <4>1, <4>2 DEF IsFold
      <3>3. QED
        BY <3>1, <3>2
    <2>5. g = F(g)
      BY <1>1, <2>3, <2>4
    <2>6. QED
      BY <2>5
  <1>4. f = F(f)
    <2> HIDE DEF F
    <2>1. QED
      BY <1>3
  <1> HIDE DEF f
  <1>5. \A t \in SUBSET (1 .. n) :
            f[t] = IF t = {} THEN 0 ELSE f[t \ {Max(t)}] + s[Max(t)]
    BY <1>1, <1>4
  <1>6. c[0] = 0
    <2>1. 1 .. 0 = {} /\ 0 \in 0 .. n
      BY <1>1
    <2>2. QED
      BY <1>5, <2>1
  <1>7. ASSUME NEW k \in 1 .. n PROVE c[k] = c[k - 1] + s[k]
    <2>1. k \in Nat /\ k \in 1 .. k /\ 1 .. k \in SUBSET (1 .. n)
      BY <1>1
    <2>2. Max(1 .. k) = k
      BY <2>1, MaxOfSegment
    <2>3. (1 .. k) \ {k} = 1 .. (k - 1) /\ 1 .. k # {}
      <3>1. \A x : x \in (1 .. k) \ {k} <=> x \in 1 .. (k - 1)
        BY <2>1
      <3>2. QED
        BY <2>1, <3>1, Zenon
    <2>4. k \in 0 .. n /\ k - 1 \in 0 .. n
      BY <1>1
    <2>5. QED
      BY <1>5, <2>1, <2>2, <2>3, <2>4
  <1>8. SumOf(s) = c[n]
    BY <1>1, <1>2
  <1> HIDE DEF c
  <1>9. QED
    BY <1>6, <1>7, <1>8 DEF n

(* ProductOf is the last of the products the loop of                       *)
(* get_minimal_modbus_event_offset goes through.                           *)
LEMMA ProductChain ==
    ASSUME NEW s \in Seq(Int)
    PROVE  \E c : /\ c[0] = 1
                  /\ \A k \in 1 .. Len(s) :
                         c[k] = IF s[k] > 0 THEN c[k - 1] * s[k] ELSE c[k - 1]
                  /\ ProductOf(s) = c[Len(s)]
  <1> DEFINE n == Len(s)
             F(f) == [t \in SUBSET DOMAIN s |->
                        IF t = {} THEN 1
                        ELSE IF s[Max(t)] > 0 THEN f[t \ {Max(t)}] * s[Max(t)]
                        ELSE f[t \ {Max(t)}]]
             f == CHOOSE g : g = F(g)
             c == [k \in 0 .. n |-> f[1 .. k]]
  <1>1. n \in Nat /\ DOMAIN s = 1 .. n /\ \A i \in 1 .. n : s[i] \in Int
    OBVIOUS
  <1>2. ProductOf(s) = f[DOMAIN s]
    BY DEF ProductOf, FoldLeft, MapThenFoldSet
  <1> HIDE DEF n
  <1>3. \E g : g = F(g)
    <2> DEFINE step == [p \in (1 .. n) \X Nat |->
                           IF s[p[1]] > 0 THEN p[2] * s[p[1]] ELSE p[2]]
    <2>1. step \in [(1 .. n) \X Nat -> Nat]
      BY <1>1
    <2>2. \A i \in 1 .. n, v \in Nat :
              step[<<i, v>>] = IF s[i] > 0 THEN v * s[i] ELSE v
      OBVIOUS
    <2> HIDE DEF step
    <2>3. PICK g \in [SUBSET (1 .. n) -> Nat] : IsFold(n, 1, step, g)
      <3>1. n \in Nat /\ 1 \in Nat
        BY <1>1
      <3>2. QED
        BY <2>1, <3>1, FoldExists, Zenon
    <2>4. ASSUME NEW t \in SUBSET (1 .. n)
          PROVE  g[t] = IF t = {} THEN 1
                        ELSE IF s[Max(t)] > 0 THEN g[t \ {Max(t)}] * s[Max(t)]
                        ELSE g[t \ {Max(t)}]
      <3>1. CASE t = {}
        BY <2>3, <3>1 DEF IsFold
      <3>2. CASE t # {}
        <4>1. Max(t) \in 1 .. n /\ t \ {Max(t)} \in SUBSET (1 .. n)
          BY <1>1, <3>2, MaxOfIndices
        <4>2. g[t \ {Max(t)}] \in Nat
          BY <2>3, <4>1
        <4>3. QED
          BY <2>2, <2>3, <3>2, <4>1, <4>2 DEF IsFold
      <3>3. QED
        BY <3>1, <3>2
    <2>5. g = F(g)
      BY <1>1, <2>3, <2>4
    <2>6. QED
      BY <2>5
  <1>4. f = F(f)
    <2> HIDE DEF F
    <2>1. QED
      BY <1>3
  <1> HIDE DEF f
  <1>5. \A t \in SUBSET (1 .. n) :
            f[t] = IF t = {} THEN 1
                   ELSE IF s[Max(t)] > 0 THEN f[t \ {Max(t)}] * s[Max(t)]
                   ELSE f[t \ {Max(t)}]
    BY <1>1, <1>4
  <1>6. c[0] = 1
    <2>1. 1 .. 0 = {} /\ 0 \in 0 .. n
      BY <1>1
    <2>2. QED
      BY <1>5, <2>1
  <1>7. ASSUME NEW k \in 1 .. n
        PROVE  c[k] = IF s[k] > 0 THEN c[k - 1] * s[k] ELSE c[k - 1]
    <2>1. k \in Nat /\ k \in 1 .. k /\ 1 .. k \in SUBSET (1 .. n)
      BY <1>1
    <2>2. Max(1 .. k) = k
      BY <2>1, MaxOfSegment
    <2>3. (1 .. k) \ {k} = 1 .. (k - 1) /\ 1 .. k # {}
      <3>1. \A x : x \in (1 .. k) \ {k} <=> x \in 1 .. (k - 1)
        BY <2>1
      <3>2. QED
        BY <2>1, <3>1, Zenon
    <2>4. k \in 0 .. n /\ k - 1 \in 0 .. n
      BY <1>1
    <2>5. QED
      BY <1>5, <2>1, <2>2, <2>3, <2>4
  <1>8. ProductOf(s) = c[n]
    BY <1>1, <1>2
  <1> HIDE DEF c
  <1>9. QED
    BY <1>6, <1>7, <1>8 DEF n

(* The sum is at least each of its terms.                                  *)
LEMMA SumFacts ==
    ASSUME NEW s \in Seq(Nat)
    PROVE  SumOf(s) \in Nat /\ \A i \in DOMAIN s : s[i] <= SumOf(s)
  <1> DEFINE n == Len(s)
  <1>1. PICK c : /\ c[0] = 0
                 /\ \A k \in 1 .. n : c[k] = c[k - 1] + s[k]
                 /\ SumOf(s) = c[n]
    BY SumChain
  <1>2. n \in Nat /\ DOMAIN s = 1 .. n /\ \A i \in 1 .. n : s[i] \in Nat
    OBVIOUS
  <1> HIDE DEF n
  <1> DEFINE T == {k \in Nat : k <= n =>
                      c[k] \in Nat /\ \A i \in 1 .. k : s[i] <= c[k]}
  <1>3. 0 \in T
    BY <1>1
  <1>4. ASSUME NEW k \in T PROVE k + 1 \in T
    <2>1. k \in Nat /\ (k <= n =>
              c[k] \in Nat /\ \A i \in 1 .. k : s[i] <= c[k])
      BY Zenon
    <2> HIDE DEF T
    <2>2. ASSUME k + 1 <= n
          PROVE  c[k + 1] \in Nat /\ \A i \in 1 .. k + 1 : s[i] <= c[k + 1]
      <3>1. k + 1 \in 1 .. n /\ (k + 1) - 1 = k /\ k <= n
        BY <1>2, <2>1, <2>2
      <3>2. c[k + 1] = c[k] + s[k + 1] /\ s[k + 1] \in Nat
        BY <1>1, <1>2, <3>1
      <3>3. ASSUME NEW i \in 1 .. k + 1 PROVE s[i] <= c[k + 1]
        <4>1. CASE i = k + 1
          BY <2>1, <3>1, <3>2, <4>1
        <4>2. CASE i # k + 1
          <5>1. i \in 1 .. k /\ i \in 1 .. n
            BY <1>2, <2>1, <3>1, <4>2
          <5>2. s[i] <= c[k] /\ s[i] \in Nat
            BY <1>2, <2>1, <3>1, <5>1
          <5>3. QED
            BY <2>1, <3>1, <3>2, <5>2
        <4>3. QED
          BY <4>1, <4>2
      <3>4. QED
        BY <2>1, <3>1, <3>2, <3>3
    <2>3. k + 1 \in Nat
      BY <2>1
    <2>4. QED
      BY <2>2, <2>3 DEF T
  <1>5. n \in T
    <2>1. T \in SUBSET Nat
      OBVIOUS
    <2> HIDE DEF T
    <2>2. QED
      BY <1>2, <1>3, <1>4, <2>1, NatSetInduction
  <1>6. n <= n
    BY <1>2
  <1>7. c[n] \in Nat /\ \A i \in 1 .. n : s[i] <= c[n]
    BY <1>5, <1>6
  <1>8. QED
    BY <1>1, <1>2, <1>7

(* If each term of one sum is bounded by a constant and a term of another, *)
(* the sums are.                                                           *)
LEMMA SumBound ==
    ASSUME NEW s \in Seq(Nat), NEW r \in Seq(Nat), Len(r) = Len(s),
           NEW A \in Nat, NEW K \in Nat, NEW T \in Nat,
           \A i \in DOMAIN s : A * s[i] <= K + T * r[i]
    PROVE  A * SumOf(s) <= K * Len(s) + T * SumOf(r)
  <1> DEFINE n == Len(s)
  <1>1. PICK c : /\ c[0] = 0
                 /\ \A k \in 1 .. n : c[k] = c[k - 1] + s[k]
                 /\ SumOf(s) = c[n]
    BY SumChain
  <1>2. PICK d : /\ d[0] = 0
                 /\ \A k \in 1 .. n : d[k] = d[k - 1] + r[k]
                 /\ SumOf(r) = d[n]
    BY SumChain
  <1>3. /\ n \in Nat
        /\ \A i \in 1 .. n : s[i] \in Nat /\ r[i] \in Nat
        /\ \A i \in 1 .. n : A * s[i] <= K + T * r[i]
    <2>1. n \in Nat /\ DOMAIN s = 1 .. n /\ DOMAIN r = 1 .. n
      OBVIOUS
    <2>2. \A i \in DOMAIN s : s[i] \in Nat
      OBVIOUS
    <2>3. \A i \in DOMAIN r : r[i] \in Nat
      OBVIOUS
    <2> HIDE DEF n
    <2>4. QED
      BY <2>1, <2>2, <2>3, Zenon
  <1> HIDE DEF n
  <1> DEFINE U == {k \in Nat : k <= n => /\ c[k] \in Nat /\ d[k] \in Nat
                                         /\ A * c[k] <= K * k + T * d[k]}
  <1>4. 0 \in U
    BY <1>1, <1>2
  <1>5. ASSUME NEW k \in U PROVE k + 1 \in U
    <2>1. k \in Nat /\ (k <= n => /\ c[k] \in Nat /\ d[k] \in Nat
                                  /\ A * c[k] <= K * k + T * d[k])
      BY Zenon
    <2> HIDE DEF U
    <2>2. ASSUME k + 1 <= n
          PROVE  /\ c[k + 1] \in Nat /\ d[k + 1] \in Nat
                 /\ A * c[k + 1] <= K * (k + 1) + T * d[k + 1]
      <3>1. k + 1 \in 1 .. n /\ (k + 1) - 1 = k /\ k <= n
        BY <1>3, <2>1, <2>2
      <3>2. c[k + 1] = c[k] + s[k + 1] /\ d[k + 1] = d[k] + r[k + 1]
        BY <1>1, <1>2, <3>1
      <3>3. s[k + 1] \in Nat /\ r[k + 1] \in Nat
        BY <1>3, <3>1
      <3>4. c[k] \in Nat /\ d[k] \in Nat
        BY <2>1, <3>1
      <3>5. \A x, y, z \in Nat : /\ x * (y + z) = x * y + x * z
                               /\ x * y \in Nat /\ x * z \in Nat
        OBVIOUS
      <3>6. /\ A * c[k + 1] = A * c[k] + A * s[k + 1]
            /\ A * c[k] \in Nat /\ A * s[k + 1] \in Nat
        <4>1. /\ A * (c[k] + s[k + 1]) = A * c[k] + A * s[k + 1]
              /\ A * c[k] \in Nat /\ A * s[k + 1] \in Nat
          BY <3>3, <3>4, <3>5
        <4>2. A * c[k + 1] = A * (c[k] + s[k + 1])
          BY <3>2, Zenon
        <4>3. QED
          BY <4>1, <4>2, Zenon
      <3>7. /\ T * d[k + 1] = T * d[k] + T * r[k + 1]
            /\ T * d[k] \in Nat /\ T * r[k + 1] \in Nat
        <4>1. /\ T * (d[k] + r[k + 1]) = T * d[k] + T * r[k + 1]
              /\ T * d[k] \in Nat /\ T * r[k + 1] \in Nat
          BY <3>3, <3>4, <3>5
        <4>2. T * d[k + 1] = T * (d[k] + r[k + 1])
          BY <3>2, Zenon
        <4>3. QED
          BY <4>1, <4>2, Zenon
      <3>8. K * (k + 1) = K * k + K /\ K * k \in Nat
        BY <2>1
      <3>9. A * s[k + 1] <= K + T * r[k + 1] /\ A * c[k] <= K * k + T * d[k]
        BY <1>3, <2>1, <3>1, Zenon
      <3> DEFINE u == A * c[k]
                 v == A * s[k + 1]
                 w == T * d[k]
                 x == T * r[k + 1]
                 y == K * k
      <3>10. u <= y + w /\ v <= K + x
        BY <3>9
      <3>11. u \in Nat /\ v \in Nat /\ w \in Nat /\ x \in Nat /\ y \in Nat
        BY <3>6, <3>7, <3>8
      <3>12. /\ A * c[k + 1] = u + v
             /\ K * (k + 1) + T * d[k + 1] = (y + K) + (w + x)
        BY <3>6, <3>7, <3>8
      <3> HIDE DEF u, v, w, x, y
      <3>13. u + v <= (y + K) + (w + x)
        BY <3>10, <3>11
      <3>14. c[k + 1] \in Nat /\ d[k + 1] \in Nat
        <4>1. \A p, q \in Nat : p + q \in Nat
          OBVIOUS
        <4>2. c[k] + s[k + 1] \in Nat /\ d[k] + r[k + 1] \in Nat
          BY <3>3, <3>4, <4>1, Zenon
        <4>3. QED
          BY <3>2, <4>2, Zenon
      <3>15. QED
        BY <3>12, <3>13, <3>14
    <2>3. k + 1 \in Nat
      BY <2>1
    <2>4. QED
      BY <2>2, <2>3 DEF U
  <1>6. n \in U
    <2>1. U \in SUBSET Nat
      OBVIOUS
    <2> HIDE DEF U
    <2>2. QED
      BY <1>3, <1>4, <1>5, <2>1, NatSetInduction
  <1>7. A * c[n] <= K * n + T * d[n]
    BY <1>3, <1>6
  <1>8. QED
    BY <1>1, <1>2, <1>7 DEF n

(* One more in one place is one more in the sum.                           *)
LEMMA SumBump ==
    ASSUME NEW s \in Seq(Nat), NEW r \in Seq(Nat), Len(r) = Len(s),
           NEW j \in DOMAIN s,
           \A i \in DOMAIN s : r[i] = IF i = j THEN s[i] + 1 ELSE s[i]
    PROVE  SumOf(r) = SumOf(s) + 1
  <1> DEFINE n == Len(s)
  <1>1. PICK c : /\ c[0] = 0
                 /\ \A k \in 1 .. n : c[k] = c[k - 1] + s[k]
                 /\ SumOf(s) = c[n]
    BY SumChain
  <1>2. PICK d : /\ d[0] = 0
                 /\ \A k \in 1 .. n : d[k] = d[k - 1] + r[k]
                 /\ SumOf(r) = d[n]
    BY SumChain
  <1>3. /\ n \in Nat /\ j \in 1 .. n
        /\ \A i \in 1 .. n : s[i] \in Nat
        /\ \A i \in 1 .. n : r[i] = IF i = j THEN s[i] + 1 ELSE s[i]
    <2>1. n \in Nat /\ DOMAIN s = 1 .. n
      OBVIOUS
    <2> HIDE DEF n
    <2>2. QED
      BY <2>1
  <1> HIDE DEF n
  <1> DEFINE U == {k \in Nat : k <= n =>
                      /\ c[k] \in Nat
                      /\ d[k] = IF j <= k THEN c[k] + 1 ELSE c[k]}
  <1>4. 0 \in U
    BY <1>1, <1>2, <1>3
  <1>5. ASSUME NEW k \in U PROVE k + 1 \in U
    <2>1. k \in Nat /\ (k <= n => /\ c[k] \in Nat
                                  /\ d[k] = IF j <= k THEN c[k] + 1 ELSE c[k])
      BY Zenon
    <2> HIDE DEF U
    <2>2. ASSUME k + 1 <= n
          PROVE  /\ c[k + 1] \in Nat
                 /\ d[k + 1] = IF j <= k + 1 THEN c[k + 1] + 1 ELSE c[k + 1]
      <3>1. k + 1 \in 1 .. n /\ (k + 1) - 1 = k /\ k <= n
        BY <1>3, <2>1, <2>2
      <3>2. c[k + 1] = c[k] + s[k + 1] /\ d[k + 1] = d[k] + r[k + 1]
        BY <1>1, <1>2, <3>1
      <3>3. s[k + 1] \in Nat
            /\ r[k + 1] = IF k + 1 = j THEN s[k + 1] + 1 ELSE s[k + 1]
        BY <1>3, <3>1
      <3>4. c[k] \in Nat /\ d[k] = IF j <= k THEN c[k] + 1 ELSE c[k]
        BY <2>1, <3>1
      <3>5. j \in Nat /\ k \in Nat
        BY <1>3, <2>1
      <3>6. CASE j <= k
        <4>1. d[k] = c[k] + 1 /\ r[k + 1] = s[k + 1] /\ j <= k + 1
          BY <3>3, <3>4, <3>5, <3>6
        <4>2. d[k + 1] = c[k + 1] + 1 /\ c[k + 1] \in Nat
          BY <3>2, <3>3, <3>4, <4>1
        <4>3. QED
          BY <4>1, <4>2
      <3>7. CASE j = k + 1
        <4>1. d[k] = c[k] /\ r[k + 1] = s[k + 1] + 1 /\ j <= k + 1
          BY <3>3, <3>4, <3>5, <3>7
        <4>2. d[k + 1] = c[k + 1] + 1 /\ c[k + 1] \in Nat
          BY <3>2, <3>3, <3>4, <4>1
        <4>3. QED
          BY <4>1, <4>2
      <3>8. CASE j > k + 1
        BY <3>2, <3>3, <3>4, <3>5, <3>8
      <3>9. QED
        BY <3>5, <3>6, <3>7, <3>8
    <2>3. k + 1 \in Nat
      BY <2>1
    <2>4. QED
      BY <2>2, <2>3 DEF U
  <1>6. n \in U
    <2>1. U \in SUBSET Nat
      OBVIOUS
    <2> HIDE DEF U
    <2>2. QED
      BY <1>3, <1>4, <1>5, <2>1, NatSetInduction
  <1>7. d[n] = c[n] + 1
    BY <1>3, <1>6
  <1>8. QED
    BY <1>1, <1>2, <1>7

(* Each positive factor divides the product, which is positive.            *)
LEMMA ProductFacts ==
    ASSUME NEW s \in Seq(Int)
    PROVE  /\ ProductOf(s) \in Nat \ {0}
           /\ \A i \in DOMAIN s : s[i] > 0 =>
                  \E q \in Nat \ {0} : ProductOf(s) = q * s[i]
  <1> DEFINE n == Len(s)
             P == Nat \ {0}
  <1>1. PICK c : /\ c[0] = 1
                 /\ \A k \in 1 .. n :
                        c[k] = IF s[k] > 0 THEN c[k - 1] * s[k] ELSE c[k - 1]
                 /\ ProductOf(s) = c[n]
    BY ProductChain
  <1>2. n \in Nat /\ DOMAIN s = 1 .. n /\ \A i \in 1 .. n : s[i] \in Int
    OBVIOUS
  <1> HIDE DEF n
  <1> DEFINE Divides(x, y) == \E q \in P : y = q * x
             T == {k \in Nat : k <= n =>
                      /\ c[k] \in P
                      /\ \A i \in 1 .. k : s[i] > 0 => Divides(s[i], c[k])}
  <1>3. 0 \in T
    BY <1>1
  <1>4. ASSUME NEW k \in T PROVE k + 1 \in T
    <2>1. k \in Nat /\ (k <= n =>
              /\ c[k] \in P
              /\ \A i \in 1 .. k : s[i] > 0 => Divides(s[i], c[k]))
      BY Zenon
    <2> HIDE DEF T
    <2>2. ASSUME k + 1 <= n
          PROVE  /\ c[k + 1] \in P
                 /\ \A i \in 1 .. k + 1 : s[i] > 0 => Divides(s[i], c[k + 1])
      <3>1. k + 1 \in 1 .. n /\ (k + 1) - 1 = k /\ k <= n
        BY <1>2, <2>1, <2>2
      <3>2. /\ c[k + 1] = IF s[k + 1] > 0 THEN c[k] * s[k + 1] ELSE c[k]
            /\ s[k + 1] \in Int
        BY <1>1, <1>2, <3>1
      <3>3. c[k] \in P /\ \A i \in 1 .. k : s[i] > 0 => Divides(s[i], c[k])
        BY <2>1, <3>1, Zenon
      <3>4. \A x, y \in P : x * y \in P
        OBVIOUS
      <3>5. c[k + 1] \in P
        <4>1. CASE s[k + 1] > 0
          <5>1. s[k + 1] \in P
            BY <3>2, <4>1
          <5> HIDE DEF P
          <5>2. QED
            BY <3>2, <3>3, <3>4, <4>1, <5>1
        <4>2. CASE ~(s[k + 1] > 0)
          BY <3>2, <3>3, <4>2
        <4>3. QED
          BY <4>1, <4>2
      <3>6. ASSUME NEW i \in 1 .. k + 1, s[i] > 0
            PROVE  Divides(s[i], c[k + 1])
        <4>1. CASE i = k + 1
          <5>1. c[k + 1] = c[k] * s[i]
            BY <3>2, <3>6, <4>1
          <5>2. QED
            BY <3>3, <5>1
        <4>2. CASE i # k + 1
          <5>1. i \in 1 .. k /\ s[i] \in Int
            BY <1>2, <2>1, <3>1, <4>2
          <5>2. PICK q \in P : c[k] = q * s[i]
            BY <3>3, <3>6, <5>1
          <5>3. CASE s[k + 1] > 0
            <6>1. s[k + 1] \in P
              BY <3>2, <5>3
            <6>2. q * s[k + 1] \in P
              BY <3>4, <6>1
            <6>3. c[k + 1] = (q * s[i]) * s[k + 1]
              BY <3>2, <5>2, <5>3
            <6>4. (q * s[i]) * s[k + 1] = (q * s[k + 1]) * s[i]
              BY <5>1, <6>1
            <6>5. QED
              BY <6>2, <6>3, <6>4
          <5>4. CASE ~(s[k + 1] > 0)
            BY <3>2, <5>2, <5>4
          <5>5. QED
            BY <5>3, <5>4
        <4>3. QED
          BY <4>1, <4>2
      <3> HIDE DEF Divides
      <3>7. QED
        BY <3>5, <3>6
    <2>3. k + 1 \in Nat
      BY <2>1
    <2> HIDE DEF Divides, P
    <2>4. QED
      BY <2>2, <2>3 DEF T
  <1>5. n \in T
    <2>1. T \in SUBSET Nat
      OBVIOUS
    <2> HIDE DEF T
    <2>2. QED
      BY <1>2, <1>3, <1>4, <2>1, NatSetInduction
  <1>6. n <= n
    BY <1>2
  <1>7. c[n] \in P /\ \A i \in 1 .. n : s[i] > 0 => Divides(s[i], c[n])
    BY <1>5, <1>6, Zenon
  <1>8. QED
    BY <1>1, <1>2, <1>7

(* The harmonic mean is no more than any of the values it is the mean of,  *)
(* and a quarter of it is not more either when it is rounded up.           *)
LEMMA MeanFacts ==
    ASSUME NEW s \in Seq(Int), NEW j \in DOMAIN s, s[j] > 0,
           NEW mean \in HarmonicMeans(s)
    PROVE  mean \in Nat /\ mean \div 4 \in Nat /\ mean \div 4 <= s[j]
  <1> DEFINE p == ProductOf(s)
             r == [i \in DOMAIN s |-> IF s[i] > 0 THEN p \div s[i] ELSE 0]
             m == SumOf(r)
             h == p \div m
  <1>1. p \in Nat \ {0} /\ s[j] \in Nat \ {0}
    BY ProductFacts
  <1>2. PICK q \in Nat \ {0} : p = q * s[j]
    BY ProductFacts
  <1>3. r \in Seq(Nat) /\ DOMAIN r = DOMAIN s
    <2>1. ASSUME NEW i \in DOMAIN s
          PROVE  (IF s[i] > 0 THEN p \div s[i] ELSE 0) \in Nat
      <3>1. p \in Nat /\ s[i] \in Int
        BY <1>1
      <3> HIDE DEF p
      <3>2. s[i] > 0 => p \div s[i] \in Nat
        BY <3>1
      <3>3. QED
        BY <3>2
    <2>2. Len(s) \in Nat /\ DOMAIN s = 1 .. Len(s)
      OBVIOUS
    <2>3. r \in [1 .. Len(s) -> Nat]
      BY <2>1, <2>2
    <2> HIDE DEF r
    <2>4. QED
      BY <2>2, <2>3
  <1>4. p \div s[j] = q
    <2> HIDE DEF p
    <2>1. QED
      BY <1>1, <1>2
  <1>5. m \in Nat /\ q <= m
    <2>1. r[j] = q
      BY <1>4
    <2> HIDE DEF r
    <2>2. QED
      BY <1>3, <2>1, SumFacts
  <1>6. mean \in Nat /\ mean <= h + 1
    <2> DEFINE below == IF \E x \in ToSet(s) : x < 0 THEN Len(s) ELSE 0
    <2>1. mean \in (h - 1 - below .. h + 1) \cap Nat
      BY DEF HarmonicMeans, InverseSum
    <2>2. below \in Nat
      OBVIOUS
    <2>3. h \in Int
      <3> HIDE DEF p, m
      <3>1. m # 0
        BY <1>5, <1>2
      <3>2. QED
        BY <1>1, <1>5, <3>1
    <2> HIDE DEF below, h
    <2>4. QED
      BY <2>1, <2>2, <2>3
  <1> HIDE DEF p, m, r
  <1>7. h \in Nat /\ m * h <= p
    BY <1>1, <1>5
  <1> HIDE DEF h
  <1>8. q * h <= q * s[j]
    <2>1. m - q \in Nat /\ m = q + (m - q)
      BY <1>5
    <2>2. m * h = q * h + (m - q) * h /\ (m - q) * h \in Nat /\ q * h \in Nat
      BY <1>7, <2>1
    <2>3. p = q * s[j] /\ p \in Nat
      BY <1>1, <1>2
    <2>4. QED
      BY <1>7, <2>2, <2>3
  <1>9. h <= s[j]
    BY <1>1, <1>7, <1>8, Divided
  <1>10. QED
    <2>1. mean \div 4 \in Nat /\ 4 * (mean \div 4) <= mean
      BY <1>6
    <2>2. mean \div 4 <= h
      BY <1>6, <1>7, <2>1
    <2>3. QED
      BY <1>1, <1>6, <1>7, <1>9, <2>1, <2>2

(* Multiplying by a positive number keeps the order of two, both ways.     *)
LEMMA Scaled ==
    ASSUME NEW k \in Nat \ {0}, NEW x \in Nat, NEW y \in Nat
    PROVE  /\ k * x \in Nat /\ k * y \in Nat
           /\ k * x <= k * y <=> x <= y
  <1>1. k * x \in Nat /\ k * y \in Nat
    OBVIOUS
  <1>2. ASSUME x <= y PROVE k * x <= k * y
    <2>1. y - x \in Nat /\ y = x + (y - x)
      BY <1>2
    <2>2. k * y = k * x + k * (y - x) /\ k * (y - x) \in Nat
      BY <2>1
    <2>3. QED
      BY <1>1, <2>2
  <1>3. ASSUME ~(x <= y) PROVE k * y < k * x
    <2>1. x - y \in Nat \ {0} /\ x = y + (x - y)
      BY <1>3
    <2>2. k * x = k * y + k * (x - y) /\ k * (x - y) \in Nat \ {0}
      BY <2>1
    <2>3. QED
      BY <1>1, <2>2
  <1>4. QED
    BY <1>1, <1>2, <1>3

(* Multiplying by any natural number does not turn the order round.        *)
LEMMA Multiplied ==
    ASSUME NEW k \in Nat, NEW x \in Nat, NEW y \in Nat, x <= y
    PROVE  k * x \in Nat /\ k * y \in Nat /\ k * x <= k * y
  <1>1. CASE k = 0
    BY <1>1
  <1>2. CASE k # 0
    BY <1>2, Scaled
  <1>3. QED
    BY <1>1, <1>2
-----------------------------------------------------------------------------
(* A product of longs that overflows never wraps to more than it was.      *)
LEMMA AsLongFacts ==
    ASSUME NEW x \in Int, x >= -LongLimit
    PROVE  /\ AsLong(x) \in -LongLimit .. LongLimit - 1
           /\ AsLong(x) <= x
           /\ x < LongLimit => AsLong(x) = x
  <1> DEFINE L == LongLimit
             y == x + L
             m == 2 * L
  <1>1. L \in Nat \ {0} /\ y \in Nat /\ m \in Nat \ {0}
    BY LongAssumption
  <1>2. AsLong(x) = (y % m) - L
    BY DEF AsLong
  <1> HIDE DEF y, m
  <1>3. y % m \in 0 .. m - 1 /\ y % m <= y /\ (y < m => y % m = y)
    <2>1. /\ y \div m \in Nat /\ y % m \in 0 .. m - 1
          /\ y = m * (y \div m) + (y % m)
      BY <1>1, SMT
    <2>2. m * (y \div m) \in Nat
      BY <1>1, <2>1
    <2>3. y < m => y % m = y
      BY <1>1
    <2>4. QED
      BY <1>1, <2>1, <2>2, <2>3
  <1>4. QED
    BY <1>1, <1>2, <1>3 DEF y, m

(* The interval the mean is computed from is that of the action, or less   *)
(* after an overflow.                                                      *)
LEMMA IntervalNsFacts ==
    ASSUME NEW us \in Nat \ {0}
    PROVE  /\ IntervalNs(us) \in Int
           /\ IntervalNs(us) <= NSUS * us
           /\ IntervalNs(us) < LongLimit
           /\ NSUS * us < LongLimit => IntervalNs(us) = NSUS * us
  <1> DEFINE t == us_to_timespec(us)
             w == t.sec * NSEC
             x == t.nsec + AsLong(w)
             v == NSUS * us
  <1>1. IntervalNs(us) = AsLong(x)
    BY DEF IntervalNs
  <1>2. t.nsec \in Nat /\ w \in Nat /\ w + t.nsec = v
    <2>1. t \in TimeVal
      BY IntervalType
    <2>2. t.sec \in Nat /\ t.nsec \in Nat /\ NSEC \in Nat
      BY <2>1, NSECPositive DEF TimeVal
    <2>3. Ns(t) = w + t.nsec
      BY DEF Ns
    <2>4. Ns(t) = v
      BY NsOfInterval
    <2> HIDE DEF t
    <2>5. QED
      BY <2>2, <2>3, <2>4
  <1>3. /\ AsLong(w) \in -LongLimit .. LongLimit - 1
        /\ AsLong(w) <= w
        /\ w < LongLimit => AsLong(w) = w
    <2> HIDE DEF w
    <2>1. w \in Int /\ w >= -LongLimit
      BY <1>2, LongAssumption
    <2>2. QED
      BY <2>1, AsLongFacts
  <1> HIDE DEF t, w, v
  <1>4. x \in Int /\ x >= -LongLimit /\ x <= v /\ (v < LongLimit => x = v)
    BY <1>2, <1>3, LongAssumption
  <1> HIDE DEF x
  <1>5. /\ AsLong(x) \in -LongLimit .. LongLimit - 1
        /\ AsLong(x) <= x
        /\ x < LongLimit => AsLong(x) = x
    BY <1>4, AsLongFacts
  <1>6. v \in Nat
    BY <1>2
  <1>7. QED
    BY <1>1, <1>4, <1>5, <1>6, LongAssumption DEF v

(* Cutting nanoseconds into a timespec loses none.                         *)
LEMMA Ns2TimespecFacts ==
    ASSUME NEW x \in Nat
    PROVE  Ns2Timespec(x) \in TimeVal /\ Ns(Ns2Timespec(x)) = x
  <1> DEFINE N == NSEC
             q == x \div N
             r == x % N
  <1>1. N \in Nat \ {0}
    BY NSECPositive
  <1>2. Ns2Timespec(x) = [sec |-> q, nsec |-> r]
    BY DEF Ns2Timespec
  <1>3. Ns(Ns2Timespec(x)) = q * N + r
    BY <1>2 DEF Ns
  <1> HIDE DEF N
  <1>4. q \in Nat /\ r \in 0 .. N - 1 /\ x = N * q + r
    BY <1>1
  <1> HIDE DEF q, r
  <1>5. N * q = q * N
    BY <1>1, <1>4
  <1>6. Ns2Timespec(x) \in TimeVal
    BY <1>2, <1>4 DEF TimeVal, N
  <1>7. QED
    BY <1>3, <1>4, <1>5, <1>6

(* The zeroed timespec the thread starts with.                             *)
LEMMA ZeroFacts == Zero \in TimeVal /\ Ns(Zero) = 0
  <1>1. Zero \in TimeVal
    BY NSECPositive, SMT DEF Zero, TimeVal
  <1>2. Ns(Zero) = 0
    BY NSECPositive, SMT DEF Zero, Ns
  <1>3. QED
    BY <1>1, <1>2

(* The offset of a TCP thread is a time, and no longer than any interval   *)
(* of the list, those included that overflow.                              *)
LEMMA EventOffsetFacts ==
    ASSUME NEW l \in Seq(Nat \ {0}),
           NEW o \in get_minimal_modbus_event_offset(l)
    PROVE  o \in TimeVal /\ \A i \in DOMAIN l : Ns(o) <= NSUS * l[i]
  <1> DEFINE s == [i \in DOMAIN l |-> IntervalNs(l[i])]
  <1>1. \A i \in DOMAIN l : l[i] \in Nat \ {0} /\ NSUS * l[i] \in Nat
    BY UnitAssumption
  <1>2. s \in Seq(Int) /\ DOMAIN s = DOMAIN l
    <2>1. \A i \in DOMAIN l : IntervalNs(l[i]) \in Int
      BY <1>1, IntervalNsFacts
    <2>2. Len(l) \in Nat /\ DOMAIN l = 1 .. Len(l)
      OBVIOUS
    <2>3. s \in [1 .. Len(l) -> Int]
      BY <2>1, <2>2
    <2> HIDE DEF s
    <2>4. QED
      BY <2>2, <2>3
  <1>3. \A i \in DOMAIN l :
            /\ s[i] \in Int /\ s[i] <= NSUS * l[i] /\ s[i] < LongLimit
            /\ NSUS * l[i] < LongLimit => s[i] = NSUS * l[i]
    BY <1>1, IntervalNsFacts
  <1>4. CASE 0 \notin ToSet(s) /\ \E x \in ToSet(s) : x > 0
    <2>1. PICK mean \in HarmonicMeans(s) : o = Ns2Timespec(mean \div 4)
      BY <1>4 DEF get_minimal_modbus_event_offset
    <2> HIDE DEF s
    <2>2. PICK j \in DOMAIN s : s[j] > 0
      BY <1>4 DEF ToSet
    <2> DEFINE q == mean \div 4
    <2>3. q \in Nat /\ \A i \in DOMAIN s : s[i] > 0 => q <= s[i]
      BY <1>2, <2>2, MeanFacts
    <2>4. o = Ns2Timespec(q)
      BY <2>1
    <2> HIDE DEF q
    <2>5. o \in TimeVal /\ Ns(o) = q
      BY <2>3, <2>4, Ns2TimespecFacts
    <2>6. ASSUME NEW i \in DOMAIN l PROVE Ns(o) <= NSUS * l[i]
      <3>1. CASE s[i] > 0
        BY <1>1, <1>2, <1>3, <2>3, <2>5, <3>1
      <3>2. CASE ~(s[i] > 0)
        <4>1. i \in DOMAIN s /\ s[i] # 0
          BY <1>2, <1>4 DEF ToSet
        <4>2. NSUS * l[i] >= LongLimit
          BY <1>1, <1>3, <3>2, <4>1, LongAssumption
        <4>3. q <= s[j] /\ s[j] < LongLimit /\ s[j] \in Int
          BY <1>2, <1>3, <2>2, <2>3
        <4>4. QED
          BY <1>1, <2>3, <2>5, <4>2, <4>3, LongAssumption
      <3>3. QED
        BY <3>1, <3>2
    <2>7. QED
      BY <2>5, <2>6
  <1>5. CASE ~(0 \notin ToSet(s) /\ \E x \in ToSet(s) : x > 0)
    <2>1. o = Zero
      BY <1>5 DEF get_minimal_modbus_event_offset
    <2>2. QED
      BY <1>1, <2>1, ZeroFacts
  <1>6. QED
    BY <1>4, <1>5

(* The seconds of a difference of two times are an integer.                *)
LEMMA DiffIsInt ==
    \A a, b \in TimeVal : timespec_diff(a, b).sec \in Int
  BY DEF TimeVal, timespec_diff

(* The loop of get_minimal_modbus_action_interval finds the least interval *)
(* although it compares in two fields, and the list has no other.          *)
LEMMA MinimalInterval ==
    ASSUME NEW l \in Seq(Nat \ {0}), l # <<>>
    PROVE  \E us \in ToSet(l) :
               /\ \A v \in ToSet(l) : us <= v
               /\ get_minimal_modbus_action_interval(l) = us_to_timespec(us)
  <1> DEFINE P == Nat \ {0}
             T == ToSet(l)
             least == {us \in T : \A v \in T :
                 timespec_diff(us_to_timespec(v), us_to_timespec(us)).sec >= 0}
             us == CHOOSE x \in least : TRUE
  <1>1. T \subseteq P /\ T # {}
    <2>1. 1 \in DOMAIN l
      OBVIOUS
    <2>2. QED
      BY <2>1 DEF ToSet
  <1>2. \A x, y \in P :
            timespec_diff(us_to_timespec(y), us_to_timespec(x)).sec >= 0
                <=> x <= y
    <2> TAKE x, y \in P
    <2>1. us_to_timespec(x) \in TimeVal /\ us_to_timespec(y) \in TimeVal
      BY IntervalType
    <2> DEFINE d == timespec_diff(us_to_timespec(y), us_to_timespec(x))
    <2>2. /\ d.sec < 0 <=> Before(us_to_timespec(y), us_to_timespec(x))
          /\ d.sec \in Int
      BY <2>1, DiffSign, DiffIsInt
    <2>3. /\ Ns(us_to_timespec(x)) = NSUS * x
          /\ Ns(us_to_timespec(y)) = NSUS * y
      BY NsOfInterval
    <2>4. NSUS * x <= NSUS * y <=> x <= y
      BY Scaled, UnitAssumption
    <2> HIDE DEF d
    <2>5. d.sec >= 0 <=> x <= y
      BY <2>1, <2>2, <2>3, <2>4, NsOrder DEF NotAfter
    <2>6. QED
      BY <2>5 DEF d
  <1> HIDE DEF T
  <1>3. least # {}
    <2>1. PICK m \in T : \A y \in T : m <= y
      BY <1>1, LeastElement
    <2>2. m \in least
      BY <1>1, <1>2, <2>1
    <2>3. QED
      BY <2>2
  <1>4. us \in T /\ \A v \in T : us <= v
    <2>1. us \in least
      BY <1>3
    <2> HIDE DEF us
    <2>2. QED
      BY <1>1, <1>2, <2>1
  <1>5. get_minimal_modbus_action_interval(l) = us_to_timespec(us)
    BY DEF get_minimal_modbus_action_interval, T
  <1> HIDE DEF us
  <1>6. QED
    BY <1>4, <1>5 DEF T

(* The offset of an RTU thread is the interval of the fastest action,      *)
(* divided by the number of actions and by four.                           *)
LEMMA RtuOffsetValue ==
    ASSUME NEW l \in Seq(Nat \ {0}), l # <<>>
    PROVE  \E us \in ToSet(l) :
               /\ \A v \in ToSet(l) : us <= v
               /\ rtu_event_offset(l) \in TimeVal
               /\ Ns(rtu_event_offset(l)) = ((NSUS * us) \div Len(l)) \div 4
  <1>1. PICK us \in ToSet(l) :
            /\ \A v \in ToSet(l) : us <= v
            /\ get_minimal_modbus_action_interval(l) = us_to_timespec(us)
    BY MinimalInterval
  <1>2. us \in Nat \ {0}
    BY DEF ToSet
  <1> DEFINE ns == NSUS * us
             k == Len(l)
             o == (ns \div k) \div 4
  <1>3. ns \in Nat /\ k \in Nat \ {0}
    BY <1>2, UnitAssumption
  <1>4. rtu_event_offset(l) = Ns2Timespec(o)
    BY <1>1, <1>2, NsOfInterval DEF rtu_event_offset
  <1> HIDE DEF ns, k
  <1>5. o \in Nat
    BY <1>3
  <1> HIDE DEF o
  <1>6. rtu_event_offset(l) \in TimeVal /\ Ns(rtu_event_offset(l)) = o
    BY <1>4, <1>5, Ns2TimespecFacts
  <1>7. QED
    BY <1>1, <1>6 DEF o, ns, k

(* It is a time no longer than any interval.                               *)
LEMMA RtuOffsetFacts ==
    ASSUME NEW l \in Seq(Nat \ {0}), l # <<>>
    PROVE  /\ rtu_event_offset(l) \in TimeVal
           /\ \A i \in DOMAIN l : Ns(rtu_event_offset(l)) <= NSUS * l[i]
  <1>1. PICK us \in ToSet(l) :
            /\ \A v \in ToSet(l) : us <= v
            /\ rtu_event_offset(l) \in TimeVal
            /\ Ns(rtu_event_offset(l)) = ((NSUS * us) \div Len(l)) \div 4
    BY RtuOffsetValue
  <1> DEFINE ns == NSUS * us
             k == Len(l)
             d == ns \div k
  <1>2. us \in Nat /\ ns \in Nat /\ k \in Nat \ {0}
    BY UnitAssumption DEF ToSet
  <1> HIDE DEF k
  <1>3. d \in Nat /\ d <= ns
    <2> HIDE DEF ns
    <2>1. ns \div k \in Nat /\ k * (ns \div k) <= ns
      BY <1>2
    <2>2. \A x \in Nat : k * x = (k - 1) * x + x /\ (k - 1) * x \in Nat
      BY <1>2
    <2>3. QED
      BY <1>2, <2>1, <2>2
  <1>4. Ns(rtu_event_offset(l)) = d \div 4
    BY <1>1 DEF k
  <1> HIDE DEF d
  <1>5. d \div 4 <= ns
    BY <1>2, <1>3
  <1>6. ASSUME NEW i \in DOMAIN l PROVE ns <= NSUS * l[i] /\ NSUS * l[i] \in Nat
    <2>1. us <= l[i] /\ l[i] \in Nat
      BY <1>1 DEF ToSet
    <2>2. QED
      BY <1>2, <2>1, Scaled, UnitAssumption
  <1>7. QED
    BY <1>1, <1>2, <1>3, <1>4, <1>5, <1>6
-----------------------------------------------------------------------------
(* InverseSum / ProductOf is the sum of the inverse intervals: the term of *)
(* each times the interval is the product.                                 *)
LEMMA InverseFacts ==
    ASSUME NEW s \in Seq(Nat \ {0})
    PROVE  \E r \in Seq(Nat \ {0}) :
               /\ Len(r) = Len(s) /\ InverseSum(s) = SumOf(r)
               /\ \A i \in DOMAIN s : s[i] * r[i] = ProductOf(s)
  <1> DEFINE p == ProductOf(s)
             r == [i \in DOMAIN s |-> IF s[i] > 0 THEN p \div s[i] ELSE 0]
  <1>1. s \in Seq(Int) /\ Len(s) \in Nat /\ DOMAIN s = 1 .. Len(s)
    OBVIOUS
  <1>2. ASSUME NEW i \in DOMAIN s
        PROVE  /\ s[i] > 0 /\ p \div s[i] \in Nat \ {0}
               /\ s[i] * (p \div s[i]) = p
    <2>1. s[i] \in Nat \ {0}
      OBVIOUS
    <2>2. PICK q \in Nat \ {0} : p = q * s[i]
      <3>1. s \in Seq(Int) /\ s[i] > 0
        BY <1>1, <2>1
      <3>2. QED
        BY <3>1, ProductFacts
    <2> HIDE DEF p
    <2>3. p \div s[i] = q
      BY <2>1, <2>2
    <2>4. s[i] * q = q * s[i]
      BY <2>1, <2>2
    <2>5. QED
      BY <2>1, <2>2, <2>3, <2>4
  <1>3. InverseSum(s) = SumOf(r)
    BY DEF InverseSum
  <1> HIDE DEF p
  <1>4. r \in [1 .. Len(s) -> Nat \ {0}]
    BY <1>1, <1>2
  <1>5. \A i \in DOMAIN s : s[i] * r[i] = p
    BY <1>2
  <1> HIDE DEF r
  <1>6. r \in Seq(Nat \ {0}) /\ Len(r) = Len(s)
    BY <1>1, <1>4
  <1>7. QED
    BY <1>3, <1>5, <1>6 DEF p

(* The inverse sum of a list that is not empty is positive.                *)
LEMMA InverseSumPositive ==
    ASSUME NEW s \in Seq(Nat \ {0}), s # <<>>
    PROVE  InverseSum(s) \in Nat \ {0}
  <1>1. PICK r \in Seq(Nat \ {0}) : Len(r) = Len(s) /\ InverseSum(s) = SumOf(r)
    BY InverseFacts
  <1>2. r \in Seq(Nat) /\ 1 \in DOMAIN r /\ r[1] \in Nat \ {0}
    BY <1>1
  <1>3. SumOf(r) \in Nat /\ r[1] <= SumOf(r)
    BY <1>2, SumFacts
  <1>4. QED
    BY <1>1, <1>2, <1>3

(* The intervals of a list in nanoseconds.                                 *)
LEMMA ListInNs ==
    ASSUME NEW l \in Seq(Nat \ {0})
    PROVE  /\ [k \in DOMAIN l |-> NSUS * l[k]] \in Seq(Nat \ {0})
           /\ Len([k \in DOMAIN l |-> NSUS * l[k]]) = Len(l)
  <1> DEFINE n == [k \in DOMAIN l |-> NSUS * l[k]]
  <1>1. Len(l) \in Nat /\ DOMAIN l = 1 .. Len(l)
    OBVIOUS
  <1>2. \A k \in DOMAIN l : NSUS * l[k] \in Nat \ {0}
    BY UnitAssumption
  <1>3. n \in [1 .. Len(l) -> Nat \ {0}]
    BY <1>1, <1>2
  <1> HIDE DEF n
  <1>4. QED
    BY <1>1, <1>3 DEF n

(* The offsets of an RTU thread take at most a quarter of the schedule.    *)
LEMMA RtuOffsetsFit ==
    ASSUME NEW l \in Seq(Nat \ {0}), l # <<>>,
           NEW n, n = [k \in DOMAIN l |-> NSUS * l[k]]
    PROVE  4 * InverseSum(n) * Ns(rtu_event_offset(l)) <= ProductOf(n)
  <1> DEFINE p == ProductOf(n)
             S == InverseSum(n)
             k == Len(l)
  <1>1. n \in Seq(Nat \ {0}) /\ Len(n) = k /\ k \in Nat \ {0} /\ n # <<>>
    BY ListInNs
  <1>2. PICK r \in Seq(Nat \ {0}) :
            /\ Len(r) = Len(n) /\ S = SumOf(r)
            /\ \A i \in DOMAIN n : n[i] * r[i] = p
    BY <1>1, InverseFacts
  <1>3. PICK us \in ToSet(l) :
            /\ \A v \in ToSet(l) : us <= v
            /\ Ns(rtu_event_offset(l)) = ((NSUS * us) \div k) \div 4
    BY RtuOffsetValue
  <1> DEFINE a == NSUS * us
             o == (a \div k) \div 4
  <1>4. us \in Nat \ {0} /\ a \in Nat
    BY UnitAssumption DEF ToSet
  <1>5. p \in Nat /\ S \in Nat
    <2>1. n \in Seq(Int)
      BY <1>1
    <2>2. QED
      BY <1>1, <2>1, ProductFacts, InverseSumPositive
  <1>6. DOMAIN n = DOMAIN l /\ DOMAIN r = DOMAIN l
    BY <1>1, <1>2
  <1>7. ASSUME NEW i \in DOMAIN r PROVE a * r[i] <= p + 0 * r[i]
    <2>1. l[i] \in ToSet(l) /\ l[i] \in Nat \ {0} /\ n[i] = NSUS * l[i]
      BY <1>6 DEF ToSet
    <2>2. a <= n[i] /\ n[i] \in Nat
      BY <1>3, <1>4, <2>1, Scaled, UnitAssumption
    <2>3. r[i] \in Nat \ {0} /\ n[i] * r[i] = p
      BY <1>2, <1>6
    <2> HIDE DEF a, p
    <2>4. a * r[i] <= n[i] * r[i]
      <3>1. r[i] * a <= r[i] * n[i]
        BY <1>4, <2>2, <2>3, Scaled
      <3>2. r[i] * a = a * r[i] /\ r[i] * n[i] = n[i] * r[i]
        BY <1>4, <2>2, <2>3
      <3>3. QED
        BY <3>1, <3>2
    <2>5. 0 * r[i] = 0
      BY <2>3
    <2>6. QED
      BY <1>5, <2>3, <2>4, <2>5
  <1> HIDE DEF a, p, S, k
  <1>8. a * S <= p * k
    <2>1. r \in Seq(Nat)
      OBVIOUS
    <2>2. a * SumOf(r) <= p * Len(r) + 0 * SumOf(r)
      BY <1>4, <1>5, <1>7, <2>1, SumBound
    <2>3. p * k \in Nat /\ 0 * S = 0
      BY <1>1, <1>5
    <2>4. QED
      BY <1>1, <1>2, <2>2, <2>3
  <1> DEFINE d == a \div k
  <1>9. d \in Nat /\ k * d <= a
    <2>1. a \in Nat /\ k \in Nat \ {0}
      BY <1>1, <1>4
    <2> HIDE DEF a
    <2>2. a \div k \in Nat /\ k * (a \div k) <= a
      BY <2>1
    <2>3. QED
      BY <2>2
  <1> HIDE DEF d
  <1>10. o \in Nat /\ 4 * o <= d
    BY <1>9 DEF d
  <1> HIDE DEF o
  <1>11. k * (4 * o) <= a
    <2>1. 4 * o \in Nat
      BY <1>10
    <2>2. k * (4 * o) <= k * d /\ k * (4 * o) \in Nat /\ k * d \in Nat
      BY <1>1, <1>9, <1>10, <2>1, Scaled
    <2>3. QED
      BY <1>4, <1>9, <2>2
  <1>12. k * (4 * S * o) <= k * p
    <2>1. S \in Nat \ {0}
      BY <1>1, InverseSumPositive DEF S
    <2>2. k * (4 * o) \in Nat
      BY <1>1, <1>10
    <2>3. S * (k * (4 * o)) <= S * a
      BY <1>4, <1>11, <2>1, <2>2, Scaled
    <2>4. S * (k * (4 * o)) = k * (4 * S * o) /\ S * a = a * S /\ p * k = k * p
      BY <1>1, <1>4, <1>5, <1>10
    <2>5. S * a \in Nat /\ k * (4 * S * o) \in Nat /\ p * k \in Nat
      BY <1>1, <1>4, <1>5, <1>10
    <2>6. QED
      BY <1>8, <2>3, <2>4, <2>5
  <1>13. 4 * S * o \in Nat
    BY <1>5, <1>10
  <1>14. 4 * S * o <= p
    BY <1>1, <1>5, <1>12, <1>13, Divided
  <1>15. QED
    BY <1>3, <1>14 DEF o, a, S, p, k

(* Those of a TCP thread take a quarter, cut to the nanosecond, of a mean  *)
(* that is rounded by a nanosecond, unless an interval overflows.          *)
LEMMA TcpOffsetsFit ==
    ASSUME NEW l \in Seq(Nat \ {0}), l # <<>>,
           NEW n, n = [k \in DOMAIN l |-> NSUS * l[k]],
           \A i \in DOMAIN l : NSUS * l[i] < LongLimit,
           NEW o \in get_minimal_modbus_event_offset(l)
    PROVE  /\ 4 * InverseSum(n) * Ns(o) <= ProductOf(n) + InverseSum(n)
           /\ ProductOf(n) - InverseSum(n) <= 4 * InverseSum(n) * (Ns(o) + 1)
  <1> DEFINE p == ProductOf(n)
             S == InverseSum(n)
             h == p \div S
             s == [i \in DOMAIN l |-> IntervalNs(l[i])]
  <1>1. n \in Seq(Nat \ {0}) /\ Len(n) = Len(l) /\ n # <<>>
    BY ListInNs
  <1>2. p \in Nat /\ S \in Nat \ {0}
    <2>1. n \in Seq(Int)
      BY <1>1
    <2>2. QED
      BY <1>1, <2>1, ProductFacts, InverseSumPositive
  <1>3. s = n
    <2>1. ASSUME NEW i \in DOMAIN l PROVE IntervalNs(l[i]) = NSUS * l[i]
      <3>1. l[i] \in Nat \ {0} /\ NSUS * l[i] < LongLimit
        OBVIOUS
      <3>2. QED
        BY <3>1, IntervalNsFacts
    <2> DEFINE F(i) == IntervalNs(l[i])
               G(i) == NSUS * l[i]
    <2>2. \A i \in DOMAIN l : F(i) = G(i)
      BY <2>1
    <2>3. s = [i \in DOMAIN l |-> F(i)] /\ n = [i \in DOMAIN l |-> G(i)]
      OBVIOUS
    <2> HIDE DEF F, G, s
    <2>4. QED
      BY <2>2, <2>3
  <1>4. 0 \notin ToSet(n) /\ \E x \in ToSet(n) : x > 0
    <2>1. ToSet(n) \subseteq Nat \ {0} /\ n[1] \in ToSet(n)
      BY <1>1 DEF ToSet
    <2>2. \A x \in Nat \ {0} : x > 0 /\ x # 0
      OBVIOUS
    <2>3. QED
      BY <2>1, <2>2, Zenon
  <1> DEFINE tcp == Ns(o)
  <1>5. PICK mean \in HarmonicMeans(n) : o = Ns2Timespec(mean \div 4)
    BY <1>3, <1>4 DEF get_minimal_modbus_event_offset
  <1>6. h \in Nat /\ S * h <= p /\ p <= S * h + S
    <2> HIDE DEF p, S
    <2>1. QED
      BY <1>2
  <1>7. mean \in Nat /\ mean <= h + 1 /\ h <= mean + 1
    <2>1. ~ \E x \in ToSet(n) : x < 0
      <3>1. \A i \in DOMAIN n : n[i] \in Nat
        BY <1>1
      <3>2. QED
        BY <3>1 DEF ToSet
    <2>2. mean \in (h - 1 - 0 .. h + 1) \cap Nat
      <3> HIDE DEF p, S
      <3>1. HarmonicMeans(n) = (h - 1 - 0 .. h + 1) \cap Nat
        BY <2>1 DEF HarmonicMeans, p, S
      <3>2. QED
        BY <1>5, <3>1
    <2> HIDE DEF h, p, S
    <2>3. QED
      BY <1>6, <2>2
  <1> HIDE DEF p, S, s, h
  <1>8. tcp \in Nat /\ 4 * tcp <= mean /\ mean + 1 <= 4 * (tcp + 1)
    <2>1. mean \div 4 \in Nat
      BY <1>7
    <2>2. tcp = mean \div 4
      BY <1>5, <2>1, Ns2TimespecFacts
    <2>3. QED
      BY <1>7, <2>2
  <1> HIDE DEF tcp
  <1>9. S * (4 * tcp) <= S * (h + 1) /\ S * h <= S * (4 * (tcp + 1))
    <2>1. /\ 4 * tcp \in Nat /\ h + 1 \in Nat /\ 4 * (tcp + 1) \in Nat
          /\ 4 * tcp <= h + 1 /\ h <= 4 * (tcp + 1)
      BY <1>6, <1>7, <1>8
    <2>2. QED
      BY <1>2, <1>6, <1>8, <2>1, Scaled
  <1>10. /\ S * (h + 1) = S * h + S
         /\ S * (4 * tcp) = 4 * S * tcp
         /\ S * (4 * (tcp + 1)) = 4 * S * (tcp + 1)
    BY <1>2, <1>6, <1>7, <1>8
  <1>11. /\ S * h \in Nat
         /\ 4 * S * tcp \in Nat /\ 4 * S * (tcp + 1) \in Nat
    BY <1>2, <1>6, <1>7, <1>8
  <1>12. 4 * S * tcp <= p + S /\ p - S <= 4 * S * (tcp + 1)
    <2> DEFINE x == 4 * S * tcp
               y == S * h
               w == 4 * S * (tcp + 1)
    <2>1. x <= y + S /\ y <= p /\ p <= y + S /\ y <= w
      BY <1>6, <1>9, <1>10, Zenon
    <2>2. x \in Nat /\ y \in Nat /\ w \in Nat
      BY <1>11
    <2> HIDE DEF x, y, w
    <2>3. x <= p + S /\ p - S <= w
      BY <1>2, <2>1, <2>2
    <2>4. QED
      BY <2>3 DEF x, w
  <1>13. QED
    BY <1>12 DEF p, S, tcp

(* The timeout of a thread is one that libmodbus takes, and half of the    *)
(* smallest interval.                                                      *)
LEMMA TimeoutFacts ==
    ASSUME NEW l \in Seq(Nat \ {0}), l # <<>>, USEC > 1,
           NEW m \in ToSet(l), \A v \in ToSet(l) : m <= v,
           NEW t, t = modbus_timeout(l)
    PROVE  /\ t.usec \in 0 .. USEC - 1
           /\ <<t.sec, t.usec>> # <<0, 0>>
           /\ m > 1 => t.sec * USEC + t.usec = m \div 2
  <1>1. PICK us \in ToSet(l) :
            /\ \A v \in ToSet(l) : us <= v
            /\ get_minimal_modbus_action_interval(l) = us_to_timespec(us)
    BY MinimalInterval
  <1>2. us = m /\ m \in Nat \ {0} /\ USEC \in Nat /\ NSUS \in Nat \ {0}
    <2>1. us \in Nat /\ m \in Nat \ {0}
      BY DEF ToSet
    <2>2. QED
      BY <1>1, <2>1, UnitAssumption
  <1> DEFINE g == get_minimal_modbus_action_interval(l)
             q == m \div USEC
             r == m % USEC
             carry == IF q % 2 # 0 THEN USEC ELSE 0
             h == q \div 2
             u == (r + carry) \div 2
  <1>3. q \in Nat /\ r \in 0 .. USEC - 1 /\ m = USEC * q + r
    BY <1>2
  <1>4. g.sec = q /\ g.nsec = r * NSUS
    BY <1>1, <1>2 DEF us_to_timespec
  <1>5. (IF g.sec % 2 # 0 THEN g.nsec + NSEC ELSE g.nsec) = (r + carry) * NSUS
    <2> HIDE DEF g, q, r
    <2>1. (r + USEC) * NSUS = r * NSUS + USEC * NSUS /\ r + 0 = r
      BY <1>2, <1>3
    <2>2. QED
      BY <1>4, <2>1 DEF NSEC
  <1> HIDE DEF g, q, r
  <1>6. r + carry \in Nat /\ (r + carry) \in 0 .. 2 * USEC - 1
    BY <1>2, <1>3
  <1>7. ((r + carry) * NSUS) \div NSUS = r + carry
    <2> HIDE DEF carry
    <2>1. QED
      BY <1>2, <1>6
  <1> DEFINE half == [sec |-> h, usec |-> u]
  <1>8. t = IF half.sec = 0 /\ half.usec = 0 THEN [half EXCEPT !.usec = 1] ELSE half
    <2>1. t = LET nsec == IF g.sec % 2 # 0 THEN g.nsec + NSEC ELSE g.nsec
                  hf   == [sec |-> g.sec \div 2, usec |-> (nsec \div NSUS) \div 2]
              IN  IF hf.sec = 0 /\ hf.usec = 0 THEN [hf EXCEPT !.usec = 1] ELSE hf
      BY DEF modbus_timeout, g
    <2> HIDE DEF carry
    <2>2. QED
      BY <1>4, <1>5, <1>7, <2>1
  <1>9. h \in Nat /\ u \in 0 .. USEC - 1
    <2> HIDE DEF carry
    <2>1. QED
      BY <1>2, <1>3, <1>6
  <1>10. t.sec = h /\ t.usec = IF h = 0 /\ u = 0 THEN 1 ELSE u
    <2> HIDE DEF h, u
    <2>1. QED
      BY <1>8
  <1>11. h * USEC + u = m \div 2
    <2>1. CASE q % 2 = 0
      <3>1. q = 2 * h /\ carry = 0 /\ u = r \div 2
        BY <1>3, <2>1
      <3> HIDE DEF h
      <3>2. USEC * q = 2 * (h * USEC) /\ h * USEC \in Nat
        BY <1>2, <1>9, <3>1
      <3> DEFINE x == h * USEC
      <3>3. m = 2 * x + r /\ x \in Nat
        BY <1>3, <3>2
      <3> HIDE DEF x
      <3>4. m \div 2 = x + (r \div 2)
        BY <1>3, <3>3
      <3>5. QED
        BY <3>1, <3>4 DEF x
    <2>2. CASE q % 2 # 0
      <3>1. q = 2 * h + 1 /\ carry = USEC
        BY <1>3, <2>2
      <3> HIDE DEF h
      <3>2. USEC * q = 2 * (h * USEC) + USEC /\ h * USEC \in Nat
        BY <1>2, <1>9, <3>1
      <3> DEFINE x == h * USEC
                 y == USEC * q
      <3>3. y = 2 * x + USEC /\ x \in Nat /\ m = y + r
        BY <1>3, <3>2
      <3> HIDE DEF x, y, carry
      <3>4. m = 2 * x + (r + carry)
        BY <1>2, <1>3, <3>1, <3>3
      <3> DEFINE z == r + carry
      <3>5. z \in Nat
        BY <1>6
      <3> HIDE DEF z
      <3>6. m = 2 * x + z
        BY <3>4 DEF z
      <3>7. m \div 2 = x + (z \div 2)
        BY <3>3, <3>5, <3>6
      <3>8. QED
        BY <3>7 DEF x, z
    <2>3. QED
      BY <2>1, <2>2
  <1> HIDE DEF h, u
  <1>12. m > 1 => ~(h = 0 /\ u = 0)
    <2> SUFFICES ASSUME h = 0, u = 0 PROVE ~(m > 1)
      OBVIOUS
    <2>1. m \div 2 = 0
      BY <1>2, <1>11
    <2>2. QED
      BY <1>2, <2>1
  <1>13. QED
    BY <1>2, <1>9, <1>10, <1>11, <1>12
-----------------------------------------------------------------------------
(* A finite set of natural numbers that is not empty has a greatest        *)
(* element, which is its Max.                                              *)
LEMMA MaxFacts ==
    ASSUME NEW S \in SUBSET Nat, IsFiniteSet(S), S # {}
    PROVE  Max(S) \in S /\ \A x \in S : x <= Max(S)
  <1>1. PICK q \in Seq(S) : \A x \in S : \E k \in 1 .. Len(q) : q[k] = x
    BY DEF IsFiniteSet
  <1>2. q \in Seq(Nat) /\ DOMAIN q = 1 .. Len(q)
    <2>1. Len(q) \in Nat /\ DOMAIN q = 1 .. Len(q)
      OBVIOUS
    <2>2. \A k \in 1 .. Len(q) : q[k] \in Nat
      <3>1. \A k \in 1 .. Len(q) : q[k] \in S
        BY <2>1
      <3>2. QED
        BY <3>1, Zenon
    <2>3. q = [k \in 1 .. Len(q) |-> q[k]]
      BY <2>1
    <2>4. q \in [1 .. Len(q) -> Nat]
      BY <2>2, <2>3, Zenon
    <2>5. QED
      BY <2>1, <2>4
  <1> DEFINE B == SumOf(q)
  <1>3. B \in Nat /\ \A x \in S : x <= B
    <2>1. SumOf(q) \in Nat /\ \A k \in DOMAIN q : q[k] <= SumOf(q)
      BY <1>2, SumFacts
    <2>2. QED
      BY <1>1, <1>2, <2>1
  <1> HIDE DEF B
  <1> DEFINE T == {B - x : x \in S}
  <1>4. T \in SUBSET Nat /\ T # {}
    <2>1. \A x \in S : B - x \in Nat
      BY <1>3
    <2>2. QED
      BY <2>1, Zenon
  <1>5. PICK m \in T : \A y \in T : m <= y
    <2> HIDE DEF T
    <2>1. QED
      BY <1>4, LeastElement
  <1>6. PICK x \in S : m = B - x
    OBVIOUS
  <1>7. \A y \in S : x >= y
    <2> TAKE y \in S
    <2>1. m <= B - y
      BY <1>5, Zenon
    <2> HIDE DEF T
    <2>2. QED
      BY <1>3, <1>6, <2>1
  <1>8. Max(S) \in S /\ \A y \in S : Max(S) >= y
    BY <1>7 DEF Max
  <1>9. QED
    BY <1>8

(* The Min of a set of natural numbers that is not empty.                  *)
LEMMA MinFacts ==
    ASSUME NEW S \in SUBSET Nat, S # {}
    PROVE  Min(S) \in S /\ \A x \in S : Min(S) <= x
  <1>1. PICK m \in S : \A y \in S : m <= y
    BY LeastElement
  <1>2. QED
    BY <1>1 DEF Min
=============================================================================
