----------------------------- MODULE NumberLemmas -----------------------------
(* Facts about natural numbers that the proofs about the other modules use *)
(* in place of induction over a predicate.                                 *)
EXTENDS Integers, WellFoundedInduction, TLAPS

\* A set of natural numbers that is not empty has a least element (the orders of
\* the register allocator's two multisets end somewhere).
LEMMA LeastNatural ==
  ASSUME NEW T \in SUBSET Nat, T # {}
  PROVE  \E m \in T : \A n \in T : m <= n
<1> DEFINE R == OpToRel(<, Nat)
<1>1. IsWellFoundedOn(R, Nat)
  BY NatLessThanWellFounded
<1>2. \A m, n \in T : n < m => <<n, m>> \in R
  BY DEF OpToRel
<1>3. PICK m \in T : \A n \in T : ~(<<n, m>> \in R)
  <2> HIDE DEF R
  <2> QED BY <1>1, WFMin
<1>4. \A n \in T : ~(n < m)
  <2> HIDE DEF R
  <2> QED BY <1>2, <1>3
<1>5. \A n \in T : m <= n
  BY <1>4
<1> QED BY <1>5

\* Induction up to n over a set: what holds at 0 and passes from each number to the
\* next holds up to n (the loops of ClosureFunctionValue::call).
LEMMA CountingUp ==
  ASSUME NEW n \in Nat, NEW S, 0 \in S,
         \A i \in 0 .. n : i < n /\ i \in S => i + 1 \in S
  PROVE  0 .. n \subseteq S
<1> DEFINE T == (0 .. n) \ S
<1> SUFFICES ASSUME T # {} PROVE FALSE
  OBVIOUS
<1>1. T \in SUBSET Nat
  OBVIOUS
<1>2. PICK m \in T : \A k \in T : m <= k
  <2> HIDE DEF T
  <2> QED BY <1>1, LeastNatural
<1>3. m \in 0 .. n /\ m \notin S /\ m # 0
  BY <1>2
<1>4. m - 1 \in 0 .. n /\ m - 1 < n /\ (m - 1) + 1 = m
  BY <1>3
<1>5. m - 1 \in S
  BY <1>2, <1>4
<1> QED BY <1>3, <1>4, <1>5

-----------------------------------------------------------------------------
(* Remainders: the byte count of CollectedHeap is kept modulo 2^64.        *)

LEMMA RemainderRange ==
  ASSUME NEW W \in Nat \ {0}, NEW a \in Int
  PROVE  a % W \in 0 .. W - 1
OBVIOUS

LEMMA RemainderUnique ==
  ASSUME NEW W \in Nat \ {0}, NEW q \in Int, NEW r \in 0 .. W - 1
  PROVE  (q * W + r) % W = r
OBVIOUS

LEMMA QuotientExists ==
  ASSUME NEW W \in Nat \ {0}, NEW a \in Int
  PROVE  \E q \in Int : a = q * W + (a % W)
<1>1. a \div W \in Int /\ a = (a \div W) * W + (a % W)
  OBVIOUS
<1> QED BY <1>1

\* A number below the modulus is its own remainder.
LEMMA RemainderSmall ==
  ASSUME NEW W \in Nat \ {0}, NEW a \in 0 .. W - 1
  PROVE  a % W = a
OBVIOUS

\* Multiples of the modulus do not count.
LEMMA RemainderShift ==
  ASSUME NEW W \in Nat \ {0}, NEW a \in Int, NEW q \in Int
  PROVE  (a + q * W) % W = a % W
<1>1. PICK k \in Int : a = k * W + (a % W)
  BY QuotientExists
<1>2. a % W \in 0 .. W - 1 /\ k + q \in Int
  BY RemainderRange
<1>3. a + q * W = (k + q) * W + (a % W)
  <2>1. \A r \in Int : (k * W + r) + q * W = (k + q) * W + r
    OBVIOUS
  <2>2. a % W \in Int
    BY <1>2
  <2> QED BY <1>1, <2>1, <2>2
<1> QED BY <1>2, <1>3, RemainderUnique

\* Adding to a remainder, as increaseSize does.
LEMMA RemainderAdd ==
  ASSUME NEW W \in Nat \ {0}, NEW a \in Int, NEW b \in Int
  PROVE  ((a % W) + b) % W = (a + b) % W
<1>1. PICK k \in Int : a = k * W + (a % W)
  BY QuotientExists
<1>2. a % W \in Int
  BY RemainderRange
<1>3. a + b = ((a % W) + b) + k * W
  <2>1. k * W \in Int
    OBVIOUS
  <2>2. \A r, p \in Int : (p + r) + b = (r + b) + p
    OBVIOUS
  <2> QED BY <1>1, <1>2, <2>1, <2>2
<1>4. (a % W) + b \in Int
  BY <1>2
<1> QED BY <1>3, <1>4, RemainderShift

\* Subtracting from one, as decreaseSize does.
LEMMA RemainderSubtract ==
  ASSUME NEW W \in Nat \ {0}, NEW a \in Int, NEW b \in Int
  PROVE  ((a % W) + (W - (b % W))) % W = (a - b) % W
<1>1. PICK k \in Int : b = k * W + (b % W)
  BY QuotientExists
<1>2. PICK p \in Int : p = a % W
  BY RemainderRange
<1>3. PICK r \in Int : r = b % W
  BY RemainderRange
<1>4. p + (-b) \in Int /\ k + 1 \in Int /\ -b \in Int
  OBVIOUS
<1>5. (p + (W - r)) % W = (p + (-b)) % W
  <2>1. b = k * W + r
    BY <1>1, <1>3
  <2>2. p + (W - r) = (p + (-(k * W + r))) + (k + 1) * W
    OBVIOUS
  <2>3. p + (W - r) = (p + (-b)) + (k + 1) * W
    BY <2>1, <2>2
  <2>4. \A x \in Int, q \in Int : (x + q * W) % W = x % W
    BY RemainderShift
  <2>5. ((p + (-b)) + (k + 1) * W) % W = (p + (-b)) % W
    BY <1>4, <2>4, Zenon
  <2> QED BY <2>3, <2>5
<1>6. ((a % W) + (-b)) % W = (a + (-b)) % W
  BY <1>4, RemainderAdd
<1>7. a + (-b) = a - b
  OBVIOUS
<1> QED BY <1>2, <1>3, <1>5, <1>6, <1>7
=============================================================================
