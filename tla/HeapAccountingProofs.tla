-------------------------- MODULE HeapAccountingProofs --------------------------
(* What the byte count of CollectedHeap is, for any sizes, any number of   *)
(* objects and any mix of collections.                                     *)
EXTENDS HeapAccounting, NumberLemmas, FiniteSetTheorems, TLAPS

-----------------------------------------------------------------------------
(* Sums over finite sets.                                                  *)

\* Induction over a set of sets: what passes to a set from the sets that have one
\* element less holds of all parts of a finite set.
LEMMA PartsInduction ==
  ASSUME NEW S, IsFiniteSet(S), NEW F,
         \A s \in SUBSET S : (\A x \in s : s \ {x} \in F) => s \in F
  PROVE  SUBSET S \subseteq F
<1> DEFINE n == Cardinality(S)
           T == {m \in 0 .. n : \A s \in SUBSET S : Cardinality(s) <= m => s \in F}
<1>1. n \in Nat /\ \A s \in SUBSET S : /\ IsFiniteSet(s) /\ Cardinality(s) \in Nat
                                       /\ Cardinality(s) <= n
  BY FS_CardinalityType, FS_Subset
<1> HIDE DEF n
<1>2. 0 \in T
  <2>1. ASSUME NEW s \in SUBSET S, Cardinality(s) <= 0 PROVE s \in F
    <3>1. Cardinality(s) = 0
      BY <1>1, <2>1
    <3>2. s = {}
      BY <1>1, <3>1, FS_EmptySet
    <3> QED BY <3>2
  <2>2. 0 \in 0 .. n
    BY <1>1
  <2> QED BY <2>1, <2>2
<1>3. ASSUME NEW m \in 0 .. n, m < n, m \in T PROVE m + 1 \in T
  <2>1. ASSUME NEW s \in SUBSET S, Cardinality(s) <= m + 1 PROVE s \in F
    <3>1. ASSUME NEW x \in s PROVE s \ {x} \in F
      <4>1. Cardinality(s \ {x}) = Cardinality(s) - 1 /\ s \ {x} \in SUBSET S
        BY <1>1, FS_RemoveElement
      <4>2. Cardinality(s \ {x}) <= m
        BY <1>1, <2>1, <4>1
      <4> QED BY <1>3, <4>1, <4>2
    <3> QED BY <3>1
  <2>2. m + 1 \in 0 .. n
    BY <1>1, <1>3
  <2> QED BY <2>1, <2>2
<1>4. n \in T
  <2> HIDE DEF T
  <2>1. 0 .. n \subseteq T
    BY <1>1, <1>2, <1>3, CountingUp
  <2> QED BY <1>1, <2>1
<1> QED BY <1>1, <1>4

\* The fold that Sizes is, for objects w.
Pick(s) == CHOOSE x \in s : TRUE

SumRule(it, w, s) == IF s = {} THEN 0 ELSE w[Pick(s)].bytes + it[s \ {Pick(s)}]

IsSum(it, w, S) == it = [s \in SUBSET S |-> SumRule(it, w, s)]

SumOf(w, S) == (CHOOSE it : IsSum(it, w, S))[S]

LEMMA SizesAreSums == \A S : Sizes(S) = SumOf(objects, S)
BY DEF Sizes, MapThenSumSet, MapThenFoldSet, SumOf, IsSum, SumRule, Pick

LEMMA PickIsMember ==
  ASSUME NEW s, s # {}
  PROVE  Pick(s) \in s
BY DEF Pick

\* The recursion of the fold defines something.
LEMMA SumExists ==
  ASSUME NEW S, IsFiniteSet(S), NEW w
  PROVE  \E it : IsSum(it, w, S)
<1> DEFINE n == Cardinality(S)
           D(m) == {s \in SUBSET S : Cardinality(s) <= m}
           Upto(m, it) == it = [s \in D(m) |-> SumRule(it, w, s)]
           T == {m \in 0 .. n : \E it : Upto(m, it)}
<1>1. n \in Nat /\ \A s \in SUBSET S : /\ IsFiniteSet(s) /\ Cardinality(s) \in Nat
                                       /\ Cardinality(s) <= n
  BY FS_CardinalityType, FS_Subset
<1> HIDE DEF n
<1>2. \A s \in SUBSET S : s # {} =>
        /\ s \ {Pick(s)} \in SUBSET S
        /\ Cardinality(s \ {Pick(s)}) = Cardinality(s) - 1
  BY <1>1, PickIsMember, FS_RemoveElement
<1>3. 0 \in T
  <2> DEFINE it == [s \in D(0) |-> 0]
  <2>1. \A s \in D(0) : s = {}
    <3>1. \A s \in D(0) : IsFiniteSet(s) /\ Cardinality(s) = 0
      BY <1>1
    <3> QED BY <3>1, FS_EmptySet
  <2>2. \A s \in D(0) : SumRule(it, w, s) = 0
    BY <2>1 DEF SumRule
  <2>3. Upto(0, it) /\ 0 \in 0 .. n
    BY <1>1, <2>2
  <2> HIDE DEF it, Upto
  <2> QED BY <2>3
<1>4. ASSUME NEW m \in 0 .. n, m < n, m \in T PROVE m + 1 \in T
  <2>1. PICK A : Upto(m, A)
    BY <1>4
  <2> DEFINE B == [s \in D(m + 1) |-> SumRule(A, w, s)]
  <2>2. \A s \in D(m) : A[s] = SumRule(A, w, s)
    BY <2>1
  <2>3. \A s \in D(m + 1) : B[s] = SumRule(A, w, s)
    OBVIOUS
  <2>4. D(m) \subseteq D(m + 1)
    BY <1>1
  <2>5. \A s \in D(m + 1) : s # {} => s \ {Pick(s)} \in D(m)
    BY <1>1, <1>2
  <2> HIDE DEF D
  <2>6. \A s \in D(m) : B[s] = A[s]
    <3> HIDE DEF B
    <3> QED BY <2>2, <2>3, <2>4
  <2>7. \A s \in D(m + 1) : SumRule(B, w, s) = SumRule(A, w, s)
    <3> HIDE DEF B
    <3> QED BY <2>5, <2>6 DEF SumRule
  <2>8. Upto(m + 1, B)
    <3>1. B = [s \in D(m + 1) |-> B[s]]
      OBVIOUS
    <3> HIDE DEF B
    <3> QED BY <2>3, <2>7, <3>1
  <2>9. m + 1 \in 0 .. n
    BY <1>1, <1>4
  <2> HIDE DEF B, Upto
  <2> QED BY <2>8, <2>9
<1>5. n \in T
  <2> HIDE DEF T
  <2>1. 0 .. n \subseteq T
    BY <1>1, <1>3, <1>4, CountingUp
  <2> QED BY <1>1, <2>1
<1>6. D(n) = SUBSET S
  BY <1>1
<1> QED BY <1>5, <1>6 DEF IsSum

LEMMA SumsAreNatural ==
  ASSUME NEW S, IsFiniteSet(S), NEW w, \A x \in S : w[x].bytes \in Nat,
         NEW it, IsSum(it, w, S)
  PROVE  \A s \in SUBSET S : it[s] \in Nat
<1> DEFINE F == {s \in SUBSET S : it[s] \in Nat}
<1>1. \A s \in SUBSET S : it[s] = SumRule(it, w, s)
  BY DEF IsSum
<1>2. ASSUME NEW s \in SUBSET S, \A x \in s : s \ {x} \in F PROVE s \in F
  <2>1. CASE s = {}
    BY <1>1, <2>1 DEF SumRule
  <2>2. CASE s # {}
    <3>1. Pick(s) \in s
      BY <2>2, PickIsMember
    <3>2. it[s \ {Pick(s)}] \in Nat /\ w[Pick(s)].bytes \in Nat
      BY <1>2, <3>1
    <3>3. it[s] = w[Pick(s)].bytes + it[s \ {Pick(s)}]
      BY <1>1, <2>2 DEF SumRule
    <3>4. it[s] \in Nat
      BY <3>2, <3>3
    <3> QED BY <3>4
  <2> QED BY <2>1, <2>2
<1>3. SUBSET S \subseteq F
  <2> HIDE DEF F
  <2> QED BY <1>2, PartsInduction
<1> QED BY <1>3

AnyFirst(it, w, s) == \A x \in s : it[s] = w[x].bytes + it[s \ {x}]

\* Whatever element is taken out first, the rest adds up to the rest.
LEMMA AnyElementFirst ==
  ASSUME NEW S, IsFiniteSet(S), NEW w, \A x \in S : w[x].bytes \in Nat,
         NEW it, IsSum(it, w, S)
  PROVE  \A s \in SUBSET S : AnyFirst(it, w, s)
<1> DEFINE P(s) == \A x \in s : it[s] = w[x].bytes + it[s \ {x}]
           F == {s \in SUBSET S : P(s)}
<1>0. \A s \in SUBSET S : it[s] \in Nat
  BY SumsAreNatural
<1>1. \A s \in SUBSET S : it[s] = SumRule(it, w, s)
  BY DEF IsSum
<1>2. ASSUME NEW s \in SUBSET S, s # {}, \A x \in s : s \ {x} \in F PROVE s \in F
  <2> DEFINE c == Pick(s)
  <2>1. c \in s
    BY <1>2, PickIsMember
  <2>2. it[s] = w[c].bytes + it[s \ {c}]
    BY <1>1, <1>2 DEF SumRule
  <2> HIDE DEF c
  <2>3. ASSUME NEW x \in s, x # c PROVE it[s] = w[x].bytes + it[s \ {x}]
    <3> DEFINE t == (s \ {c}) \ {x}
    <3>1. P(s \ {x}) /\ P(s \ {c})
      BY <1>2, <2>1
    <3>2. it[s \ {c}] = w[x].bytes + it[t]
      BY <2>3, <3>1
    <3>3. it[s \ {x}] = w[c].bytes + it[t]
      <4>1. t = (s \ {x}) \ {c}
        OBVIOUS
      <4> HIDE DEF t
      <4> QED BY <2>1, <2>3, <3>1, <4>1
    <3>4. t \in SUBSET S
      OBVIOUS
    <3> HIDE DEF t
    <3>5. it[t] \in Nat /\ w[c].bytes \in Nat /\ w[x].bytes \in Nat
      BY <1>0, <2>1, <3>4
    <3>6. \A i, j, k \in Nat : i + (j + k) = j + (i + k)
      OBVIOUS
    <3> QED BY <2>2, <3>2, <3>3, <3>5, <3>6
  <2> QED BY <2>2, <2>3
<1>3. SUBSET S \subseteq F
  <2>1. \A s \in SUBSET S : s = {} => s \in F
    OBVIOUS
  <2> HIDE DEF F
  <2> QED BY <1>2, <2>1, PartsInduction
<1> QED BY <1>3 DEF AnyFirst

\* Two sums agree on the parts that both range over, when the sizes do.
LEMMA SumsAgree ==
  ASSUME NEW S, NEW R, R \subseteq S, IsFiniteSet(R), NEW w, NEW v,
         \A x \in R : w[x].bytes = v[x].bytes,
         NEW it, IsSum(it, w, S), NEW jt, IsSum(jt, v, R)
  PROVE  \A s \in SUBSET R : it[s] = jt[s]
<1> DEFINE F == {s \in SUBSET R : it[s] = jt[s]}
<1>1. \A s \in SUBSET R : it[s] = SumRule(it, w, s) /\ jt[s] = SumRule(jt, v, s)
  BY DEF IsSum
<1>2. ASSUME NEW s \in SUBSET R, \A x \in s : s \ {x} \in F PROVE s \in F
  <2>1. CASE s = {}
    BY <1>1, <2>1 DEF SumRule
  <2>2. CASE s # {}
    <3>1. Pick(s) \in s
      BY <2>2, PickIsMember
    <3>2. it[s \ {Pick(s)}] = jt[s \ {Pick(s)}] /\ w[Pick(s)].bytes = v[Pick(s)].bytes
      BY <1>2, <3>1
    <3> QED BY <1>1, <2>2, <3>2 DEF SumRule
  <2> QED BY <2>1, <2>2
<1>3. SUBSET R \subseteq F
  <2> HIDE DEF F
  <2> QED BY <1>2, PartsInduction
<1> QED BY <1>3

LEMMA SumOfIsSum ==
  ASSUME NEW S, IsFiniteSet(S), NEW w
  PROVE  \E it : IsSum(it, w, S) /\ SumOf(w, S) = it[S]
BY SumExists DEF SumOf

LEMMA SumOfNothing ==
  ASSUME NEW w
  PROVE  SumOf(w, {}) = 0
<1>1. PICK it : IsSum(it, w, {}) /\ SumOf(w, {}) = it[{}]
  BY SumOfIsSum, FS_EmptySet
<1>2. it[{}] = SumRule(it, w, {})
  BY <1>1 DEF IsSum
<1> QED BY <1>1, <1>2 DEF SumRule

\* An element can be taken out of the sum.
LEMMA SumWithout ==
  ASSUME NEW S, IsFiniteSet(S), NEW w, \A x \in S : w[x].bytes \in Nat
  PROVE  /\ SumOf(w, S) \in Nat
         /\ \A x \in S : SumOf(w, S) = w[x].bytes + SumOf(w, S \ {x})
<1>1. PICK it : IsSum(it, w, S) /\ SumOf(w, S) = it[S]
  BY SumOfIsSum
<1>2. it[S] \in Nat /\ \A x \in S : it[S] = w[x].bytes + it[S \ {x}]
  <2>1. S \in SUBSET S
    OBVIOUS
  <2>2. \A s \in SUBSET S : it[s] \in Nat
    BY <1>1, SumsAreNatural
  <2>3. \A s \in SUBSET S : AnyFirst(it, w, s)
    BY <1>1, AnyElementFirst
  <2> QED BY <2>1, <2>2, <2>3 DEF AnyFirst
<1>3. ASSUME NEW x \in S PROVE it[S \ {x}] = SumOf(w, S \ {x})
  <2> DEFINE R == S \ {x}
  <2>1. IsFiniteSet(R) /\ R \subseteq S
    BY FS_RemoveElement
  <2> HIDE DEF R
  <2>2. PICK jt : IsSum(jt, w, R) /\ SumOf(w, R) = jt[R]
    BY <2>1, SumOfIsSum
  <2>3. it[R] = jt[R]
    BY <1>1, <2>1, <2>2, SumsAgree
  <2> USE DEF R
  <2> QED BY <2>2, <2>3
<1> QED BY <1>1, <1>2, <1>3

LEMMA SumWithoutOne ==
  ASSUME NEW S, IsFiniteSet(S), NEW w, \A x \in S : w[x].bytes \in Nat, NEW o \in S
  PROVE  SumOf(w, S) = w[o].bytes + SumOf(w, S \ {o})
BY SumWithout

\* Only the sizes of its elements matter to a sum.
LEMMA SumOfSame ==
  ASSUME NEW S, IsFiniteSet(S), NEW w, NEW v, \A x \in S : w[x].bytes = v[x].bytes
  PROVE  SumOf(w, S) = SumOf(v, S)
<1>1. PICK it : IsSum(it, w, S) /\ SumOf(w, S) = it[S]
  BY SumOfIsSum
<1>2. PICK jt : IsSum(jt, v, S) /\ SumOf(v, S) = jt[S]
  BY SumOfIsSum
<1>3. \A s \in SUBSET S : it[s] = jt[s]
  BY <1>1, <1>2, SumsAgree
<1> QED BY <1>1, <1>2, <1>3

\* The sum over a set is that over a part and that over the rest.
LEMMA SumSplits ==
  ASSUME NEW S, IsFiniteSet(S), NEW w, \A x \in S : w[x].bytes \in Nat,
         NEW B \in SUBSET S
  PROVE  SumOf(w, S) = SumOf(w, B) + SumOf(w, S \ B)
<1> DEFINE A == S \ B
           F == {s \in SUBSET B : SumOf(w, A \cup s) = SumOf(w, s) + SumOf(w, A)}
<1>0. /\ \A s \in SUBSET S : IsFiniteSet(s)
      /\ \A s \in SUBSET S : SumOf(w, s) \in Nat
      /\ \A s \in SUBSET S : \A x \in s : SumOf(w, s) = w[x].bytes + SumOf(w, s \ {x})
  <2>1. \A s \in SUBSET S : IsFiniteSet(s)
    BY FS_Subset
  <2>2. ASSUME NEW s \in SUBSET S
        PROVE  /\ SumOf(w, s) \in Nat
               /\ \A x \in s : SumOf(w, s) = w[x].bytes + SumOf(w, s \ {x})
    <3>1. IsFiniteSet(s) /\ \A x \in s : w[x].bytes \in Nat
      BY <2>1
    <3> QED BY <3>1, SumWithout
  <2> QED BY <2>1, <2>2
<1>1. ASSUME NEW s \in SUBSET B, \A x \in s : s \ {x} \in F PROVE s \in F
  <2>0. A \cup s \in SUBSET S /\ s \in SUBSET S /\ A \in SUBSET S
    OBVIOUS
  <2>1. CASE s = {}
    <3>1. SumOf(w, s) = 0 /\ A \cup s = A
      BY <2>1, SumOfNothing
    <3>2. SumOf(w, A) \in Nat
      BY <1>0
    <3>3. SumOf(w, A \cup s) = SumOf(w, s) + SumOf(w, A)
      <4> HIDE DEF A
      <4>1. SumOf(w, A \cup s) = SumOf(w, A)
        BY <3>1, Zenon
      <4>2. \A n \in Nat : n = 0 + n
        OBVIOUS
      <4> QED BY <3>1, <3>2, <4>1, <4>2, Zenon
    <3> QED BY <3>3
  <2>2. CASE s # {}
    <3>1. PICK x \in s : TRUE
      BY <2>2
    <3>2. (A \cup s) \ {x} = A \cup (s \ {x}) /\ x \in A \cup s /\ s \ {x} \in SUBSET S
      BY <3>1
    <3>3. SumOf(w, A \cup (s \ {x})) = SumOf(w, s \ {x}) + SumOf(w, A)
      BY <1>1, <3>1
    <3> HIDE DEF A
    <3>4. /\ SumOf(w, A \cup s) = w[x].bytes + SumOf(w, A \cup (s \ {x}))
          /\ SumOf(w, s) = w[x].bytes + SumOf(w, s \ {x})
      BY <1>0, <2>0, <3>1, <3>2
    <3>5. /\ SumOf(w, A) \in Nat /\ SumOf(w, s \ {x}) \in Nat /\ w[x].bytes \in Nat
      BY <1>0, <2>0, <3>1, <3>2
    <3> QED BY <3>3, <3>4, <3>5
  <2> QED BY <2>1, <2>2
<1>2. SUBSET B \subseteq F
  <2>1. IsFiniteSet(B)
    BY <1>0
  <2> HIDE DEF F
  <2> QED BY <1>1, <2>1, PartsInduction
<1>3. SumOf(w, A \cup B) = SumOf(w, B) + SumOf(w, A)
  BY <1>2
<1>4. A \cup B = S
  OBVIOUS
<1> QED BY <1>3, <1>4
-----------------------------------------------------------------------------
(* What exists takes.                                                      *)

FootprintOf(w) == HeapSize + SumOf(w, DOMAIN w) + Cardinality(DOMAIN w) * PointerSize

Sized(w) ==
  /\ IsFiniteSet(DOMAIN w)
  /\ \A o \in DOMAIN w : w[o].class \in Classes /\ w[o].bytes \in Nat

LEMMA ConstantsAreNatural ==
  /\ PointerSize \in Nat /\ EntrySize \in Nat /\ MaxExcess \in Nat /\ HeapSize \in Nat
  /\ MaxLength \in Nat /\ MaxCaptured \in Nat /\ MaxEntries \in Nat
  /\ OVERHEAD_FACTOR \in Nat /\ CollectionLimit \in Nat /\ MaxBytes \in Nat
  /\ WordModulus \in Nat \ {0} /\ TruncModulus \in Nat \ {0}
  /\ \A class \in Classes : SizeOf[class] \in Nat
<1>1. /\ {PointerSize, EntrySize, MaxExcess, HeapSize, MaxLength, MaxCaptured, MaxEntries,
         OVERHEAD_FACTOR, GC_THRASH_THRESHOLD, CollectionLimit, MaxBytes} \subseteq Nat
      /\ {WordModulus, TruncModulus} \subseteq Nat \ {0}
  BY AccountingAssumption
<1>2. \A class \in Classes : SizeOf[class] \in Nat
  BY AccountingAssumption
<1>3. /\ PointerSize \in Nat /\ EntrySize \in Nat /\ MaxExcess \in Nat /\ HeapSize \in Nat
      /\ MaxLength \in Nat /\ MaxCaptured \in Nat /\ MaxEntries \in Nat
  BY <1>1, Zenon
<1>4. /\ OVERHEAD_FACTOR \in Nat /\ CollectionLimit \in Nat /\ MaxBytes \in Nat
      /\ WordModulus \in Nat \ {0} /\ TruncModulus \in Nat \ {0}
  BY <1>1, Zenon
<1> QED BY <1>2, <1>3, <1>4

LEMMA FootprintsAre ==
  Footprint = FootprintOf(objects) /\ Footprint' = FootprintOf(objects')
BY DEF Footprint, FootprintOf, Live, Sizes, MapThenSumSet, MapThenFoldSet,
       SumOf, IsSum, SumRule, Pick

LEMMA SizesPart ==
  ASSUME NEW w, Sized(w), NEW S \in SUBSET DOMAIN w
  PROVE  IsFiniteSet(S) /\ SumOf(w, S) \in Nat /\ Cardinality(S) \in Nat
<1>1. IsFiniteSet(S) /\ \A x \in S : w[x].bytes \in Nat
  BY FS_Subset DEF Sized
<1> QED BY <1>1, SumWithout, FS_CardinalityType

LEMMA FootprintIsNatural ==
  ASSUME NEW w, Sized(w)
  PROVE  FootprintOf(w) \in Nat
<1>1. SumOf(w, DOMAIN w) \in Nat /\ Cardinality(DOMAIN w) \in Nat
  BY SizesPart
<1>2. \A a, b \in Nat : HeapSize + a + b * PointerSize \in Nat
  BY ConstantsAreNatural
<1> QED BY <1>1, <1>2 DEF FootprintOf

Extends(v, w, o, class, bytes) ==
  v = [p \in DOMAIN w \cup {o} |->
         IF p = o THEN [class |-> class, bytes |-> bytes] ELSE w[p]]

\* allocate adds the size of the new object and a pointer on a list.
LEMMA Grown ==
  ASSUME NEW w, Sized(w), NEW o, o \notin DOMAIN w, NEW class \in Classes,
         NEW bytes \in Nat, NEW v, Extends(v, w, o, class, bytes)
  PROVE  Sized(v) /\ FootprintOf(v) = FootprintOf(w) + (bytes + PointerSize)
<1> DEFINE S == DOMAIN w
           T == DOMAIN v
<1>1. T = S \cup {o} /\ v[o].bytes = bytes /\ v[o].class = class
  BY DEF Extends
<1>2. \A p \in S : v[p] = w[p]
  BY DEF Extends
<1>3. IsFiniteSet(T) /\ Cardinality(T) = Cardinality(S) + 1
  BY <1>1, FS_AddElement DEF Sized
<1>4. \A x \in T : v[x].class \in Classes /\ v[x].bytes \in Nat
  BY <1>1, <1>2 DEF Sized
<1>5. Sized(v)
  BY <1>3, <1>4 DEF Sized
<1>6. SumOf(v, T) = v[o].bytes + SumOf(v, T \ {o})
  <2>1. o \in T /\ \A x \in T : v[x].bytes \in Nat
    BY <1>1, <1>4
  <2> HIDE DEF T
  <2> QED BY <1>3, <2>1, SumWithoutOne
<1>7. T \ {o} = S
  BY <1>1
<1>8. SumOf(v, S) = SumOf(w, S)
  BY <1>2, SumOfSame DEF Sized
<1>9. SumOf(v, T) = bytes + SumOf(w, S)
  <2> HIDE DEF S, T
  <2> QED BY <1>1, <1>6, <1>7, <1>8, Zenon
<1>10. SumOf(w, S) \in Nat /\ Cardinality(S) \in Nat
  BY SizesPart
<1>11. \A a, c \in Nat : HeapSize + (bytes + a) + (c + 1) * PointerSize
                           = (HeapSize + a + c * PointerSize) + (bytes + PointerSize)
  BY ConstantsAreNatural
<1>12. /\ FootprintOf(v) = HeapSize + SumOf(v, T) + Cardinality(T) * PointerSize
       /\ FootprintOf(w) = HeapSize + SumOf(w, S) + Cardinality(S) * PointerSize
  BY DEF FootprintOf
<1> HIDE DEF S, T
<1>13. FootprintOf(v) = FootprintOf(w) + (bytes + PointerSize)
  BY <1>3, <1>9, <1>10, <1>11, <1>12
<1> QED BY <1>5, <1>13

\* A new entry of a record.
LEMMA Widened ==
  ASSUME NEW w, Sized(w), NEW o \in DOMAIN w, NEW v,
         v = [w EXCEPT ![o] = [class |-> "record", bytes |-> w[o].bytes + EntrySize]]
  PROVE  /\ Sized(v) /\ DOMAIN v = DOMAIN w
         /\ FootprintOf(v) = FootprintOf(w) + EntrySize
<1> DEFINE S == DOMAIN w
<1>1. /\ DOMAIN v = S /\ v[o].bytes = w[o].bytes + EntrySize /\ v[o].class = "record"
      /\ \A p \in S \ {o} : v[p] = w[p]
  OBVIOUS
<1>2. w[o].bytes \in Nat /\ w[o].bytes + EntrySize \in Nat /\ "record" \in Classes
  BY ConstantsAreNatural DEF Sized, Classes
<1>3. \A x \in S : v[x].class \in Classes /\ v[x].bytes \in Nat
  BY <1>1, <1>2 DEF Sized
<1>4. IsFiniteSet(S)
  BY DEF Sized
<1>5. Sized(v)
  BY <1>1, <1>3, <1>4 DEF Sized
<1>6. SumOf(v, S) = v[o].bytes + SumOf(v, S \ {o})
  BY <1>3, <1>4, SumWithoutOne
<1>7. SumOf(w, S) = w[o].bytes + SumOf(w, S \ {o})
  BY <1>4, SumWithoutOne DEF Sized
<1>8. SumOf(v, S \ {o}) = SumOf(w, S \ {o}) /\ SumOf(w, S \ {o}) \in Nat
  <2>1. IsFiniteSet(S \ {o})
    BY <1>4, FS_RemoveElement
  <2>2. SumOf(w, S \ {o}) \in Nat
    BY SizesPart
  <2>3. \A p \in S \ {o} : v[p].bytes = w[p].bytes
    BY <1>1
  <2> QED BY <2>1, <2>2, <2>3, SumOfSame
<1>9. Cardinality(S) \in Nat
  BY SizesPart
<1>10. \A a, b, c \in Nat : HeapSize + ((b + EntrySize) + a) + c * PointerSize
                              = (HeapSize + (b + a) + c * PointerSize) + EntrySize
  BY ConstantsAreNatural
<1>11. /\ FootprintOf(v) = HeapSize + SumOf(v, S) + Cardinality(S) * PointerSize
       /\ FootprintOf(w) = HeapSize + SumOf(w, S) + Cardinality(S) * PointerSize
  BY <1>1 DEF FootprintOf
<1> QED BY <1>1, <1>2, <1>5, <1>6, <1>7, <1>8, <1>9, <1>10, <1>11

\* What the sizes and the list pointers of dead make, a sweep of them takes off.
LEMMA Swept ==
  ASSUME NEW w, Sized(w), NEW dead \in SUBSET DOMAIN w, NEW v,
         v = [o \in DOMAIN w \ dead |-> w[o]]
  PROVE  /\ Sized(v)
         /\ FootprintOf(w)
              = FootprintOf(v) + (SumOf(w, dead) + Cardinality(dead) * PointerSize)
<1> DEFINE S == DOMAIN w
           T == DOMAIN v
<1>1. T = S \ dead /\ \A p \in T : v[p] = w[p]
  OBVIOUS
<1>2. IsFiniteSet(S) /\ Cardinality(S) \in Nat /\ \A x \in S : w[x].bytes \in Nat
  BY FS_CardinalityType DEF Sized
<1>3. IsFiniteSet(T) /\ Cardinality(T) = Cardinality(S) - Cardinality(S \cap dead)
  BY <1>1, <1>2, FS_Difference
<1>4. S \cap dead = dead /\ T \in SUBSET S
  OBVIOUS
<1>5. Sized(v)
  BY <1>1, <1>3 DEF Sized
<1>6. SumOf(w, S) = SumOf(w, dead) + SumOf(w, S \ dead)
  BY <1>2, SumSplits
<1>7. SumOf(v, T) = SumOf(w, T)
  BY <1>1, <1>3, SumOfSame
<1>8. /\ SumOf(w, dead) \in Nat /\ SumOf(w, T) \in Nat
      /\ Cardinality(T) \in Nat /\ Cardinality(dead) \in Nat
  BY <1>4, SizesPart
<1>9. \A a, b, c, d \in Nat :
        HeapSize + (a + b) + (c + d) * PointerSize
          = (HeapSize + b + c * PointerSize) + (a + d * PointerSize)
  BY ConstantsAreNatural
<1>10. /\ FootprintOf(v) = HeapSize + SumOf(v, T) + Cardinality(T) * PointerSize
       /\ FootprintOf(w) = HeapSize + SumOf(w, S) + Cardinality(S) * PointerSize
  BY DEF FootprintOf
<1> HIDE DEF S, T
<1>11. Cardinality(S \cap dead) = Cardinality(dead) /\ SumOf(w, S \ dead) = SumOf(w, T)
  BY <1>1, <1>4, Zenon
<1>12. Cardinality(S) = Cardinality(T) + Cardinality(dead)
  BY <1>2, <1>3, <1>8, <1>11
<1> QED BY <1>5, <1>6, <1>7, <1>8, <1>9, <1>10, <1>11, <1>12
-----------------------------------------------------------------------------
(* The count.                                                              *)

\* The count that stands for n bytes.
Count(n) == (OVERHEAD_FACTOR * n) % WordModulus

\* increaseSize and decreaseSize, wrapping around as they may, keep the count of
\* the bytes that went in and out.
LEMMA Counting ==
  ASSUME NEW t \in Int, NEW n \in Int
  PROVE  /\ increaseSize(Count(t), n) = Count(t + n)
         /\ decreaseSize(Count(t), n) = Count(t - n)
         /\ Count(t) \in 0 .. WordModulus - 1
<1> DEFINE F == OVERHEAD_FACTOR
<1>0. F \in Nat /\ WordModulus \in Nat \ {0}
  BY ConstantsAreNatural
<1> HIDE DEF F
<1>1. /\ F * t \in Int /\ n * F \in Int
      /\ F * t + n * F = F * (t + n) /\ F * t - n * F = F * (t - n)
  BY <1>0
<1>2. (((F * t) % WordModulus) + n * F) % WordModulus = (F * t + n * F) % WordModulus
  BY <1>0, <1>1, RemainderAdd
<1>3. (((F * t) % WordModulus) + (WordModulus - ((n * F) % WordModulus))) % WordModulus
        = (F * t - n * F) % WordModulus
  BY <1>0, <1>1, RemainderSubtract
<1>4. (F * t) % WordModulus \in 0 .. WordModulus - 1
  BY <1>0, <1>1, RemainderRange
<1>5. /\ Count(t) = (F * t) % WordModulus
      /\ Count(t + n) = (F * (t + n)) % WordModulus
      /\ Count(t - n) = (F * (t - n)) % WordModulus
      /\ increaseSize(Count(t), n) = (Count(t) + n * F) % WordModulus
      /\ decreaseSize(Count(t), n)
           = (Count(t) + (WordModulus - ((n * F) % WordModulus))) % WordModulus
  BY DEF Count, F, increaseSize, decreaseSize
<1> QED BY <1>1, <1>2, <1>3, <1>4, <1>5

\* A count below 2^64 is exact.
LEMMA CountIsExact ==
  ASSUME NEW t \in Nat, OVERHEAD_FACTOR * t < WordModulus
  PROVE  Count(t) = OVERHEAD_FACTOR * t
<1>1. OVERHEAD_FACTOR * t \in Nat /\ WordModulus \in Nat \ {0}
  BY ConstantsAreNatural
<1>2. OVERHEAD_FACTOR * t \in 0 .. WordModulus - 1
  BY <1>1
<1> QED BY <1>1, <1>2, RemainderSmall DEF Count

LEMMA FactorIsMonotone ==
  ASSUME NEW a \in Int, NEW b \in Int, a <= b
  PROVE  OVERHEAD_FACTOR * a <= OVERHEAD_FACTOR * b
<1>1. PICK f \in Nat : f = OVERHEAD_FACTOR
  BY ConstantsAreNatural
<1>2. PICK d \in Nat : b = a + d
  <2>1. b - a \in Nat /\ b = a + (b - a)
    OBVIOUS
  <2> QED BY <2>1
<1>3. f * (a + d) = f * a + f * d /\ f * d \in Nat /\ f * a \in Int
  OBVIOUS
<1> QED BY <1>1, <1>2, <1>3

-----------------------------------------------------------------------------
(* The inductive invariant.                                                *)

\* Where nothing is taken off that was not counted, the drift is only upwards and
\* the count has not wrapped around.
CountedHasRoom ==
  NothingUncounted =>
    drift \in Nat /\ OVERHEAD_FACTOR * (Footprint + drift) < WordModulus

Accounted == TypeOK /\ IsFiniteSet(Live) /\ CountIsExplained /\ CountedHasRoom

LEMMA AccountedIs ==
  ASSUME Accounted
  PROVE  /\ Sized(objects) /\ Footprint \in Nat /\ drift \in Int
         /\ bytes_current = Count(Footprint + drift)
         /\ NothingUncounted =>
              /\ Footprint + drift \in Nat
              /\ OVERHEAD_FACTOR * (Footprint + drift) < WordModulus
              /\ bytes_current = OVERHEAD_FACTOR * (Footprint + drift)
<1>1. Sized(objects) /\ drift \in Int /\ bytes_current = Count(Footprint + drift)
  BY DEF Accounted, TypeOK, Sized, Live, CountIsExplained, Count
<1>2. Footprint \in Nat
  BY <1>1, FootprintIsNatural, FootprintsAre
<1>3. ASSUME NothingUncounted
      PROVE  /\ Footprint + drift \in Nat
             /\ OVERHEAD_FACTOR * (Footprint + drift) < WordModulus
             /\ bytes_current = OVERHEAD_FACTOR * (Footprint + drift)
  <2>1. drift \in Nat /\ OVERHEAD_FACTOR * (Footprint + drift) < WordModulus
    BY <1>3 DEF Accounted, CountedHasRoom
  <2>2. Footprint + drift \in Nat
    BY <1>2, <2>1
  <2> QED BY <1>1, <2>1, <2>2, CountIsExact
<1> QED BY <1>1, <1>2, <1>3

\* A step that counts n bytes more.
LEMMA Raises ==
  ASSUME Accounted, NEW n \in Nat, bytes_current <= MaxBytes,
         NothingUncounted => MaxBytes + OVERHEAD_FACTOR * n < WordModulus,
         bytes_current' = increaseSize(bytes_current, n), setting' = setting,
         Sized(objects'), drift' \in Int,
         Footprint' + drift' = (Footprint + drift) + n,
         NothingUncounted => drift' >= drift
  PROVE  /\ bytes_current' \in 0 .. WordModulus - 1
         /\ CountIsExplained' /\ CountedHasRoom'
<1> DEFINE t == Footprint + drift
<1>1. /\ t \in Int /\ bytes_current = Count(t)
      /\ NothingUncounted => /\ t \in Nat /\ OVERHEAD_FACTOR * t < WordModulus
                             /\ bytes_current = OVERHEAD_FACTOR * t
  BY AccountedIs
<1>2. Footprint' \in Nat
  BY FootprintIsNatural, FootprintsAre
<1>3. Footprint' + drift' = t + n
  OBVIOUS
<1> HIDE DEF t
<1>4. bytes_current' = Count(t + n) /\ Count(t + n) \in 0 .. WordModulus - 1
  <2>1. t + n \in Int
    BY <1>1
  <2> QED BY <1>1, <2>1, Counting
<1>5. CountIsExplained'
  BY <1>3, <1>4 DEF CountIsExplained, Count
<1>6. ASSUME NothingUncounted'
      PROVE  drift' \in Nat /\ OVERHEAD_FACTOR * (Footprint' + drift') < WordModulus
  <2>1. NothingUncounted
    BY <1>6 DEF NothingUncounted, StringTrees, AbsentReads
  <2>2. drift \in Nat
    BY <2>1 DEF Accounted, CountedHasRoom
  <2>3. drift' \in Nat
    BY <2>1, <2>2
  <2>4. OVERHEAD_FACTOR * (t + n) = OVERHEAD_FACTOR * t + OVERHEAD_FACTOR * n
    BY <1>1, ConstantsAreNatural
  <2>5. /\ OVERHEAD_FACTOR * t <= MaxBytes
        /\ MaxBytes + OVERHEAD_FACTOR * n < WordModulus
    BY <1>1, <2>1
  <2>6. OVERHEAD_FACTOR * n \in Nat /\ OVERHEAD_FACTOR * t \in Int /\ MaxBytes \in Nat
        /\ WordModulus \in Nat
    BY <1>1, ConstantsAreNatural
  <2>7. \A a \in Int, b, m, w \in Nat : a <= m /\ m + b < w => a + b < w
    OBVIOUS
  <2>8. OVERHEAD_FACTOR * t + OVERHEAD_FACTOR * n < WordModulus
    BY <2>5, <2>6, <2>7
  <2> QED BY <1>3, <2>3, <2>4, <2>8
<1>7. CountedHasRoom'
  BY <1>6 DEF CountedHasRoom
<1> QED BY <1>4, <1>5, <1>7

\* A step that counts n bytes less.
LEMMA Lowers ==
  ASSUME Accounted, NEW n \in Nat,
         bytes_current' = Count((Footprint + drift) - n), setting' = setting,
         Sized(objects'), drift' \in Int,
         Footprint' + drift' = (Footprint + drift) - n,
         NothingUncounted => drift' >= drift
  PROVE  /\ bytes_current' \in 0 .. WordModulus - 1
         /\ CountIsExplained' /\ CountedHasRoom'
         /\ NothingUncounted => bytes_current' <= bytes_current
<1> DEFINE t == Footprint + drift
<1>1. /\ t \in Int
      /\ NothingUncounted => /\ t \in Nat /\ OVERHEAD_FACTOR * t < WordModulus
                             /\ bytes_current = OVERHEAD_FACTOR * t
  BY AccountedIs
<1>2. Footprint' \in Nat
  BY FootprintIsNatural, FootprintsAre
<1>3. Footprint' + drift' = t - n /\ bytes_current' = Count(t - n)
  OBVIOUS
<1> HIDE DEF t
<1>4. t - n \in Int /\ Count(t - n) \in 0 .. WordModulus - 1
  <2>1. t - n \in Int
    BY <1>1
  <2> QED BY <2>1, Counting
<1>5. CountIsExplained'
  BY <1>3 DEF CountIsExplained, Count
<1>6. ASSUME NothingUncounted
      PROVE  /\ drift' \in Nat /\ OVERHEAD_FACTOR * (Footprint' + drift') < WordModulus
             /\ bytes_current' <= bytes_current
  <2>1. drift \in Nat
    BY <1>6 DEF Accounted, CountedHasRoom
  <2>2. drift' \in Nat
    BY <1>6, <2>1
  <2>3. t - n \in Nat
    BY <1>2, <1>3, <2>2
  <2>4. OVERHEAD_FACTOR * (t - n) <= OVERHEAD_FACTOR * t
    BY <1>1, <1>4, FactorIsMonotone
  <2>5. /\ OVERHEAD_FACTOR * (t - n) \in Int /\ OVERHEAD_FACTOR * t \in Int
        /\ WordModulus \in Nat
    BY <1>1, <1>4, ConstantsAreNatural
  <2>6. OVERHEAD_FACTOR * (t - n) < WordModulus
    BY <1>1, <1>6, <2>4, <2>5
  <2>7. Count(t - n) = OVERHEAD_FACTOR * (t - n)
    BY <2>3, <2>6, CountIsExact
  <2> QED BY <1>1, <1>3, <1>6, <2>2, <2>4, <2>6, <2>7
<1>7. CountedHasRoom'
  <2>1. NothingUncounted' = NothingUncounted
    BY DEF NothingUncounted, StringTrees, AbsentReads
  <2> QED BY <1>6, <2>1 DEF CountedHasRoom
<1> QED BY <1>3, <1>4, <1>5, <1>6, <1>7
-----------------------------------------------------------------------------
(* The steps.                                                              *)

Room(class) ==
  HeapSize + PointerSize + SizeOf[class] + MaxLength + 2 * (MaxCaptured * PointerSize)
    + EntrySize + MaxExcess

LEMMA ThereIsRoom ==
  ASSUME NEW class \in Classes, NEW n \in Nat, n <= Room(class)
  PROVE  MaxBytes + OVERHEAD_FACTOR * n < WordModulus
<1>1. Room(class) \in Nat /\ MaxBytes + OVERHEAD_FACTOR * Room(class) < WordModulus
  <2>1. MaxCaptured * PointerSize \in Nat
    BY ConstantsAreNatural
  <2>2. Room(class) \in Nat
    BY <2>1, ConstantsAreNatural DEF Room
  <2> QED BY <2>2, RoomAssumption DEF Room
<1>2. OVERHEAD_FACTOR * n <= OVERHEAD_FACTOR * Room(class)
  BY <1>1, FactorIsMonotone
<1>3. /\ OVERHEAD_FACTOR * n \in Nat /\ OVERHEAD_FACTOR * Room(class) \in Nat
      /\ MaxBytes \in Nat /\ WordModulus \in Nat
  BY <1>1, ConstantsAreNatural
<1> QED BY <1>1, <1>2, <1>3

\* A constructor counts what its class says, a closure its pointers twice.
LEMMA AllocateIsAccounted ==
  ASSUME Accounted, NEW o \in Objs \ Live, NEW class \in Classes, NEW bytes \in Nat,
         NEW captured \in Nat, Allocate(o, class, bytes, captured),
         class = "tree" => StringTrees /\ captured = 0,
         class \notin {"tree", "closure"} => captured = 0,
         bytes + captured * PointerSize + PointerSize <= Room(class)
  PROVE  Accounted'
<1> DEFINE c == captured * PointerSize
           n == Charge(class, bytes, captured) + PointerSize
<1>1. c \in Nat /\ PointerSize \in Nat /\ (captured = 0 => c = 0)
  BY ConstantsAreNatural
<1>2. /\ Sized(objects) /\ Footprint \in Nat /\ drift \in Int
  BY AccountedIs
<1>3. /\ Extends(objects', objects, o, class, bytes) /\ o \notin DOMAIN objects
      /\ DOMAIN objects' = DOMAIN objects \cup {o}
  BY DEF Extends, Allocate, Live
<1>4. Sized(objects') /\ Footprint' = Footprint + (bytes + PointerSize)
  <2>1. Sized(objects') /\ FootprintOf(objects') = FootprintOf(objects) + (bytes + PointerSize)
    BY <1>2, <1>3, Grown
  <2> QED BY <2>1, FootprintsAre
<1>5. drift' = drift + (IF class = "tree" THEN -bytes ELSE c)
  BY DEF Allocate
<1>6. Charge(class, bytes, captured) = IF class = "tree" THEN 0 ELSE bytes + c
  <2>1. CASE class = "tree"
    BY <2>1 DEF Charge
  <2>2. CASE class = "closure"
    BY <2>2 DEF Charge
  <2>3. CASE class \notin {"tree", "closure"}
    <3>1. c = 0
      BY <1>1, <2>3
    <3>2. Charge(class, bytes, captured) = bytes
      BY <2>3 DEF Charge
    <3> HIDE DEF c
    <3> QED BY <2>3, <3>1, <3>2
  <2> QED BY <2>1, <2>2, <2>3
<1>7. bytes_current' = increaseSize(bytes_current, n) /\ bytes_current <= MaxBytes
  BY DEF Allocate
<1>8. setting' = setting /\ old_heap_size' = old_heap_size
  BY DEF Allocate
<1>9. n \in Nat /\ n <= bytes + c + PointerSize
  <2> HIDE DEF c
  <2> QED BY <1>1, <1>6
<1>10. /\ drift' \in Int /\ Footprint' + drift' = (Footprint + drift) + n
       /\ NothingUncounted => drift' >= drift
  <2>1. NothingUncounted => class # "tree"
    BY DEF NothingUncounted
  <2> HIDE DEF c
  <2> QED BY <1>1, <1>2, <1>4, <1>5, <1>6, <2>1
<1>11. MaxBytes + OVERHEAD_FACTOR * n < WordModulus
  <2>1. n <= Room(class)
    <3>1. Room(class) \in Int
      BY <1>1, ConstantsAreNatural DEF Room
    <3>2. bytes + c + PointerSize \in Int
      BY <1>1
    <3> HIDE DEF n
    <3> QED BY <1>9, <3>1, <3>2
  <2> HIDE DEF n
  <2> QED BY <1>9, <2>1, ThereIsRoom
<1>12. /\ bytes_current' \in 0 .. WordModulus - 1
       /\ CountIsExplained' /\ CountedHasRoom'
  <2> HIDE DEF n
  <2> QED BY <1>4, <1>7, <1>8, <1>9, <1>10, <1>11, Raises
<1>13. Live' = Live \cup {o} /\ young' \in SUBSET Live'
  <2>1. Live' = Live \cup {o}
    BY <1>3 DEF Live
  <2>2. young' = young \/ young' = young \cup {o}
    BY DEF Allocate
  <2> QED BY <2>1, <2>2 DEF Accounted, TypeOK
<1>14. TypeOK'
  BY <1>4, <1>8, <1>10, <1>12, <1>13 DEF Accounted, TypeOK, Sized, Live
<1> QED BY <1>4, <1>12, <1>14 DEF Accounted, Sized, Live

LEMMA AllocationIsAccounted ==
  ASSUME Accounted, Allocation
  PROVE  Accounted'
<1>1. PICK o \in Objs \ Live :
        \/ \E class \in {"function", "record", "reference"} :
             Allocate(o, class, SizeOf[class], 0)
        \/ \E length \in 0 .. MaxLength :
             Allocate(o, "string", SizeOf["string"] + length, 0)
        \/ StringTrees /\ Allocate(o, "tree", SizeOf["tree"], 0)
        \/ \E n \in 0 .. MaxCaptured :
             Allocate(o, "closure", SizeOf["closure"] + n * PointerSize, n)
  BY DEF Allocation
<1>2. /\ MaxCaptured * PointerSize \in Nat /\ 0 * PointerSize = 0
      /\ PointerSize \in Nat /\ MaxLength \in Nat /\ HeapSize \in Nat
      /\ EntrySize \in Nat /\ MaxExcess \in Nat
      /\ \A class \in Classes : SizeOf[class] \in Nat
  BY ConstantsAreNatural
<1>3. \A class \in Classes :
        Room(class) = HeapSize + PointerSize + SizeOf[class] + MaxLength
                        + 2 * (MaxCaptured * PointerSize) + EntrySize + MaxExcess
  BY DEF Room
<1>4. ASSUME NEW class \in {"function", "record", "reference"},
             Allocate(o, class, SizeOf[class], 0)
      PROVE  Accounted'
  <2>1. class \in Classes /\ class \notin {"tree", "closure"}
    BY DEF Classes
  <2>2. SizeOf[class] \in Nat /\ SizeOf[class] + 0 * PointerSize + PointerSize <= Room(class)
    BY <1>2, <1>3, <2>1
  <2> QED BY <1>4, <2>1, <2>2, AllocateIsAccounted
<1>5. ASSUME NEW length \in 0 .. MaxLength,
             Allocate(o, "string", SizeOf["string"] + length, 0)
      PROVE  Accounted'
  <2>1. "string" \in Classes
    BY DEF Classes
  <2>2. /\ SizeOf["string"] + length \in Nat
        /\ (SizeOf["string"] + length) + 0 * PointerSize + PointerSize <= Room("string")
    BY <1>2, <1>3, <2>1
  <2> QED BY <1>5, <2>1, <2>2, AllocateIsAccounted
<1>6. ASSUME StringTrees, Allocate(o, "tree", SizeOf["tree"], 0)
      PROVE  Accounted'
  <2>1. "tree" \in Classes
    BY DEF Classes
  <2>2. SizeOf["tree"] \in Nat /\ SizeOf["tree"] + 0 * PointerSize + PointerSize <= Room("tree")
    BY <1>2, <1>3, <2>1
  <2> QED BY <1>6, <2>1, <2>2, AllocateIsAccounted
<1>7. ASSUME NEW n \in 0 .. MaxCaptured,
             Allocate(o, "closure", SizeOf["closure"] + n * PointerSize, n)
      PROVE  Accounted'
  <2>1. "closure" \in Classes
    BY DEF Classes
  <2>2. n * PointerSize \in Nat /\ n * PointerSize <= MaxCaptured * PointerSize
    <3>1. PICK d \in Nat : MaxCaptured = n + d
      <4>1. MaxCaptured - n \in Nat /\ MaxCaptured = n + (MaxCaptured - n)
        BY ConstantsAreNatural
      <4> QED BY <4>1
    <3>2. /\ (n + d) * PointerSize = n * PointerSize + d * PointerSize
          /\ d * PointerSize \in Nat /\ n * PointerSize \in Nat
      BY <1>2
    <3> QED BY <3>1, <3>2
  <2>3. \A p, m \in Nat : p <= m =>
          (SizeOf["closure"] + p) + p + PointerSize
            <= HeapSize + PointerSize + SizeOf["closure"] + MaxLength + 2 * m
                 + EntrySize + MaxExcess
    BY <1>2, <2>1
  <2>4. /\ SizeOf["closure"] + n * PointerSize \in Nat
        /\ (SizeOf["closure"] + n * PointerSize) + n * PointerSize + PointerSize
             <= Room("closure")
    BY <1>2, <1>3, <2>1, <2>2, <2>3
  <2> QED BY <1>7, <2>1, <2>4, AllocateIsAccounted
<1> QED BY <1>1, <1>4, <1>5, <1>6, <1>7

LEMMA EnterIsAccounted ==
  ASSUME Accounted, NEW o \in Live, NEW charged \in 0 .. EntrySize + MaxExcess,
         Enter(o, charged), NothingUncounted => charged >= EntrySize
  PROVE  Accounted'
<1>1. Sized(objects) /\ Footprint \in Nat /\ drift \in Int
  BY AccountedIs
<1>2. /\ objects' = [objects EXCEPT ![o] = [class |-> "record",
                                            bytes |-> objects[o].bytes + EntrySize]]
      /\ bytes_current' = increaseSize(bytes_current, charged)
      /\ bytes_current <= MaxBytes /\ drift' = drift + charged - EntrySize
      /\ setting' = setting /\ young' = young /\ old_heap_size' = old_heap_size
  BY DEF Enter
<1>3. /\ EntrySize \in Nat /\ MaxExcess \in Nat
      /\ charged \in Nat /\ charged <= EntrySize + MaxExcess
  BY ConstantsAreNatural
<1>4. Sized(objects') /\ Live' = Live /\ Footprint' = Footprint + EntrySize
  <2>1. /\ Sized(objects') /\ DOMAIN objects' = DOMAIN objects
        /\ FootprintOf(objects') = FootprintOf(objects) + EntrySize
    BY <1>1, <1>2, Widened DEF Live
  <2> QED BY <2>1, FootprintsAre DEF Live
<1>5. /\ drift' \in Int /\ Footprint' + drift' = (Footprint + drift) + charged
      /\ NothingUncounted => drift' >= drift
  BY <1>1, <1>2, <1>3, <1>4
<1>6. MaxBytes + OVERHEAD_FACTOR * charged < WordModulus
  <2>1. "record" \in Classes
    BY DEF Classes
  <2>2. MaxCaptured * PointerSize \in Nat
    BY ConstantsAreNatural
  <2>3. charged <= Room("record")
    BY <1>3, <2>1, <2>2, ConstantsAreNatural DEF Room
  <2> QED BY <1>3, <2>1, <2>3, ThereIsRoom
<1>7. /\ bytes_current' \in 0 .. WordModulus - 1
      /\ CountIsExplained' /\ CountedHasRoom'
  BY <1>2, <1>3, <1>4, <1>5, <1>6, Raises
<1>8. TypeOK'
  BY <1>2, <1>4, <1>5, <1>7 DEF Accounted, TypeOK, Sized, Live
<1> QED BY <1>4, <1>7, <1>8 DEF Accounted, Sized, Live
-----------------------------------------------------------------------------
(* Collections.                                                            *)

\* A collection of dead objects that leaves the count at that of everything, less n
\* bytes; dead is what it deletes and forgot the list pointers that gcFast forgets.
LEMMA SweepIsAccounted ==
  ASSUME Accounted, NEW dead \in SUBSET Live, NEW b, Collected(dead, b),
         NEW n \in Nat, b = Count((Footprint + drift) - n),
         NEW forgot \in Nat, drift' = drift + forgot,
         SumOf(objects, dead) + Cardinality(dead) * PointerSize = n + forgot
  PROVE  /\ Accounted'
         /\ NothingUncounted => bytes_current' <= bytes_current
<1>1. Sized(objects) /\ Footprint \in Nat /\ drift \in Int
  BY AccountedIs
<1>2. /\ objects' = [o \in DOMAIN objects \ dead |-> objects[o]] /\ young' = {}
      /\ bytes_current' = b /\ old_heap_size' = b % TruncModulus /\ setting' = setting
  BY DEF Collected, Live
<1>3. /\ Sized(objects') /\ Live' = Live \ dead
      /\ Footprint = Footprint' + (n + forgot)
  <2>1. /\ Sized(objects')
        /\ FootprintOf(objects)
             = FootprintOf(objects') + (SumOf(objects, dead) + Cardinality(dead) * PointerSize)
    BY <1>1, <1>2, Swept DEF Live
  <2>2. Live' = Live \ dead
    BY <1>2 DEF Live
  <2> QED BY <2>1, <2>2, FootprintsAre
<1>4. Footprint' \in Nat
  BY <1>3, FootprintIsNatural, FootprintsAre
<1>5. /\ drift' \in Int /\ Footprint' + drift' = (Footprint + drift) - n
      /\ NothingUncounted => drift' >= drift
  BY <1>1, <1>3, <1>4
<1>6. /\ bytes_current' \in 0 .. WordModulus - 1
      /\ CountIsExplained' /\ CountedHasRoom'
      /\ NothingUncounted => bytes_current' <= bytes_current
  BY <1>2, <1>3, <1>5, Lowers
<1>7. old_heap_size' \in 0 .. TruncModulus - 1
  <2>1. bytes_current' \in Int
    BY <1>6
  <2> QED BY <1>2, <2>1, RemainderRange, ConstantsAreNatural
<1>8. TypeOK'
  BY <1>2, <1>3, <1>5, <1>6, <1>7 DEF Accounted, TypeOK, Sized, Live
<1> QED BY <1>3, <1>6, <1>8 DEF Accounted, Sized, Live

\* The count after each kind of sweep, b standing for t bytes.
LEMMA SweepsCount ==
  ASSUME NEW t \in Int, NEW S, SumOf(objects, S) \in Nat, Cardinality(S) \in Nat
  PROVE  /\ CountAfterFast(Count(t), S) = Count(t - SumOf(objects, S))
         /\ CountAfterFull(Count(t), S)
              = Count(t - (SumOf(objects, S) + Cardinality(S) * PointerSize))
<1>1. Sizes(S) = SumOf(objects, S)
  BY SizesAreSums
<1>2. SumOf(objects, S) + Cardinality(S) * PointerSize \in Int
  BY ConstantsAreNatural
<1>3. decreaseSize(Count(t), SumOf(objects, S)) = Count(t - SumOf(objects, S))
  BY Counting
<1>4. decreaseSize(Count(t), SumOf(objects, S) + Cardinality(S) * PointerSize)
        = Count(t - (SumOf(objects, S) + Cardinality(S) * PointerSize))
  BY <1>2, Counting
<1> QED BY <1>1, <1>3, <1>4 DEF CountAfterFast, CountAfterFull

LEMMA CollectionIsAccounted ==
  ASSUME Accounted, Collection
  PROVE  /\ Accounted'
         /\ NothingUncounted => bytes_current' <= bytes_current
<1> DEFINE t == Footprint + drift
           sum(S) == SumOf(objects, S)
           ptr(S) == Cardinality(S) * PointerSize
<1>1. t \in Int /\ bytes_current = Count(t) /\ Sized(objects) /\ young \subseteq Live
  BY AccountedIs DEF Accounted, TypeOK
<1>2. \A S \in SUBSET Live : /\ IsFiniteSet(S) /\ sum(S) \in Nat
                             /\ Cardinality(S) \in Nat /\ ptr(S) \in Nat
  <2>1. \A S \in SUBSET Live : /\ IsFiniteSet(S) /\ sum(S) \in Nat
                               /\ Cardinality(S) \in Nat
    BY <1>1, SizesPart DEF Live
  <2> QED BY <2>1, ConstantsAreNatural
<1>3. \A S \in SUBSET Live : \A u \in Int :
        /\ CountAfterFast(Count(u), S) = Count(u - sum(S))
        /\ CountAfterFull(Count(u), S) = Count(u - (sum(S) + ptr(S)))
  BY <1>2, SweepsCount
<1>4. CASE FullCollection
  <2>1. PICK dead \in SUBSET Live : Collected(dead, CountAfterFull(bytes_current, dead))
    BY <1>4 DEF FullCollection
  <2>2. CountAfterFull(bytes_current, dead) = Count(t - (sum(dead) + ptr(dead)))
    BY <1>1, <1>3
  <2>3. drift' = drift + 0
    BY <1>4 DEF FullCollection, Accounted, TypeOK
  <2>4. sum(dead) + ptr(dead) \in Nat /\ sum(dead) + ptr(dead) = (sum(dead) + ptr(dead)) + 0
    BY <1>2
  <2> QED BY <2>1, <2>2, <2>3, <2>4, SweepIsAccounted
<1>5. CASE FastCollection
  <2>1. PICK dead \in SUBSET young :
          /\ Collected(dead, CountAfterFast(bytes_current, dead))
          /\ drift' = drift + Cardinality(dead) * PointerSize
    BY <1>5 DEF FastCollection
  <2>2. dead \in SUBSET Live
    BY <1>1
  <2>3. CountAfterFast(bytes_current, dead) = Count(t - sum(dead))
    BY <1>1, <1>3, <2>2
  <2>4. sum(dead) \in Nat /\ ptr(dead) \in Nat
    BY <1>2, <2>2
  <2> QED BY <2>1, <2>2, <2>3, <2>4, SweepIsAccounted
<1>6. CASE FastThenFullCollection
  <2>1. PICK dead \in SUBSET young :
          /\ drift' = drift + Cardinality(dead) * PointerSize
          /\ \E more \in SUBSET (Live \ dead) :
               Collected(dead \cup more,
                         CountAfterFull(CountAfterFast(bytes_current, dead), more))
    BY <1>6 DEF FastThenFullCollection
  <2>2. PICK more \in SUBSET (Live \ dead) :
          Collected(dead \cup more,
                    CountAfterFull(CountAfterFast(bytes_current, dead), more))
    BY <2>1
  <2> DEFINE all == dead \cup more
  <2>3. dead \in SUBSET Live /\ more \in SUBSET Live /\ all \in SUBSET Live
    BY <1>1
  <2>4. /\ sum(dead) \in Nat /\ ptr(dead) \in Nat /\ sum(more) \in Nat /\ ptr(more) \in Nat
        /\ Cardinality(dead) \in Nat /\ Cardinality(more) \in Nat
        /\ IsFiniteSet(dead) /\ IsFiniteSet(more) /\ IsFiniteSet(all)
    BY <1>2, <2>3
  <2>5. CountAfterFull(CountAfterFast(bytes_current, dead), more)
          = Count((t - sum(dead)) - (sum(more) + ptr(more)))
    <3>1. CountAfterFast(bytes_current, dead) = Count(t - sum(dead))
      BY <1>1, <1>3, <2>3
    <3>2. t - sum(dead) \in Int
      BY <1>1, <2>4
    <3> QED BY <1>3, <2>3, <3>1, <3>2
  <2>6. sum(all) = sum(dead) + sum(more)
    <3>1. all \ dead = more /\ dead \in SUBSET all
      OBVIOUS
    <3>2. \A x \in all : objects[x].bytes \in Nat
      BY <1>1, <2>3 DEF Sized, Live
    <3> HIDE DEF all
    <3>3. SumOf(objects, all) = SumOf(objects, dead) + SumOf(objects, all \ dead)
      BY <2>4, <3>1, <3>2, SumSplits
    <3> QED BY <3>1, <3>3, Zenon
  <2>7. ptr(all) = ptr(dead) + ptr(more)
    <3>1. Cardinality(all) = Cardinality(dead) + Cardinality(more) - Cardinality(dead \cap more)
      BY <2>4, FS_Union
    <3>2. Cardinality(dead \cap more) = 0
      <4>1. dead \cap more = {}
        OBVIOUS
      <4> QED BY <4>1, FS_EmptySet, Zenon
    <3>3. Cardinality(all) = Cardinality(dead) + Cardinality(more)
      <4> HIDE DEF all
      <4> QED BY <2>4, <3>1, <3>2
    <3>4. \A i, j \in Nat : (i + j) * PointerSize = i * PointerSize + j * PointerSize
      BY ConstantsAreNatural
    <3> HIDE DEF all
    <3> QED BY <2>4, <3>3, <3>4
  <2> DEFINE n == sum(dead) + (sum(more) + ptr(more))
  <2>8. /\ n \in Nat /\ (t - sum(dead)) - (sum(more) + ptr(more)) = t - n
        /\ sum(all) + ptr(all) = n + ptr(dead)
    <3> HIDE DEF all, sum, ptr, t
    <3> QED BY <1>1, <2>4, <2>6, <2>7
  <2>9. CountAfterFull(CountAfterFast(bytes_current, dead), more) = Count(t - n)
    <3> HIDE DEF sum, ptr, t, n
    <3> QED BY <2>5, <2>8
  <2>10. drift' = drift + ptr(dead)
    BY <2>1
  <2> DEFINE b == CountAfterFull(CountAfterFast(bytes_current, dead), more)
  <2>11. Collected(all, b) /\ b = Count((Footprint + drift) - n)
    BY <2>2, <2>9
  <2>12. SumOf(objects, all) + Cardinality(all) * PointerSize = n + ptr(dead)
    BY <2>8
  <2> HIDE DEF all, n, b, ptr
  <2> QED BY <2>3, <2>4, <2>8, <2>10, <2>11, <2>12, SweepIsAccounted
<1> QED BY <1>4, <1>5, <1>6 DEF Collection

-----------------------------------------------------------------------------
(* The theorems.                                                           *)

LEMMA InitiallyAccounted == Init => Accounted
<1> SUFFICES ASSUME Init PROVE Accounted
  OBVIOUS
<1>1. /\ setting \in Settings /\ objects = [o \in {} |-> {}] /\ young = {}
      /\ bytes_current = increaseSize(0, HeapSize) /\ old_heap_size = 0 /\ drift = 0
  BY DEF Init
<1>2. Live = {} /\ IsFiniteSet(Live) /\ Cardinality(Live) = 0
  BY <1>1, FS_EmptySet DEF Live
<1>3. Footprint = HeapSize
  <2>1. Sizes(Live) = 0
    BY <1>2, SizesAreSums, SumOfNothing
  <2> QED BY <1>2, <2>1, ConstantsAreNatural DEF Footprint
<1>4. /\ Count(0) = 0 /\ increaseSize(Count(0), HeapSize) = Count(0 + HeapSize)
      /\ Count(0 + HeapSize) \in 0 .. WordModulus - 1
  <2>1. 0 \in Int /\ HeapSize \in Int /\ 0 + HeapSize \in Int
    BY ConstantsAreNatural
  <2>2. OVERHEAD_FACTOR * 0 = 0 /\ 0 \in 0 .. WordModulus - 1
    BY ConstantsAreNatural
  <2>3. Count(0) = 0
    BY <2>2, RemainderSmall, ConstantsAreNatural DEF Count
  <2> QED BY <2>1, <2>3, Counting
<1>5. 0 + HeapSize = HeapSize /\ Footprint + drift = HeapSize
  BY <1>1, <1>3, ConstantsAreNatural
<1>6. bytes_current = Count(Footprint + drift) /\ bytes_current \in 0 .. WordModulus - 1
  BY <1>1, <1>4, <1>5
<1>7. OVERHEAD_FACTOR * HeapSize < WordModulus
  <2>1. "record" \in Classes
    BY DEF Classes
  <2>2. MaxCaptured * PointerSize \in Nat
    BY ConstantsAreNatural
  <2>3. HeapSize <= Room("record")
    BY <2>1, <2>2, ConstantsAreNatural DEF Room
  <2>4. MaxBytes + OVERHEAD_FACTOR * HeapSize < WordModulus
    BY <2>1, <2>3, ThereIsRoom, ConstantsAreNatural
  <2>5. OVERHEAD_FACTOR * HeapSize \in Nat
    BY ConstantsAreNatural
  <2> QED BY <2>4, <2>5, ConstantsAreNatural
<1>8. TypeOK
  BY <1>1, <1>2, <1>6, ConstantsAreNatural DEF TypeOK
<1>9. CountIsExplained
  BY <1>6 DEF CountIsExplained, Count
<1>10. CountedHasRoom
  BY <1>1, <1>5, <1>7 DEF CountedHasRoom
<1> QED BY <1>2, <1>8, <1>9, <1>10 DEF Accounted

LEMMA StepIsAccounted == Accounted /\ [Next]_vars => Accounted'
<1> SUFFICES ASSUME Accounted, [Next]_vars PROVE Accounted'
  OBVIOUS
<1>1. CASE Allocation
  BY <1>1, AllocationIsAccounted
<1>2. CASE insert
  <2>1. PICK o \in Live, excess \in 0 .. MaxExcess : Enter(o, EntrySize + excess)
    BY <1>2 DEF insert
  <2>2. /\ EntrySize + excess \in 0 .. EntrySize + MaxExcess
        /\ EntrySize + excess >= EntrySize
    BY ConstantsAreNatural
  <2> QED BY <2>1, <2>2, EnterIsAccounted
<1>3. CASE get
  <2>1. PICK o \in Live : Enter(o, 0)
    BY <1>3 DEF get
  <2>2. ~NothingUncounted
    BY <1>3 DEF get, NothingUncounted
  <2>3. 0 \in 0 .. EntrySize + MaxExcess
    BY ConstantsAreNatural
  <2> QED BY <2>1, <2>2, <2>3, EnterIsAccounted
<1>4. CASE Collection
  BY <1>4, CollectionIsAccounted
<1>5. CASE UNCHANGED vars
  BY <1>5 DEF vars, Accounted, TypeOK, Live, CountIsExplained, CountedHasRoom,
     NothingUncounted, StringTrees, AbsentReads, Footprint, Sizes, MapThenSumSet,
     MapThenFoldSet
<1> QED BY <1>1, <1>2, <1>3, <1>4, <1>5 DEF Next

\* The invariant holds in every state the heap reaches.
THEOREM AccountedAlways == Spec => []Accounted
<1> QED BY InitiallyAccounted, StepIsAccounted, PTL DEF Spec

\* Types, for any sizes and any number of objects.
THEOREM TypeCorrectness == Spec => []TypeOK
<1>1. Accounted => TypeOK
  BY DEF Accounted
<1> QED BY <1>1, AccountedAlways, PTL

\* What constructors, insert and the destructors do to bytes_current differs from
\* what exists by the five kinds of drift and nothing else, through any sequence
\* of allocations and collections.
THEOREM TheCountIsExplained == Spec => []CountIsExplained
<1>1. Accounted => CountIsExplained
  BY DEF Accounted
<1> QED BY <1>1, AccountedAlways, PTL

\* Without string trees and reads of absent fields bytes_current never falls below
\* what exists: the memory limit is never passed unnoticed.
THEOREM NeverUnderestimates == Spec => []OverEstimateOfCounted
<1>1. Accounted => OverEstimateOfCounted
  <2> SUFFICES ASSUME Accounted, NothingUncounted PROVE OverEstimate
    BY DEF OverEstimateOfCounted
  <2>1. Footprint \in Nat /\ bytes_current = OVERHEAD_FACTOR * (Footprint + drift)
    BY AccountedIs
  <2>2. drift \in Nat
    BY DEF Accounted, CountedHasRoom
  <2>3. OVERHEAD_FACTOR * Footprint <= OVERHEAD_FACTOR * (Footprint + drift)
    BY <2>1, <2>2, FactorIsMonotone
  <2>4. OVERHEAD_FACTOR * Footprint \in Nat /\ bytes_current \in Nat
    BY <2>1, <2>2, ConstantsAreNatural
  <2> QED BY <2>1, <2>3, <2>4 DEF OverEstimate
<1> QED BY <1>1, AccountedAlways, PTL

\* No collection takes off more than was counted, so that the count never wraps
\* around to a huge number.
THEOREM CollectionsLowerTheCount == Spec => CollectionLowersCount
<1>1. Accounted => [Collection /\ NothingUncounted => bytes_current' <= bytes_current]_vars
  BY CollectionIsAccounted
<1> QED BY <1>1, AccountedAlways, PTL DEF CollectionLowersCount
=============================================================================
