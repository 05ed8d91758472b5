------------------------------ MODULE HeapLemmas ------------------------------
(***************************************************************************)
(* What the operations of CollectedHeap do to one heap, for any set of     *)
(* addresses, any set of slots and any number of collections below the     *)
(* wrap-around of the marks.  The proofs about the modules that drive a    *)
(* heap, HeapClient and VM, rest on these lemmas.                          *)
(***************************************************************************)
EXTENDS CollectedHeap, TLAPS

(***************************************************************************)
(* What makes a heap healthy, as a predicate of one heap so that the       *)
(* lemmas can follow it through the two collections of one step.           *)
(***************************************************************************)
Healthy(h) ==
  /\ h \in HeapType
  /\ \A o \in Allocated(h), s \in Slots :
        h.slots[o][s] \in Allocated(h) \cup {NoObj}
  /\ \A o \in h.old_objects, s \in Slots :
        h.slots[o][s] \in h.recently_allocated_objects
          => <<o, s>> \in h.cross_generation_pointers
  /\ h.recently_allocated_objects \cap h.old_objects = {}
  /\ \A o \in Objs : h.kind[o] = "free" <=> o \in Fresh(h)
  /\ \A o \in Fresh(h) : h.slots[o] = NoPointers
  /\ \A o \in Objs : h.is_old[o] => o \in h.old_objects
  /\ Generational => \A o \in h.old_objects : h.is_old[o]
  /\ ~Generational => h.recently_allocated_objects = {}
  /\ \A o \in Objs : h.marked[o] <= h.generation
  /\ h.generation <= MaxGenerations
  /\ \A x \in h.cross_generation_pointers :
        /\ x[1] \in h.old_objects
        /\ h.kind[x[1]] \in {"record", "reference"}

-----------------------------------------------------------------------------
(* Allocation and writes.                                                  *)

\* Heap a is h with new objects at the unused addresses N; what h holds is as it
\* was.
GrowsBy(h, N, a) ==
  /\ Healthy(a)
  /\ N \subseteq Fresh(h)
  /\ Allocated(a) = Allocated(h) \cup N
  /\ \A q \in Objs \ N : a.slots[q] = h.slots[q] /\ a.kind[q] = h.kind[q]
  /\ a.generation = h.generation

\* Heap a is h with one more object, of kind k, that holds the pointers c.
Adds(h, o, k, c, a) ==
  /\ GrowsBy(h, {o}, a)
  /\ a.kind[o] = k
  /\ a.slots[o] = c

\* The heap the constructor leaves.
LEMMA EmptyHeapIsHealthy == Healthy(EmptyHeap) /\ Allocated(EmptyHeap) = {}
<1> DEFINE h == EmptyHeap
<1> USE HeapAssumption
<1>1. /\ h.recently_allocated_objects = {} /\ h.old_objects = {}
      /\ h.cross_generation_pointers = {}
      /\ h.generation = 0
      /\ h.kind = [o \in Objs |-> "free"]
      /\ h.slots = [o \in Objs |-> NoPointers]
      /\ h.is_old = [o \in Objs |-> FALSE]
      /\ h.marked = [o \in Objs |-> 0]
  BY DEF EmptyHeap
<1>2. h \in HeapType
  BY DEF EmptyHeap, HeapType, NoPointers, Values
<1> HIDE DEF h
<1>3. Allocated(h) = {} /\ Fresh(h) = Objs
  BY <1>1 DEF Allocated, Fresh
<1>4. Healthy(h)
  BY <1>1, <1>2, <1>3 DEF Healthy
<1> QED BY <1>3, <1>4 DEF h

\* Two growths in a row are one (the allocations of one instruction).
LEMMA GrowsTwice ==
  ASSUME NEW h, Healthy(h), NEW N, NEW a, GrowsBy(h, N, a), NEW M, NEW b, GrowsBy(a, M, b)
  PROVE  GrowsBy(h, N \cup M, b)
<1>1. M \subseteq Fresh(h)
  BY DEF GrowsBy, Fresh
<1>2. Allocated(b) = Allocated(h) \cup (N \cup M)
  BY DEF GrowsBy
<1>3. \A q \in Objs \ (N \cup M) : b.slots[q] = h.slots[q] /\ b.kind[q] = h.kind[q]
  BY DEF GrowsBy
<1> QED BY <1>1, <1>2, <1>3 DEF GrowsBy

\* Allocating at an unused address, with children that exist, keeps the heap
\* healthy and adds exactly that address (CollectedHeap::allocate).
LEMMA AllocateHealthy ==
  ASSUME NEW h, Healthy(h), NEW o \in Fresh(h), NEW k \in Kinds,
         NEW c \in [Slots -> Allocated(h) \cup {NoObj}]
  PROVE  Adds(h, o, k, c, allocate(h, o, k, c))
<1> DEFINE a == allocate(h, o, k, c)
<1> USE HeapAssumption
<1>1. /\ h \in HeapType
      /\ o \in Objs
      /\ Allocated(h) \subseteq Objs
  BY DEF Healthy, Fresh, HeapType, Allocated
<1>2. /\ a.kind = [h.kind EXCEPT ![o] = k]
      /\ a.slots = [h.slots EXCEPT ![o] = c]
      /\ a.is_old = [h.is_old EXCEPT ![o] = FALSE]
      /\ a.marked = [h.marked EXCEPT ![o] = 0]
      /\ a.recently_allocated_objects =
           IF Generational THEN h.recently_allocated_objects \cup {o}
                           ELSE h.recently_allocated_objects
      /\ a.old_objects =
           IF Generational THEN h.old_objects ELSE h.old_objects \cup {o}
      /\ a.generation = h.generation
      /\ a.cross_generation_pointers = h.cross_generation_pointers
  BY <1>1 DEF allocate, HeapType
<1>3. Allocated(a) = Allocated(h) \cup {o}
  BY <1>2 DEF Allocated
<1>4. a \in HeapType
  <2>1. c \in [Slots -> Values]
    BY <1>1 DEF Values
  <2>2. k \in Kinds \cup {"free"} /\ 0 \in Nat
    OBVIOUS
  <2> QED BY <1>1, <2>1, <2>2 DEF allocate, HeapType
<1>5. /\ o \notin h.recently_allocated_objects
      /\ o \notin h.old_objects
      /\ Fresh(a) = Fresh(h) \ {o}
  BY <1>3 DEF Fresh, Allocated
<1>6. \A p \in Allocated(a), s \in Slots :
        a.slots[p][s] \in Allocated(a) \cup {NoObj}
  BY <1>1, <1>2, <1>3, <1>5 DEF Healthy, HeapType
<1>7. \A p \in a.old_objects, s \in Slots :
        a.slots[p][s] \in a.recently_allocated_objects
          => <<p, s>> \in a.cross_generation_pointers
  <2>1. CASE Generational
    <3>1. SUFFICES ASSUME NEW p \in h.old_objects, NEW s \in Slots,
                          h.slots[p][s] \in h.recently_allocated_objects \cup {o}
                   PROVE  <<p, s>> \in h.cross_generation_pointers
      BY <1>1, <1>2, <1>5, <2>1 DEF HeapType
    <3>2. h.slots[p][s] # o
      BY <1>1, <1>5 DEF Healthy, Allocated, Fresh
    <3> QED BY <3>1, <3>2 DEF Healthy
  <2>2. CASE ~Generational
    BY <1>2, <2>2 DEF Healthy
  <2> QED BY <2>1, <2>2
<1>8. /\ a.recently_allocated_objects \cap a.old_objects = {}
      /\ \A p \in Objs : a.is_old[p] => p \in a.old_objects
      /\ Generational => \A p \in a.old_objects : a.is_old[p]
      /\ ~Generational => a.recently_allocated_objects = {}
  BY <1>1, <1>2, <1>5 DEF Healthy, HeapType
<1>9. \A p \in Objs : a.kind[p] = "free" <=> p \in Fresh(a)
  BY <1>1, <1>2, <1>5 DEF Healthy, HeapType, Kinds
<1>10. /\ \A p \in Fresh(a) : a.slots[p] = NoPointers
       /\ \A p \in Objs : a.marked[p] <= a.generation
       /\ a.generation <= MaxGenerations
  BY <1>1, <1>2, <1>5 DEF Healthy, HeapType, Fresh
<1>11. \A x \in a.cross_generation_pointers :
         /\ x[1] \in a.old_objects
         /\ a.kind[x[1]] \in {"record", "reference"}
  BY <1>1, <1>2, <1>5 DEF Healthy, HeapType
<1>12. Healthy(a)
  BY <1>4, <1>6, <1>7, <1>8, <1>9, <1>10, <1>11 DEF Healthy
<1>13. \A q \in Objs \ {o} : a.slots[q] = h.slots[q] /\ a.kind[q] = h.kind[q]
  BY <1>1, <1>2 DEF HeapType
<1>14. a.slots[o] = c /\ a.kind[o] = k /\ a.generation = h.generation
  BY <1>1, <1>2 DEF HeapType
<1> QED BY <1>3, <1>12, <1>13, <1>14 DEF Adds, GrowsBy

\* Heap a is h with the string of l and r at address o and, if one of them was
\* converted first, that string at address p.
AddsStrings(h, o, p, l, r, a) ==
  /\ GrowsBy(h, {o, p}, a)
  /\ \A q \in {o, p} : a.kind[q] = "string"
  /\ \A q \in {o, p}, s \in Slots : a.slots[q][s] \in {l, r, p, NoObj}

\* StringValue(heap, l, r) adds a string, or two when an operand is converted
\* first, that hold the operands or each other.
LEMMA StringTreeGrows ==
  ASSUME NEW h, Healthy(h), NEW o \in Fresh(h), NEW p,
         NEW l \in Allocated(h) \cup {NoObj}, NEW r \in Allocated(h) \cup {NoObj},
         IF IsObject(h, l) \/ IsObject(h, r) THEN p \in Fresh(h) \ {o} ELSE p = o
  PROVE  AddsStrings(h, o, p, l, r, new_string_tree(h, o, p, l, r))
<1> USE HeapAssumption
<1> DEFINE a == new_string_tree(h, o, p, l, r)
<1>1. CASE ~IsObject(h, l) /\ ~IsObject(h, r)
  <2> DEFINE c == [NoPointers EXCEPT ![LeftSlot] = l, ![RightSlot] = r]
  <2>1. a = allocate(h, o, "string", c)
    BY <1>1 DEF new_string_tree
  <2>2. c \in [Slots -> Allocated(h) \cup {NoObj}] /\ "string" \in Kinds
    BY DEF NoPointers, Kinds
  <2>3. \A s \in Slots : c[s] \in {l, r, p, NoObj}
    BY DEF NoPointers
  <2> HIDE DEF c, a
  <2>4. Adds(h, o, "string", c, a)
    BY <2>1, <2>2, AllocateHealthy
  <2>5. {o, p} = {o}
    BY <1>1
  <2> QED BY <2>3, <2>4, <2>5 DEF Adds, AddsStrings, a
<1>2. CASE IsObject(h, l) \/ IsObject(h, r)
  <2> DEFINE ll == IF IsObject(h, l) THEN p ELSE l
             rr == IF IsObject(h, r) THEN p ELSE r
             c == [NoPointers EXCEPT ![LeftSlot] = ll, ![RightSlot] = rr]
             b == new_string(h, p)
  <2>1. a = allocate(b, o, "string", c)
    BY <1>2 DEF new_string_tree
  <2>2. p \in Fresh(h) /\ p # o
    BY <1>2
  <2>3. NoPointers \in [Slots -> Allocated(h) \cup {NoObj}] /\ "string" \in Kinds
    BY DEF NoPointers, Kinds
  <2>4. Adds(h, p, "string", NoPointers, b)
    BY <2>2, <2>3, AllocateHealthy DEF new_string
  <2>5. c \in [Slots -> Allocated(h) \cup {p, NoObj}]
    BY DEF NoPointers
  <2>6. \A s \in Slots : c[s] \in {l, r, p, NoObj}
    BY DEF NoPointers
  <2> HIDE DEF c, b, a
  <2>7. /\ Healthy(b)
        /\ Allocated(b) = Allocated(h) \cup {p}
        /\ o \in Fresh(b)
    BY <2>2, <2>4 DEF Adds, GrowsBy, Fresh
  <2>8. c \in [Slots -> Allocated(b) \cup {NoObj}]
    BY <2>5, <2>7
  <2>9. Adds(b, o, "string", c, a)
    BY <2>1, <2>3, <2>7, <2>8, AllocateHealthy
  <2>10. GrowsBy(h, {p} \cup {o}, a)
    BY <2>4, <2>9, GrowsTwice DEF Adds
  <2>11. {p} \cup {o} = {o, p}
    OBVIOUS
  <2>12. p \in Objs /\ p \in Objs \ {o}
    BY <2>2 DEF Fresh
  <2>13. /\ a.kind[o] = "string" /\ a.slots[o] = c
         /\ a.kind[p] = "string" /\ a.slots[p] = NoPointers
    BY <2>4, <2>9, <2>12 DEF Adds, GrowsBy
  <2>14. \A s \in Slots : NoPointers[s] = NoObj
    BY DEF NoPointers
  <2> QED BY <2>6, <2>10, <2>11, <2>13, <2>14 DEF AddsStrings, a
<1> QED BY <1>1, <1>2

\* Heap a is h after a write of v to slot s of object o.
Updates(h, o, s, v, a) ==
  /\ Healthy(a)
  /\ Allocated(a) = Allocated(h)
  /\ a.slots = [h.slots EXCEPT ![o][s] = v]
  /\ a.kind = h.kind
  /\ a.generation = h.generation

\* A write into an existing record or reference of a pointer that exists keeps
\* the heap healthy: the barrier remembers the slot exactly when a young pointer
\* enters an old object (ReferenceValue::write, RecordValue::insert).
LEMMA StoreHealthy ==
  ASSUME NEW h, Healthy(h),
         NEW o \in Allocated(h), h.kind[o] \in {"record", "reference"},
         NEW s \in Slots, NEW v \in Allocated(h) \cup {NoObj}
  PROVE  Updates(h, o, s, v, store(h, o, s, v))
<1> DEFINE a == store(h, o, s, v)
<1> USE HeapAssumption
<1>1. /\ h \in HeapType
      /\ o \in Objs
      /\ Allocated(h) \subseteq Objs
  BY DEF Healthy, HeapType, Allocated
<1>2. /\ a.kind = h.kind
      /\ a.slots = [h.slots EXCEPT ![o][s] = v]
      /\ a.is_old = h.is_old
      /\ a.marked = h.marked
      /\ a.recently_allocated_objects = h.recently_allocated_objects
      /\ a.old_objects = h.old_objects
      /\ a.generation = h.generation
      /\ a.cross_generation_pointers =
           h.cross_generation_pointers
             \cup (IF CrossesGenerations(h, o, v) THEN {<<o, s>>} ELSE {})
  BY <1>1 DEF store, HeapType
<1>3. /\ Allocated(a) = Allocated(h)
      /\ Fresh(a) = Fresh(h)
      /\ o \notin Fresh(h)
  BY <1>2 DEF Allocated, Fresh
<1>4. a \in HeapType
  <2>1. v \in Values
    BY <1>1 DEF Values
  <2>2. [h.slots EXCEPT ![o][s] = v] \in [Objs -> [Slots -> Values]]
    BY <1>1, <2>1 DEF HeapType
  <2>3. h.cross_generation_pointers
          \cup (IF CrossesGenerations(h, o, v) THEN {<<o, s>>} ELSE {})
          \in SUBSET (Objs \X Slots)
    BY <1>1 DEF HeapType
  <2> QED BY <1>1, <2>2, <2>3 DEF store, HeapType
<1>5. \A p \in Allocated(a), t \in Slots :
        a.slots[p][t] \in Allocated(a) \cup {NoObj}
  BY <1>1, <1>2, <1>3 DEF Healthy, HeapType
<1>6. \A p \in a.old_objects, t \in Slots :
        a.slots[p][t] \in a.recently_allocated_objects
          => <<p, t>> \in a.cross_generation_pointers
  <2>1. SUFFICES ASSUME NEW p \in h.old_objects, NEW t \in Slots,
                        a.slots[p][t] \in h.recently_allocated_objects
                 PROVE  <<p, t>> \in a.cross_generation_pointers
    BY <1>2
  <2>2. CASE p = o /\ t = s
    <3>1. v \in h.recently_allocated_objects
      BY <1>1, <1>2, <2>1, <2>2 DEF HeapType
    <3>2. Generational /\ v # NoObj /\ ~h.is_old[v] /\ h.is_old[o]
      BY <1>1, <2>2, <3>1 DEF Healthy, HeapType
    <3> QED BY <1>2, <2>2, <3>2 DEF CrossesGenerations
  <2>3. CASE ~(p = o /\ t = s)
    <3>1. a.slots[p][t] = h.slots[p][t]
      BY <1>1, <1>2, <2>3 DEF HeapType, Healthy
    <3> QED BY <1>2, <2>1, <3>1 DEF Healthy
  <2> QED BY <2>2, <2>3
<1>7. /\ a.recently_allocated_objects \cap a.old_objects = {}
      /\ \A p \in Objs : a.is_old[p] => p \in a.old_objects
      /\ Generational => \A p \in a.old_objects : a.is_old[p]
      /\ ~Generational => a.recently_allocated_objects = {}
      /\ \A p \in Objs : a.kind[p] = "free" <=> p \in Fresh(a)
      /\ \A p \in Objs : a.marked[p] <= a.generation
      /\ a.generation <= MaxGenerations
  BY <1>1, <1>2, <1>3 DEF Healthy
<1>8. \A p \in Fresh(a) : a.slots[p] = NoPointers
  BY <1>1, <1>2, <1>3 DEF Healthy, HeapType, Fresh
<1>9. \A x \in a.cross_generation_pointers :
        /\ x[1] \in a.old_objects
        /\ a.kind[x[1]] \in {"record", "reference"}
  <2>1. CrossesGenerations(h, o, v) => o \in h.old_objects
    BY <1>1 DEF Healthy, CrossesGenerations
  <2> QED BY <1>2, <2>1 DEF Healthy
<1>10. Healthy(a)
  BY <1>4, <1>5, <1>6, <1>7, <1>8, <1>9 DEF Healthy
<1> QED BY <1>2, <1>3, <1>10 DEF Updates
-----------------------------------------------------------------------------
(* Marking.                                                                *)

\* What Collectable::mark visits is itself closed: nothing the recursion can
\* still reach is left out.
LEMMA MarkIsClosed ==
  ASSUME NEW h \in HeapType, NEW g, NEW recent_only, NEW seeds \in SUBSET Objs
  PROVE  /\ mark(h, g, recent_only, seeds) \subseteq Objs
         /\ MarkClosed(h, g, recent_only, seeds, mark(h, g, recent_only, seeds))
<1> DEFINE M == mark(h, g, recent_only, seeds)
<1>1. \A o \in Objs :
        o \in M <=> \A S \in SUBSET Objs :
                     MarkClosed(h, g, recent_only, seeds, S) => o \in S
  BY DEF mark
<1>2. \A o \in seeds : Traversable(h, g, recent_only, o) => o \in M
  BY <1>1 DEF MarkClosed
<1>3. ASSUME NEW o \in M, NEW s \in Slots, h.slots[o][s] # NoObj,
             Traversable(h, g, recent_only, h.slots[o][s])
      PROVE  h.slots[o][s] \in M
  <2>1. o \in Objs
    BY <1>3 DEF mark
  <2>2. h.slots[o][s] \in Objs
    BY <1>3, <2>1 DEF HeapType, Values
  <2>3. ASSUME NEW S \in SUBSET Objs, MarkClosed(h, g, recent_only, seeds, S)
        PROVE  h.slots[o][s] \in S
    <3>1. o \in S
      BY <1>1, <1>3, <2>1, <2>3
    <3> QED BY <1>3, <2>3, <3>1 DEF MarkClosed
  <2> QED BY <1>1, <2>2, <2>3
<1>4. M \subseteq Objs
  BY DEF mark
<1> HIDE DEF M
<1> QED BY <1>2, <1>3, <1>4 DEF MarkClosed, M

\* When every mark is behind generation g, MarksAfter sets the mark of exactly the
\* visited objects to g.
LEMMA MarksAreCurrent ==
  ASSUME NEW h, Healthy(h), NEW recent_only \in BOOLEAN,
         NEW seeds \in SUBSET Objs, h.generation + 1 <= MaxGenerations
  PROVE  LET g == h.generation + 1
             marks == MarksAfter(h, g % MarkModulus, recent_only, seeds)
         IN  /\ g \in Nat
             /\ g % MarkModulus = g
             /\ marks \in [Objs -> Nat]
             /\ \A o \in Objs : marks[o] <= g
             /\ \A o \in Objs : marks[o] = g <=> o \in mark(h, g, recent_only, seeds)
             /\ \A o \in Objs : Traversable(h, g, recent_only, o)
                                  <=> ~(recent_only /\ h.is_old[o])
<1> DEFINE g == h.generation + 1
           visited == mark(h, g, recent_only, seeds)
           marks == MarksAfter(h, g, recent_only, seeds)
<1>1. /\ h \in HeapType
      /\ \A o \in Objs : h.marked[o] \in Nat /\ h.marked[o] <= h.generation
      /\ h.generation \in Nat
  BY DEF Healthy, HeapType
<1>2. g \in Nat /\ g < MarkModulus /\ MarkModulus \in Nat
  BY <1>1, HeapAssumption
<1>3. g % MarkModulus = g
  <2> HIDE DEF g
  <2> QED BY <1>2, SMT
<1>4. \A o \in Objs : h.marked[o] # g /\ h.marked[o] <= g
  <2>1. \A m, n \in Nat : m <= n => m # n + 1 /\ m <= n + 1
    OBVIOUS
  <2> QED BY <1>1, <2>1
<1>5. marks = [o \in Objs |-> IF o \in visited THEN g ELSE h.marked[o]]
  BY DEF MarksAfter
<1>6. \A o \in Objs : Traversable(h, g, recent_only, o)
                          <=> ~(recent_only /\ h.is_old[o])
  BY <1>4 DEF Traversable
<1>7. /\ marks \in [Objs -> Nat]
      /\ \A o \in Objs : marks[o] <= g
      /\ \A o \in Objs : marks[o] = g <=> o \in visited
  <2> HIDE DEF g, visited, marks
  <2> QED BY <1>1, <1>2, <1>4, <1>5
<1> QED BY <1>2, <1>3, <1>6, <1>7
-----------------------------------------------------------------------------
(* Collections.                                                            *)

\* What a collection of h from roots R may leave: a healthy heap with fewer
\* objects, unchanged ones, among them R and whatever R leads to.
Keeps(h, R, c) ==
  /\ Healthy(c)
  /\ R \subseteq Allocated(c)
  /\ Allocated(c) \subseteq Allocated(h)
  /\ \A o \in Allocated(c), s \in Slots :
        h.slots[o][s] \in Allocated(c) \cup {NoObj}
  /\ c.slots = [o \in Objs |-> IF o \in Allocated(c) THEN h.slots[o] ELSE NoPointers]
  /\ \A o \in Allocated(c) : c.kind[o] = h.kind[o]

\* Marks that tell a set of survivors that is closed and holds R, for a sweep of
\* a list that holds all young objects.
SoundMarks(h, R, swept, g, marks) ==
  /\ swept \in SUBSET Allocated(h)
  /\ h.recently_allocated_objects \subseteq swept
  /\ g \in Nat
  /\ g <= MaxGenerations
  /\ marks \in [Objs -> Nat]
  /\ \A o \in Objs : marks[o] <= g
  /\ R \subseteq Allocated(h) \ Unmarked(swept, g, marks)
  /\ \A o \in Allocated(h) \ Unmarked(swept, g, marks), s \in Slots :
        h.slots[o][s] \in (Allocated(h) \ Unmarked(swept, g, marks)) \cup {NoObj}

\* A sweep by such marks leaves a healthy heap that keeps the survivors.
LEMMA SweepKeeps ==
  ASSUME NEW h, Healthy(h), NEW R, NEW swept, NEW g, NEW marks,
         SoundMarks(h, R, swept, g, marks)
  PROVE  Keeps(h, R, Swept(h, swept, g, marks))
<1> SUFFICES ASSUME NEW c, c = Swept(h, swept, g, marks)
             PROVE  Keeps(h, R, c)
  OBVIOUS
<1> DEFINE dead == Unmarked(swept, g, marks)
           kept == Allocated(h) \ dead
<1>0. /\ swept \in SUBSET Allocated(h)
      /\ h.recently_allocated_objects \subseteq swept
      /\ g \in Nat /\ g <= MaxGenerations
      /\ \A o \in Objs : marks[o] \in Nat /\ marks[o] <= g
      /\ R \subseteq kept
      /\ \A o \in kept, s \in Slots : h.slots[o][s] \in kept \cup {NoObj}
      /\ dead \subseteq swept
  BY DEF SoundMarks, Unmarked
<1>1. /\ h \in HeapType
      /\ Allocated(h) \subseteq Objs
      /\ dead \subseteq Objs
      /\ kept \subseteq Objs
  BY <1>0 DEF Healthy, HeapType, Allocated
<1>2. /\ c.kind = [o \in Objs |-> IF o \in dead THEN "free" ELSE h.kind[o]]
      /\ c.slots = [o \in Objs |-> IF o \in dead THEN NoPointers ELSE h.slots[o]]
      /\ c.is_old = [o \in Objs |-> o \notin dead /\ (o \in swept \/ h.is_old[o])]
      /\ c.marked = [o \in Objs |-> IF o \in dead THEN 0 ELSE marks[o]]
      /\ c.recently_allocated_objects = {}
      /\ c.old_objects = kept
      /\ c.generation = g
      /\ c.cross_generation_pointers = {}
  BY DEF Swept
<1> HIDE DEF dead
<1>3. /\ Allocated(c) = kept
      /\ Fresh(c) = Fresh(h) \cup dead
  BY <1>1, <1>2 DEF Allocated, Fresh
<1>4. c \in HeapType
  <2>1. NoPointers \in [Slots -> Values]
    BY DEF NoPointers, Values
  <2>2. c.kind \in [Objs -> Kinds \cup {"free"}]
    BY <1>1, <1>2 DEF HeapType
  <2>3. c.slots \in [Objs -> [Slots -> Values]]
    BY <1>1, <1>2, <2>1 DEF HeapType
  <2>4. c.is_old \in [Objs -> BOOLEAN]
    BY <1>1, <1>2 DEF HeapType
  <2>5. c.marked \in [Objs -> Nat]
    BY <1>0, <1>1, <1>2
  <2>6. /\ c.recently_allocated_objects \in SUBSET Objs
        /\ c.old_objects \in SUBSET Objs
        /\ c.generation \in Nat
        /\ c.cross_generation_pointers \in SUBSET (Objs \X Slots)
    BY <1>0, <1>1, <1>2
  <2>7. c = [kind |-> c.kind, slots |-> c.slots, is_old |-> c.is_old,
             marked |-> c.marked,
             recently_allocated_objects |-> c.recently_allocated_objects,
             old_objects |-> c.old_objects, generation |-> c.generation,
             cross_generation_pointers |-> c.cross_generation_pointers]
    BY DEF Swept
  <2>8. [kind |-> c.kind, slots |-> c.slots, is_old |-> c.is_old,
         marked |-> c.marked,
         recently_allocated_objects |-> c.recently_allocated_objects,
         old_objects |-> c.old_objects, generation |-> c.generation,
         cross_generation_pointers |-> c.cross_generation_pointers] \in HeapType
    BY <2>2, <2>3, <2>4, <2>5, <2>6 DEF HeapType
  <2> QED BY <2>7, <2>8, Zenon
<1>5. c.slots = [o \in Objs |-> IF o \in Allocated(c) THEN h.slots[o] ELSE NoPointers]
  <2>1. \A o \in Objs : o \notin dead /\ o \notin kept => h.slots[o] = NoPointers
    BY DEF Healthy, Fresh
  <2> QED BY <1>1, <1>2, <1>3, <2>1
<1>6. \A o \in Allocated(c), s \in Slots :
        c.slots[o][s] \in Allocated(c) \cup {NoObj}
  BY <1>0, <1>1, <1>3, <1>5
<1>7. \A o \in Objs : c.kind[o] = "free" <=> o \in Fresh(c)
  <2>1. \A o \in Objs : h.kind[o] = "free" <=> o \in Fresh(h)
    BY DEF Healthy
  <2> QED BY <1>2, <1>3, <2>1
<1>8. \A o \in Fresh(c) : c.slots[o] = NoPointers
  BY <1>1, <1>5 DEF Fresh
<1>9. /\ \A o \in Objs : c.is_old[o] => o \in c.old_objects
      /\ Generational => \A o \in c.old_objects : c.is_old[o]
  <2>1. \A o \in Objs : c.is_old[o] => o \in c.old_objects
    BY <1>0, <1>1, <1>2 DEF Healthy, Allocated
  <2>2. ASSUME Generational, NEW o \in kept PROVE c.is_old[o]
    <3>1. o \in swept \/ o \in h.old_objects
      BY <1>0, <2>2 DEF Allocated
    <3>2. o \in Objs /\ o \notin dead
      BY <1>1, <2>2
    <3>3. o \in h.old_objects => h.is_old[o]
      BY <2>2 DEF Healthy
    <3> QED BY <1>2, <3>1, <3>2, <3>3
  <2> QED BY <1>2, <2>1, <2>2
<1>10. \A o \in Objs : c.marked[o] <= c.generation
  <2>1. c.generation = g
    BY <1>2
  <2>2. \A o \in Objs : c.marked[o] = 0 \/ c.marked[o] = marks[o]
    BY <1>2
  <2>3. \A o \in Objs : c.marked[o] \in Nat
    BY <1>4 DEF HeapType
  <2>4. \A m \in Nat, n \in Nat : (m = 0 \/ m = n) /\ n <= g => m <= g
    BY <1>0
  <2>5. \A o \in Objs : c.marked[o] <= g
    BY <1>0, <2>2, <2>3, <2>4
  <2> QED BY <2>1, <2>5
<1>11. Healthy(c)
  BY <1>0, <1>2, <1>4, <1>6, <1>7, <1>8, <1>9, <1>10 DEF Healthy
<1>12. Allocated(c) \subseteq Allocated(h)
  BY <1>3
<1>13. \A o \in Allocated(c), s \in Slots :
         h.slots[o][s] \in Allocated(c) \cup {NoObj}
  BY <1>0, <1>3
<1>14. \A o \in Allocated(c) : c.kind[o] = h.kind[o]
  BY <1>1, <1>2, <1>3
<1> QED BY <1>0, <1>3, <1>5, <1>11, <1>12, <1>13, <1>14 DEF Keeps

\* A fast collection from roots R keeps them and all they lead to, although it
\* looks into no old object: a young object an old one points to is remembered.
LEMMA FastKeeps ==
  ASSUME NEW h, Healthy(h), Generational, NEW R, R \subseteq Allocated(h),
         h.generation + 1 <= MaxGenerations
  PROVE  /\ Keeps(h, R, gcFast(h, R))
         /\ gcFast(h, R).generation = h.generation + 1
         /\ h.old_objects \subseteq Allocated(gcFast(h, R))
         /\ Allocated(gcFast(h, R)) \subseteq
              h.old_objects
                \cup mark(h, h.generation + 1, TRUE, R \cup RememberedPointers(h))
<1> DEFINE g == h.generation + 1
           seeds == R \cup RememberedPointers(h)
           visited == mark(h, g, TRUE, seeds)
           marks == MarksAfter(h, g % MarkModulus, TRUE, seeds)
           young == h.recently_allocated_objects
           kept == Allocated(h) \ Unmarked(young, g, marks)
<1>1. /\ h \in HeapType
      /\ Allocated(h) \subseteq Objs
      /\ young \subseteq Allocated(h)
  BY DEF Healthy, HeapType, Allocated
<1>2. seeds \in SUBSET Objs
  <2>1. RememberedPointers(h) \subseteq Objs
    <3>1. ASSUME NEW x \in h.cross_generation_pointers
          PROVE  h.slots[x[1]][x[2]] \in Objs \cup {NoObj}
      <4>1. x \in Objs \X Slots
        BY <1>1 DEF HeapType
      <4>2. x[1] \in Objs /\ x[2] \in Slots
        BY <4>1
      <4> QED BY <1>1, <4>2 DEF HeapType, Values
    <3> QED BY <3>1 DEF RememberedPointers
  <2> QED BY <1>1, <2>1
<1>3. /\ g \in Nat
      /\ marks \in [Objs -> Nat]
      /\ \A o \in Objs : marks[o] <= g
      /\ \A o \in Objs : marks[o] = g <=> o \in visited
      /\ \A o \in Objs : Traversable(h, g, TRUE, o) <=> ~h.is_old[o]
  BY <1>2, MarksAreCurrent
<1>4. /\ \A o \in seeds : ~h.is_old[o] => o \in visited
      /\ \A o \in visited, s \in Slots :
            h.slots[o][s] # NoObj /\ ~h.is_old[h.slots[o][s]]
              => h.slots[o][s] \in visited
      /\ visited \subseteq Objs
  <2>1. visited \subseteq Objs /\ MarkClosed(h, g, TRUE, seeds, visited)
    BY <1>1, <1>2, MarkIsClosed
  <2>2. \A o \in visited, s \in Slots : h.slots[o][s] # NoObj => h.slots[o][s] \in Objs
    <3> HIDE DEF visited
    <3> QED BY <1>1, <2>1 DEF HeapType, Values
  <2> HIDE DEF g, seeds, visited
  <2> QED BY <1>2, <1>3, <2>1, <2>2 DEF MarkClosed
<1>5. \A o \in young : o \in Objs /\ ~h.is_old[o]
  BY <1>1 DEF Healthy, Allocated
<1>6. \A o \in Objs : o \in kept <=> o \in h.old_objects \/ (o \in young /\ o \in visited)
  <2>1. young \cap h.old_objects = {}
    BY DEF Healthy
  <2> HIDE DEF g, visited, marks
  <2> QED BY <1>3, <2>1 DEF Allocated, Unmarked
<1>7. R \subseteq kept
  <2> SUFFICES ASSUME NEW o \in R PROVE o \in kept
    OBVIOUS
  <2>1. o \in Objs /\ o \in Allocated(h) /\ o \in seeds
    BY <1>1
  <2>2. o \in young => o \in visited
    BY <1>4, <1>5, <2>1
  <2> HIDE DEF kept, visited, seeds
  <2> QED BY <1>6, <2>1, <2>2 DEF Allocated
<1>8. ASSUME NEW o \in kept, NEW s \in Slots, h.slots[o][s] # NoObj
      PROVE  h.slots[o][s] \in kept
  <2> DEFINE v == h.slots[o][s]
  <2>1. o \in Objs /\ o \in Allocated(h)
    BY <1>1
  <2>2. v \in Allocated(h) /\ v \in Objs
    BY <1>1, <1>8, <2>1 DEF Healthy
  <2>3. CASE v \in h.old_objects
    <3> HIDE DEF kept
    <3> QED BY <1>6, <2>2, <2>3
  <2>4. CASE v \in young
    <3>1. ~h.is_old[v]
      BY <1>5, <2>4
    <3>2. CASE o \in h.old_objects
      <4>1. <<o, s>> \in h.cross_generation_pointers
        BY <2>4, <3>2 DEF Healthy
      <4>2. v \in RememberedPointers(h)
        BY <1>8, <4>1 DEF RememberedPointers
      <4>3. v \in visited
        BY <1>4, <3>1, <4>2
      <4> HIDE DEF kept, visited
      <4> QED BY <1>6, <2>2, <2>4, <4>3
    <3>3. CASE o \in visited
      <4>1. v \in visited
        BY <1>4, <1>8, <3>1, <3>3
      <4> HIDE DEF kept, visited
      <4> QED BY <1>6, <2>2, <2>4, <4>1
    <3>4. o \in h.old_objects \/ o \in visited
      <4> HIDE DEF kept, visited
      <4> QED BY <1>6, <1>8, <2>1
    <3> QED BY <3>2, <3>3, <3>4
  <2> QED BY <2>2, <2>3, <2>4 DEF Allocated
<1>9. gcFast(h, R) = Swept(h, young, g, marks)
  BY DEF gcFast
<1>10. gcFast(h, R).generation = g
  BY <1>9 DEF Swept
<1>11. Keeps(h, R, Swept(h, young, g, marks))
  <2>1. /\ young \in SUBSET Allocated(h)
        /\ g <= MaxGenerations
        /\ \A o \in kept, s \in Slots : h.slots[o][s] \in kept \cup {NoObj}
    BY <1>1, <1>8
  <2> HIDE DEF g, seeds, marks
  <2>2. SoundMarks(h, R, young, g, marks)
    BY <1>3, <1>7, <2>1 DEF SoundMarks
  <2> QED BY <2>2, SweepKeeps
<1>12. Allocated(gcFast(h, R)) = kept
  BY <1>9 DEF Swept, Allocated
<1>13. h.old_objects \subseteq kept /\ kept \subseteq h.old_objects \cup visited
  <2>1. kept \subseteq Objs /\ h.old_objects \subseteq Objs
    BY <1>1 DEF Allocated
  <2> HIDE DEF kept, visited
  <2> QED BY <1>6, <2>1
<1> HIDE DEF kept
<1> QED BY <1>9, <1>10, <1>11, <1>12, <1>13

\* A full collection from roots R keeps them and all they lead to.
LEMMA FullKeeps ==
  ASSUME NEW h, Healthy(h), NEW R, R \subseteq Allocated(h),
         h.generation + 1 <= MaxGenerations
  PROVE  /\ Keeps(h, R, gcFull(h, R))
         /\ gcFull(h, R).generation = h.generation + 1
         /\ Allocated(gcFull(h, R)) \subseteq mark(h, h.generation + 1, FALSE, R)
<1> DEFINE g == h.generation + 1
           visited == mark(h, g, FALSE, R)
           marks == MarksAfter(h, g % MarkModulus, FALSE, R)
           kept == Allocated(h) \ Unmarked(Allocated(h), g, marks)
<1>1. /\ h \in HeapType
      /\ Allocated(h) \subseteq Objs
      /\ h.recently_allocated_objects \subseteq Allocated(h)
  BY DEF Healthy, HeapType, Allocated
<1>2. R \in SUBSET Objs
  BY <1>1
<1>3. /\ g \in Nat
      /\ marks \in [Objs -> Nat]
      /\ \A o \in Objs : marks[o] <= g
      /\ \A o \in Objs : marks[o] = g <=> o \in visited
      /\ \A o \in Objs : Traversable(h, g, FALSE, o)
  BY <1>2, MarksAreCurrent
<1>4. visited \subseteq Objs /\ MarkClosed(h, g, FALSE, R, visited)
  BY <1>1, <1>2, MarkIsClosed
<1>5. \A o \in Objs : o \in kept <=> o \in Allocated(h) /\ o \in visited
  <2> HIDE DEF g, visited, marks
  <2> QED BY <1>3 DEF Unmarked
<1>6. R \subseteq kept
  <2> HIDE DEF g, visited, kept
  <2> QED BY <1>2, <1>3, <1>4, <1>5 DEF MarkClosed
<1>7. ASSUME NEW o \in kept, NEW s \in Slots, h.slots[o][s] # NoObj
      PROVE  h.slots[o][s] \in kept
  <2>1. o \in Objs /\ o \in Allocated(h)
    BY <1>1
  <2>2. h.slots[o][s] \in Allocated(h) /\ h.slots[o][s] \in Objs
    BY <1>1, <1>7, <2>1 DEF Healthy
  <2>3. o \in visited
    <3> HIDE DEF kept, visited
    <3> QED BY <1>5, <1>7, <2>1
  <2> HIDE DEF g, visited, kept
  <2> QED BY <1>3, <1>4, <1>5, <1>7, <2>2, <2>3 DEF MarkClosed
<1>8. gcFull(h, R) = Swept(h, Allocated(h), g, marks)
  BY DEF gcFull
<1>9. gcFull(h, R).generation = g
  BY <1>8 DEF Swept
<1>10. Keeps(h, R, Swept(h, Allocated(h), g, marks))
  <2>1. /\ g <= MaxGenerations
        /\ \A o \in kept, s \in Slots : h.slots[o][s] \in kept \cup {NoObj}
    BY <1>1, <1>7
  <2> HIDE DEF g, marks
  <2>2. SoundMarks(h, R, Allocated(h), g, marks)
    BY <1>1, <1>3, <1>6, <2>1 DEF SoundMarks
  <2> QED BY <2>2, SweepKeeps
<1>11. Allocated(gcFull(h, R)) = kept
  BY <1>8 DEF Swept, Allocated
<1>12. kept \subseteq visited
  <2>1. kept \subseteq Objs
    BY <1>1
  <2> HIDE DEF kept, visited
  <2> QED BY <1>5, <2>1
<1> HIDE DEF kept
<1> QED BY <1>8, <1>9, <1>10, <1>11, <1>12

\* Whatever potentially_garbage_collect does - a fast collection, a full one, or
\* both in a row - it keeps the roots and all they lead to.
LEMMA CollectKeeps ==
  ASSUME NEW h, Healthy(h), NEW R, R \subseteq Allocated(h),
         h.generation + 2 <= MaxGenerations,
         NEW c \in potentially_garbage_collect(h, R)
  PROVE  Keeps(h, R, c)
<1>1. h.generation \in Nat /\ MaxGenerations \in Nat
  BY HeapAssumption DEF Healthy, HeapType
<1>2. h.generation + 1 <= MaxGenerations
  BY <1>1
<1>3. CASE ~Generational
  BY <1>2, <1>3, FullKeeps DEF potentially_garbage_collect
<1>4. CASE Generational
  <2> DEFINE f == gcFast(h, R)
  <2>1. Keeps(h, R, f) /\ f.generation = h.generation + 1
    BY <1>2, <1>4, FastKeeps
  <2> HIDE DEF f
  <2>2. /\ Healthy(f)
        /\ R \subseteq Allocated(f)
        /\ f.generation + 1 <= MaxGenerations
    BY <1>1, <2>1 DEF Keeps
  <2>3. Keeps(f, R, gcFull(f, R))
    BY <2>2, FullKeeps
  <2>4. ASSUME NEW d, Keeps(f, R, d) PROVE Keeps(h, R, d)
    <3>1. /\ Healthy(d)
          /\ R \subseteq Allocated(d)
          /\ Allocated(d) \subseteq Allocated(f)
          /\ Allocated(f) \subseteq Allocated(h)
      BY <2>1, <2>4 DEF Keeps
    <3>2. Allocated(h) \subseteq Objs
      BY DEF Healthy, HeapType, Allocated
    <3>3. \A o \in Allocated(d) : f.slots[o] = h.slots[o]
      BY <2>1, <3>1, <3>2 DEF Keeps
    <3>4. \A o \in Allocated(d), s \in Slots :
            h.slots[o][s] \in Allocated(d) \cup {NoObj}
      BY <2>4, <3>3 DEF Keeps
    <3>5. d.slots = [o \in Objs |-> IF o \in Allocated(d) THEN h.slots[o] ELSE NoPointers]
      BY <2>4, <3>3 DEF Keeps
    <3>6. \A o \in Allocated(d) : d.kind[o] = h.kind[o]
      BY <2>1, <2>4, <3>1 DEF Keeps
    <3> QED BY <3>1, <3>4, <3>5, <3>6 DEF Keeps
  <2>5. c = f \/ c = gcFull(f, R)
    BY <1>4 DEF potentially_garbage_collect, f
  <2> QED BY <2>1, <2>3, <2>4, <2>5
<1> QED BY <1>3, <1>4


-----------------------------------------------------------------------------
(* Nothing more than that is kept.                                         *)

Closed(e, S) == \A o \in S, s \in Slots : e[o][s] # NoObj => e[o][s] \in S

\* The least closed set that holds R: what R leads to along the pointers e.
Reach(e, R) ==
  {o \in Objs : \A S \in SUBSET Objs : R \subseteq S /\ Closed(e, S) => o \in S}

\* A closed set holds all that its members lead to.
LEMMA ReachIsLeast ==
  ASSUME NEW e, NEW R, NEW L \in SUBSET Objs, R \subseteq L, Closed(e, L)
  PROVE  Reach(e, R) \subseteq L
  BY DEF Reach

\* What marking from seeds visits, a closed set that holds the seeds has too.
LEMMA MarkIsLeast ==
  ASSUME NEW h \in HeapType, NEW g, NEW recent_only, NEW seeds,
         NEW S \in SUBSET Objs, seeds \subseteq S, Closed(h.slots, S)
  PROVE  mark(h, g, recent_only, seeds) \subseteq S
<1>1. MarkClosed(h, g, recent_only, seeds, S)
  BY DEF MarkClosed, Closed
<1> QED BY <1>1 DEF mark

\* A full collection leaves just what the roots lead to.
LEMMA FullIsPrecise ==
  ASSUME NEW h, Healthy(h), NEW R, R \subseteq Allocated(h),
         h.generation + 1 <= MaxGenerations
  PROVE  Allocated(gcFull(h, R)) = Reach(h.slots, R)
<1> DEFINE L == Allocated(gcFull(h, R))
<1>1. /\ h \in HeapType
      /\ Allocated(h) \subseteq Objs
  BY DEF Healthy, HeapType, Allocated
<1>2. Keeps(h, R, gcFull(h, R)) /\ L \subseteq mark(h, h.generation + 1, FALSE, R)
  BY FullKeeps
<1>3. L \in SUBSET Objs /\ R \subseteq L /\ Closed(h.slots, L)
  BY <1>1, <1>2 DEF Keeps, Closed
<1> HIDE DEF L
<1>4. Reach(h.slots, R) \subseteq L
  BY <1>3, ReachIsLeast
<1>5. ASSUME NEW o \in L PROVE o \in Reach(h.slots, R)
  <2> SUFFICES ASSUME NEW S \in SUBSET Objs, R \subseteq S, Closed(h.slots, S)
               PROVE  o \in S
    BY <1>3 DEF Reach
  <2>1. mark(h, h.generation + 1, FALSE, R) \subseteq S
    BY <1>1, MarkIsLeast
  <2> QED BY <1>2, <1>5, <2>1
<1> QED BY <1>4, <1>5 DEF L

\* A fast collection leaves the old objects and what they and the roots lead to.
LEMMA FastIsPrecise ==
  ASSUME NEW h, Healthy(h), Generational, NEW R, R \subseteq Allocated(h),
         h.generation + 1 <= MaxGenerations
  PROVE  Allocated(gcFast(h, R)) = h.old_objects \cup Reach(h.slots, R \cup h.old_objects)
<1> DEFINE L == Allocated(gcFast(h, R))
           old == h.old_objects
<1>1. /\ h \in HeapType
      /\ Allocated(h) \subseteq Objs
  BY DEF Healthy, HeapType, Allocated
<1>2. /\ Keeps(h, R, gcFast(h, R))
      /\ old \subseteq L
      /\ L \subseteq old \cup mark(h, h.generation + 1, TRUE, R \cup RememberedPointers(h))
  BY FastKeeps
<1>3. L \in SUBSET Objs /\ R \cup old \subseteq L /\ Closed(h.slots, L)
  BY <1>1, <1>2 DEF Keeps, Closed
<1> HIDE DEF L
<1>4. Reach(h.slots, R \cup old) \subseteq L
  BY <1>3, ReachIsLeast
<1>5. ASSUME NEW o \in L, o \notin old PROVE o \in Reach(h.slots, R \cup old)
  <2> SUFFICES ASSUME NEW S \in SUBSET Objs, R \cup old \subseteq S, Closed(h.slots, S)
               PROVE  o \in S
    BY <1>3 DEF Reach
  <2>1. ASSUME NEW x \in h.cross_generation_pointers, h.slots[x[1]][x[2]] # NoObj
        PROVE  h.slots[x[1]][x[2]] \in S
    <3>1. x \in Objs \X Slots
      BY <1>1 DEF HeapType
    <3>2. x[1] \in old /\ x[2] \in Slots
      BY <3>1 DEF Healthy
    <3> QED BY <2>1, <3>2 DEF Closed
  <2>2. R \cup RememberedPointers(h) \subseteq S
    BY <2>1 DEF RememberedPointers
  <2>3. mark(h, h.generation + 1, TRUE, R \cup RememberedPointers(h)) \subseteq S
    BY <1>1, <2>2, MarkIsLeast
  <2> QED BY <1>2, <1>5, <2>3
<1> QED BY <1>2, <1>4, <1>5 DEF L

\* A collection that keeps all the roots lead to does not change what that is.
LEMMA KeepsReach ==
  ASSUME NEW h, Healthy(h), NEW R, NEW f, Keeps(h, R, f)
  PROVE  Reach(f.slots, R) = Reach(h.slots, R)
<1> DEFINE L == Allocated(f)
<1>1. Allocated(h) \subseteq Objs
  BY DEF Healthy, HeapType, Allocated
<1>2. /\ R \subseteq L /\ L \subseteq Objs
      /\ \A o \in L, s \in Slots : h.slots[o][s] \in L \cup {NoObj}
      /\ \A o \in L : f.slots[o] = h.slots[o]
      /\ \A o \in Objs \ L : f.slots[o] = NoPointers
  BY <1>1 DEF Keeps
<1> HIDE DEF L
<1>3. \A s \in Slots : NoPointers[s] = NoObj
  BY DEF NoPointers
<1>4. ASSUME NEW S \in SUBSET Objs, Closed(h.slots, S) PROVE Closed(f.slots, S)
  BY <1>2, <1>3, <1>4 DEF Closed
<1>5. ASSUME NEW S \in SUBSET Objs, Closed(f.slots, S) PROVE Closed(h.slots, S \cap L)
  BY <1>2, <1>5 DEF Closed
<1>6. Reach(f.slots, R) \subseteq Reach(h.slots, R)
  BY <1>4 DEF Reach
<1>7. ASSUME NEW o \in Reach(h.slots, R), NEW S \in SUBSET Objs,
             R \subseteq S, Closed(f.slots, S)
      PROVE  o \in S
  <2>1. S \cap L \in SUBSET Objs /\ R \subseteq S \cap L /\ Closed(h.slots, S \cap L)
    BY <1>2, <1>5, <1>7
  <2>2. Reach(h.slots, R) \subseteq S \cap L
    BY <2>1, ReachIsLeast
  <2> QED BY <1>7, <2>2
<1>8. Reach(h.slots, R) \subseteq Reach(f.slots, R)
  BY <1>7 DEF Reach
<1> QED BY <1>6, <1>8

\* Whatever potentially_garbage_collect does, what is left is what can be reached:
\* from the roots, or after a fast collection alone from the old objects too.
LEMMA CollectIsPrecise ==
  ASSUME NEW h, Healthy(h), NEW R, R \subseteq Allocated(h),
         h.generation + 2 <= MaxGenerations,
         NEW c \in potentially_garbage_collect(h, R)
  PROVE  Allocated(c) =
           IF Generational /\ c.generation = h.generation + 1
           THEN h.old_objects \cup Reach(h.slots, R \cup h.old_objects)
           ELSE Reach(h.slots, R)
<1>1. h.generation \in Nat /\ MaxGenerations \in Nat
  BY HeapAssumption DEF Healthy, HeapType
<1>2. h.generation + 1 <= MaxGenerations
  BY <1>1
<1>3. CASE ~Generational
  BY <1>2, <1>3, FullIsPrecise DEF potentially_garbage_collect
<1>4. CASE Generational
  <2> DEFINE f == gcFast(h, R)
  <2>1. Keeps(h, R, f) /\ f.generation = h.generation + 1
    BY <1>2, <1>4, FastKeeps
  <2>2. Allocated(f) = h.old_objects \cup Reach(h.slots, R \cup h.old_objects)
    BY <1>2, <1>4, FastIsPrecise
  <2>3. c = f \/ c = gcFull(f, R)
    BY <1>4 DEF potentially_garbage_collect
  <2> HIDE DEF f
  <2>4. /\ Healthy(f)
        /\ R \subseteq Allocated(f)
        /\ f.generation + 1 <= MaxGenerations
    BY <1>1, <2>1 DEF Keeps
  <2>5. Allocated(gcFull(f, R)) = Reach(h.slots, R)
    BY <2>1, <2>4, FullIsPrecise, KeepsReach
  <2>6. gcFull(f, R).generation = h.generation + 1 + 1
    BY <2>1, <2>4, FullKeeps
  <2>7. gcFull(f, R).generation # h.generation + 1
    BY <1>1, <2>6
  <2> QED BY <1>4, <2>1, <2>2, <2>3, <2>5, <2>7
<1> QED BY <1>3, <1>4
=============================================================================
