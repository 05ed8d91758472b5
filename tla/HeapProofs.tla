------------------------------ MODULE HeapProofs ------------------------------
(***************************************************************************)
(* Proofs about HeapClient, for any set of addresses, any set of slots and *)
(* any number of collections below the wrap-around of the marks.           *)
(***************************************************************************)
EXTENDS HeapClient, HeapLemmas

\* The invariant of the client says just that its heap is healthy and that it
\* holds pointers to existing objects only.
LEMMA InvariantIsHealth ==
  IInv <=> Healthy(heap) /\ roots \subseteq Allocated(heap)
<1>1. IInv => Healthy(heap) /\ roots \subseteq Allocated(heap)
  BY DEF IInv, TypeOK, NoDanglingPointer, BarrierComplete, Bookkeeping, Healthy
<1>2. Healthy(heap) /\ roots \subseteq Allocated(heap) => IInv
  <2>1. heap \in HeapType => Allocated(heap) \subseteq Objs
    BY DEF HeapType, Allocated
  <2> QED BY <2>1 DEF IInv, TypeOK, NoDanglingPointer, BarrierComplete,
                      Bookkeeping, Healthy
<1> QED BY <1>1, <1>2

-----------------------------------------------------------------------------
(* The steps of the client.                                                *)

\* The invariant in the form the steps below use, and what it gives for free.
Safe == Healthy(heap) /\ roots \subseteq Allocated(heap)

LEMMA SafeFacts ==
  ASSUME Safe
  PROVE  /\ heap \in HeapType
         /\ Allocated(heap) \subseteq Objs
         /\ roots \subseteq Allocated(heap)
         /\ Fresh(heap) = Objs \ Allocated(heap)
  BY DEF Safe, Healthy, HeapType, Allocated, Fresh

\* A pointer the client holds is one it can use.
LEMMA RootsAreKnown == roots \subseteq Promise!Known
  BY DEF Promise!Known

\* New objects that hold what the client holds, or each other, are safe and are one
\* object creation of the abstract heap.
LEMMA Growth ==
  ASSUME Safe, NEW N, GrowsBy(heap, N, heap'),
         \A q \in N, s \in Slots : heap'.slots[q][s] \in roots \cup N \cup {NoObj},
         roots' \subseteq roots \cup N
  PROVE  Safe' /\ Promise!Create
<1>1. Safe'
  <2>1. Allocated(heap)' = Allocated(heap')
    BY DEF Allocated
  <2>2. Healthy(heap)' = Healthy(heap')
    BY DEF Healthy, Allocated, Fresh, HeapType
  <2> QED BY <2>1, <2>2, SafeFacts DEF Safe, GrowsBy
<1>2. Promise!Create
  <2>1. N \in SUBSET (Objs \ Allocated(heap))
    BY SafeFacts DEF GrowsBy
  <2>2. heap'.slots \in [Objs -> [Slots -> Values]]
    BY DEF GrowsBy, Healthy, HeapType
  <2>3. \A q \in Objs \ N : heap'.slots[q] = heap.slots[q]
    BY DEF GrowsBy
  <2>4. \A q \in N, s \in Slots : heap'.slots[q][s] \in Promise!Known \cup N \cup {NoObj}
    BY RootsAreKnown
  <2>5. roots' \subseteq Promise!Known \cup N
    BY RootsAreKnown
  <2>6. Allocated(heap)' = Allocated(heap) \cup N
    BY DEF GrowsBy, Allocated
  <2> QED BY <2>1, <2>2, <2>3, <2>4, <2>5, <2>6 DEF Promise!Create, Promise!Values, Values
<1> QED BY <1>1, <1>2

\* One allocation at an unused address, with children the client holds.
LEMMA OneAllocation ==
  ASSUME Safe, NEW o \in Fresh(heap), NEW k \in Kinds,
         NEW c \in [Slots -> roots \cup {NoObj}],
         heap' = allocate(heap, o, k, c), roots' = roots \cup {o}
  PROVE  Safe' /\ Promise!Create /\ heap'.generation = heap.generation
<1>1. c \in [Slots -> Allocated(heap) \cup {NoObj}]
  BY SafeFacts
<1>2. Healthy(heap)
  BY DEF Safe
<1>3. Adds(heap, o, k, c, heap')
  BY <1>1, <1>2, AllocateHealthy
<1>4. \A q \in {o}, s \in Slots : heap'.slots[q][s] \in roots \cup {o} \cup {NoObj}
  BY <1>3 DEF Adds
<1>5. GrowsBy(heap, {o}, heap')
  BY <1>3 DEF Adds
<1> QED BY <1>4, <1>5, Growth DEF GrowsBy

\* Add on strings allocates one string, or two when an operand is converted
\* first; both cases are one creation of the abstract heap.
LEMMA AddStep ==
  ASSUME Safe, NEW o \in Fresh(heap), Add(o)
  PROVE  Safe' /\ Promise!Create /\ heap'.generation = heap.generation
<1>1. PICK l \in FirstClass, r \in FirstClass, p \in Objs :
        /\ IF IsObject(heap, l) \/ IsObject(heap, r)
           THEN p \in Fresh(heap) \ {o}
           ELSE p = o
        /\ heap' = new_string_tree(heap, o, p, l, r)
        /\ roots' = roots \cup {o}
  BY DEF Add
<1>2. l \in roots \cup {NoObj} /\ r \in roots \cup {NoObj}
  BY DEF FirstClass
<1>3. Healthy(heap) /\ roots \subseteq Allocated(heap)
  BY DEF Safe
<1>4. /\ GrowsBy(heap, {o, p}, heap')
      /\ \A q \in {o, p}, s \in Slots : heap'.slots[q][s] \in {l, r, p, NoObj}
  <2>1. l \in Allocated(heap) \cup {NoObj} /\ r \in Allocated(heap) \cup {NoObj}
    BY <1>2, <1>3
  <2>2. AddsStrings(heap, o, p, l, r, heap')
    BY <1>1, <1>3, <2>1, StringTreeGrows
  <2> QED BY <2>2 DEF AddsStrings
<1>5. \A q \in {o, p}, s \in Slots : heap'.slots[q][s] \in roots \cup {o, p} \cup {NoObj}
  BY <1>2, <1>4
<1>6. roots' \subseteq roots \cup {o, p}
  BY <1>1
<1> QED BY <1>4, <1>5, <1>6, Growth DEF GrowsBy

\* Every operation that allocates is safe and creates objects only.
LEMMA AllocationStep ==
  ASSUME Safe, Allocation
  PROVE  Safe' /\ Promise!Create /\ heap'.generation = heap.generation
<1>1. PICK o \in Fresh(heap) :
        LoadFunc(o) \/ AllocRecord(o) \/ NewString(o) \/ NewReference(o)
          \/ AllocClosure(o) \/ Add(o)
  BY DEF Allocation
<1>2. /\ NoPointers \in [Slots -> roots \cup {NoObj}]
      /\ {"function", "record", "reference", "string", "closure"} \subseteq Kinds
  BY DEF NoPointers, Kinds
<1>3. CASE LoadFunc(o)
  BY <1>2, <1>3, OneAllocation DEF LoadFunc, new_function
<1>4. CASE AllocRecord(o)
  BY <1>2, <1>4, OneAllocation DEF AllocRecord, new_record
<1>5. CASE NewString(o)
  BY <1>2, <1>5, OneAllocation DEF NewString, new_string
<1>6. CASE NewReference(o)
  BY <1>2, <1>6, OneAllocation DEF NewReference, new_reference
<1>7. CASE AllocClosure(o)
  <2>1. PICK c \in [Slots -> Held("reference") \cup {NoObj}] :
          heap' = new_closure(heap, o, c) /\ roots' = roots \cup {o}
    BY <1>7 DEF AllocClosure
  <2>2. c \in [Slots -> roots \cup {NoObj}]
    BY DEF Held
  <2> QED BY <1>2, <2>1, <2>2, OneAllocation DEF new_closure
<1>8. CASE Add(o)
  BY <1>8, AddStep
<1> QED BY <1>1, <1>3, <1>4, <1>5, <1>6, <1>7, <1>8
\* A write of a pointer the client holds is safe and is an update of the abstract
\* heap.
LEMMA WriteStep ==
  ASSUME Safe, NEW o \in roots, heap.kind[o] \in {"record", "reference"},
         NEW s \in Slots, NEW v \in roots \cup {NoObj},
         heap' = store(heap, o, s, v), roots' = roots
  PROVE  Safe' /\ Promise!Update /\ heap'.generation = heap.generation
<1>1. Updates(heap, o, s, v, heap')
  <2>1. /\ Healthy(heap)
        /\ o \in Allocated(heap)
        /\ v \in Allocated(heap) \cup {NoObj}
    BY SafeFacts DEF Safe
  <2> QED BY <2>1, StoreHealthy
<1>2. Safe'
  <2>1. Allocated(heap)' = Allocated(heap')
    BY DEF Allocated
  <2>2. Healthy(heap)' = Healthy(heap')
    BY DEF Healthy, Allocated, Fresh, HeapType
  <2> QED BY <1>1, <2>1, <2>2 DEF Safe, Updates
<1> QED BY <1>1, <1>2, RootsAreKnown DEF Promise!Update, Updates, Allocated

\* A collection is safe and takes back unreachable objects only.
LEMMA CollectStep ==
  ASSUME Safe, GarbageCollect
  PROVE  Safe' /\ Promise!Reclaim
<1>1. Keeps(heap, roots, heap') /\ roots' = roots
  <2>1. Healthy(heap) /\ roots \subseteq Allocated(heap)
    BY DEF Safe
  <2> QED BY <2>1, CollectKeeps DEF GarbageCollect
<1>2. Safe'
  <2>1. Allocated(heap)' = Allocated(heap')
    BY DEF Allocated
  <2>2. Healthy(heap)' = Healthy(heap')
    BY DEF Healthy, Allocated, Fresh, HeapType
  <2> QED BY <1>1, <2>1, <2>2 DEF Safe, Keeps
<1>3. Promise!Reachable(heap.slots, roots) \subseteq Allocated(heap')
  <2> DEFINE L == Allocated(heap')
  <2>1. L \in SUBSET Objs /\ roots \subseteq L
    BY <1>1, SafeFacts DEF Keeps
  <2>2. Promise!ClosedUnder(heap.slots, L)
    BY <1>1 DEF Keeps, Promise!ClosedUnder
  <2> HIDE DEF L
  <2>3. L \in {S \in SUBSET Objs :
                 roots \subseteq S /\ Promise!ClosedUnder(heap.slots, S)}
    BY <2>1, <2>2
  <2>4. Promise!Reachable(heap.slots, roots) \subseteq L
    BY <2>3 DEF Promise!Reachable
  <2> QED BY <2>4 DEF L
<1>4. heap'.slots = [o \in Objs |->
         IF o \in Allocated(heap') THEN heap.slots[o] ELSE Promise!NoPointers]
  BY <1>1 DEF Keeps, NoPointers, Promise!NoPointers
<1>5. Allocated(heap') \subseteq Allocated(heap)
  BY <1>1 DEF Keeps
<1> QED BY <1>1, <1>2, <1>3, <1>4, <1>5 DEF Promise!Reclaim, Allocated

\* What a step that ran a collection must leave behind.
Precise ==
  Allocated(heap') =
    IF Generational /\ heap'.generation = heap.generation + 1
    THEN heap.old_objects \cup Promise!Reachable(heap.slots, roots \cup heap.old_objects)
    ELSE Promise!Reachable(heap.slots, roots)

\* A collection keeps no more than it has to.
LEMMA CollectStepIsPrecise ==
  ASSUME Safe, GarbageCollect
  PROVE  Precise
<1>1. \A R : Promise!Reachable(heap.slots, R) = Reach(heap.slots, R)
  BY DEF Reach, Closed, Promise!Reachable, Promise!ClosedUnder
<1>2. Healthy(heap) /\ roots \subseteq Allocated(heap)
  BY DEF Safe
<1>3. Allocated(heap') =
        IF Generational /\ heap'.generation = heap.generation + 1
        THEN heap.old_objects \cup Reach(heap.slots, roots \cup heap.old_objects)
        ELSE Reach(heap.slots, roots)
  BY <1>2, CollectIsPrecise DEF GarbageCollect
<1> QED BY <1>1, <1>3 DEF Precise

\* One step of the client, one case per action.
LEMMA ClientStep ==
  ASSUME Safe, [Next]_vars
  PROVE  /\ Safe' /\ [Promise!Next]_(Promise!vars)
         /\ heap'.generation # heap.generation => Precise
<1>1. CASE Allocation
  BY <1>1, AllocationStep DEF Promise!Next
<1>2. CASE StoreReference
  <2>1. PICK r \in Held("reference"), v \in FirstClass :
          heap' = store(heap, r, ValueSlot, v) /\ roots' = roots
    BY <1>2 DEF StoreReference, write
  <2>2. /\ r \in roots /\ heap.kind[r] \in {"record", "reference"}
        /\ v \in roots \cup {NoObj}
        /\ ValueSlot \in Slots
    BY HeapAssumption DEF Held, FirstClass
  <2> QED BY <2>1, <2>2, WriteStep DEF Promise!Next
<1>3. CASE FieldStore
  <2>1. PICK r \in Held("record"), k \in Slots, v \in FirstClass :
          heap' = store(heap, r, k, v) /\ roots' = roots
    BY <1>3 DEF FieldStore, insert
  <2>2. /\ r \in roots /\ heap.kind[r] \in {"record", "reference"}
        /\ v \in roots \cup {NoObj}
    BY DEF Held, FirstClass
  <2> QED BY <2>1, <2>2, WriteStep DEF Promise!Next
<1>4. CASE Load
  <2>1. PICK o \in roots, s \in Slots :
          /\ heap.slots[o][s] # NoObj
          /\ roots' = roots \cup {heap.slots[o][s]}
          /\ heap' = heap
    BY <1>4 DEF Load
  <2>2. heap.slots[o][s] \in Allocated(heap)
    BY <2>1, SafeFacts DEF Safe, Healthy
  <2>3. Safe'
    BY <2>1, <2>2 DEF Safe, Healthy, Allocated, Fresh
  <2>4. Promise!Move
    BY <2>1 DEF Promise!Move, Promise!Known, Allocated
  <2> QED BY <2>1, <2>3, <2>4 DEF Promise!Next
<1>5. CASE Drop
  <2>1. roots' \subseteq roots /\ heap' = heap
    BY <1>5 DEF Drop
  <2>2. Safe'
    BY <2>1 DEF Safe, Healthy, Allocated, Fresh
  <2>3. Promise!Move
    BY <2>1 DEF Promise!Move, Promise!Known, Allocated
  <2> QED BY <2>1, <2>2, <2>3 DEF Promise!Next
<1>6. CASE GarbageCollect
  BY <1>6, CollectStep, CollectStepIsPrecise DEF Promise!Next
<1>7. CASE UNCHANGED vars
  <2>1. heap' = heap /\ roots' = roots
    BY <1>7 DEF vars
  <2> QED BY <2>1 DEF Safe, Healthy, Allocated, Fresh, Promise!vars
<1> QED BY <1>1, <1>2, <1>3, <1>4, <1>5, <1>6, <1>7 DEF Next

\* The empty heap is healthy, and is the initial state of the abstract heap.
LEMMA InitiallySafe ==
  ASSUME Init
  PROVE  Safe /\ Promise!Init
<1>1. heap = EmptyHeap /\ roots = {}
  BY DEF Init
<1>2. heap.slots = [o \in Objs |-> NoPointers]
  BY <1>1 DEF EmptyHeap
<1>3. Healthy(heap) /\ Allocated(heap) = {}
  BY <1>1, EmptyHeapIsHealthy
<1> QED BY <1>1, <1>2, <1>3
        DEF Safe, Promise!Init, NoPointers, Promise!NoPointers, Allocated

-----------------------------------------------------------------------------
(* The theorems.                                                           *)

\* The inductive invariant holds in every reachable state.
THEOREM SafeAlways == Spec => []Safe
<1>1. Init => Safe
  BY InitiallySafe
<1>2. Safe /\ [Next]_vars => Safe'
  BY ClientStep
<1> QED BY <1>1, <1>2, PTL DEF Spec

\* Type correctness of the heap and of the roots.
THEOREM TypeCorrectness == Spec => []TypeOK
<1>1. Safe => TypeOK
  BY InvariantIsHealth DEF Safe, IInv
<1> QED BY <1>1, SafeAlways, PTL

\* No collection, fast or full, ever deletes an object that a root, or an object
\* that still exists, points to.
THEOREM NoDangling == Spec => []NoDanglingPointer
<1>1. Safe => NoDanglingPointer
  BY InvariantIsHealth DEF Safe, IInv
<1> QED BY <1>1, SafeAlways, PTL

\* The write barrier is complete: every slot of an old object that holds a young
\* pointer is in cross_generation_pointers.
THEOREM BarrierIsComplete == Spec => []BarrierComplete
<1>1. Safe => BarrierComplete
  BY InvariantIsHealth DEF Safe, IInv
<1> QED BY <1>1, SafeAlways, PTL

\* The lists, is_old, the marks and the remembered slots always agree.
THEOREM BookkeepingIsConsistent == Spec => []Bookkeeping
<1>1. Safe => Bookkeeping
  BY InvariantIsHealth DEF Safe, IInv
<1> QED BY <1>1, SafeAlways, PTL

\* The generational heap implements AbstractHeap: whatever the interleaving of
\* allocations, writes and collections, all that can be reached stays as it is.
THEOREM HeapKeepsPromise == Spec => KeepsPromise
<1>1. Init => Promise!Init
  BY InitiallySafe
<1>2. Safe /\ [Next]_vars => [Promise!Next]_(Promise!vars)
  BY ClientStep
<1> QED BY <1>1, <1>2, SafeAlways, PTL DEF Spec, KeepsPromise, Promise!Spec

\* No collection keeps what it may take back: a full one leaves what the roots lead
\* to, a fast one that and what the old objects lead to.
THEOREM CollectionsArePrecise == Spec => CollectionIsPrecise
<1>1. Safe /\ [Next]_vars => [heap'.generation # heap.generation => Precise]_vars
  BY ClientStep
<1>2. Spec => [][heap'.generation # heap.generation => Precise]_vars
  BY <1>1, SafeAlways, PTL DEF Spec
<1> QED BY <1>2 DEF CollectionIsPrecise, Precise
=============================================================================
