------------------------------ MODULE HeapClient ------------------------------
(***************************************************************************)
(* The collected heap driven by the most general client that keeps the     *)
(* contract of gcFast and gcFull: whenever a collection starts, the root   *)
(* set holds every pointer the client still has.  Its steps are the heap   *)
(* operations of the bytecode instructions and of the built-ins; how the   *)
(* interpreter builds its root set from its frames is modelled in VM.      *)
(***************************************************************************)
EXTENDS CollectedHeap

CONSTANT StringTrees   \* has_optimization(OPTIMIZATION_STRING_TREES)

ASSUME ClientAssumption == StringTrees \in BOOLEAN

VARIABLES
  heap,    \* the CollectedHeap
  roots    \* the pointers the client holds

vars == <<heap, roots>>

Init ==
  /\ heap = EmptyHeap
  /\ roots = {}

Held(k) == {o \in roots : heap.kind[o] = k}

\* What a program can store or concatenate: anything but a ReferenceValue,
\* which the compiler only ever hands to AllocClosure.
FirstClass == {o \in roots : heap.kind[o] # "reference"} \cup {NoObj}

-----------------------------------------------------------------------------
(* Operations that allocate; the client holds the pointer they return.     *)

LoadFunc(o) ==
  /\ heap' = new_function(heap, o)
  /\ roots' = roots \cup {o}

AllocRecord(o) ==
  /\ heap' = new_record(heap, o)
  /\ roots' = roots \cup {o}

\* Input, and Add when strings are flat.
NewString(o) ==
  /\ heap' = new_string(heap, o)
  /\ roots' = roots \cup {o}

\* A call allocates one ReferenceValue per captured local.
NewReference(o) ==
  /\ heap' = new_reference(heap, o)
  /\ roots' = roots \cup {o}

AllocClosure(o) ==
  \E references \in [Slots -> Held("reference") \cup {NoObj}] :
    /\ heap' = new_closure(heap, o, references)
    /\ roots' = roots \cup {o}

\* Add with string trees on; isString() holds of one operand, so the other one
\* alone may be a record or a function.
Add(o) ==
  /\ StringTrees
  /\ \E l, r \in FirstClass, p \in Objs :
       /\ ~(IsObject(heap, l) /\ IsObject(heap, r))
       /\ IF IsObject(heap, l) \/ IsObject(heap, r)
          THEN p \in Fresh(heap) \ {o}
          ELSE p = o
       /\ heap' = new_string_tree(heap, o, p, l, r)
       /\ roots' = roots \cup {o}

Allocation ==
  \E o \in Fresh(heap) :
    LoadFunc(o) \/ AllocRecord(o) \/ NewString(o) \/ NewReference(o)
      \/ AllocClosure(o) \/ Add(o)

-----------------------------------------------------------------------------
(* Operations on an object the client holds.                               *)

StoreReference ==
  \E r \in Held("reference"), v \in FirstClass :
    /\ heap' = write(heap, r, v)
    /\ UNCHANGED roots

FieldStore ==
  \E r \in Held("record"), k \in Slots, v \in FirstClass :
    /\ heap' = insert(heap, r, k, v)
    /\ UNCHANGED roots

\* Mutant of Load: the result is taken for a pointer without a test.
Load_untested ==
  \E o \in roots, s \in Slots :
    /\ heap.kind[o] # "string"
    /\ roots' = roots \cup {heap.slots[o][s]}
    /\ UNCHANGED heap

\* LoadReference, FieldLoad, IndexLoad and the references a closure hands to
\* the call it starts.
Load ==
  \E o \in roots, s \in Slots :
    /\ heap.kind[o] # "string"
    /\ heap.slots[o][s] # NoObj
    /\ roots' = roots \cup {heap.slots[o][s]}
    /\ UNCHANGED heap

Drop ==
  \E o \in roots :
    /\ roots' = roots \ {o}
    /\ UNCHANGED heap

GarbageCollect ==
  /\ heap.generation + 2 <= MaxGenerations
  /\ heap' \in potentially_garbage_collect(heap, roots)
  /\ UNCHANGED roots

Next == Allocation \/ StoreReference \/ FieldStore \/ Load \/ Drop \/ GarbageCollect

Spec == Init /\ [][Next]_vars

-----------------------------------------------------------------------------
(* What must hold in every state.                                          *)

\* Type correctness of the client's two variables.
TypeOK ==
  /\ heap \in HeapType
  /\ roots \subseteq Objs

\* No pointer ever leads to a deleted object: neither one the client holds nor
\* one stored in an object that still exists, whatever mixture of fast and full
\* collections ran (gcFast, gcFull and the write barrier of write and insert).
NoDanglingPointer ==
  /\ roots \subseteq Allocated(heap)
  /\ \A o \in Allocated(heap), s \in Slots :
        heap.slots[o][s] \in Allocated(heap) \cup {NoObj}

\* gcFast marks from the roots and from the remembered slots and never looks
\* into an old object, so every slot of an old object that holds a young pointer
\* has to be among the remembered ones.
BarrierComplete ==
  \A o \in heap.old_objects, s \in Slots :
     heap.slots[o][s] \in heap.recently_allocated_objects
       => <<o, s>> \in heap.cross_generation_pointers

\* The two lists, is_old, the marks and the remembered slots agree: an object is
\* in one list only and is_old says which, no mark is ahead of the collection
\* counter, and every remembered slot lies in an object that still exists and
\* can be written (gcFast reads through that address unchecked).
Bookkeeping ==
  /\ heap.recently_allocated_objects \cap heap.old_objects = {}
  /\ \A o \in Objs : heap.kind[o] = "free" <=> o \in Fresh(heap)
  /\ \A o \in Fresh(heap) : heap.slots[o] = NoPointers
  /\ \A o \in Objs : heap.is_old[o] => o \in heap.old_objects
  /\ Generational => \A o \in heap.old_objects : heap.is_old[o]
  /\ ~Generational => heap.recently_allocated_objects = {}
  /\ \A o \in Objs : heap.marked[o] <= heap.generation
  /\ heap.generation <= MaxGenerations
  /\ \A x \in heap.cross_generation_pointers :
        /\ x[1] \in heap.old_objects
        /\ heap.kind[x[1]] \in {"record", "reference"}

\* The inductive invariant.
IInv == TypeOK /\ NoDanglingPointer /\ BarrierComplete /\ Bookkeeping

-----------------------------------------------------------------------------
(* What every step must do.                                                *)

Promise == INSTANCE AbstractHeap WITH live <- Allocated(heap), edges <- heap.slots

\* The generational heap keeps the promise of AbstractHeap: no step but a
\* collection deletes anything, and a collection deletes nothing that can be
\* reached and leaves the contents of what it keeps alone.
KeepsPromise == Promise!Spec

\* Nor does it keep too much.  After a full collection what exists is what can
\* be reached; after a fast one, the old objects and what can be reached from
\* them or from the roots (a dead old object may keep a young one: nepotism).
CollectionIsPrecise ==
  [][heap'.generation # heap.generation =>
       Allocated(heap') =
         IF Generational /\ heap'.generation = heap.generation + 1
         THEN heap.old_objects
                \cup Promise!Reachable(heap.slots, roots \cup heap.old_objects)
         ELSE Promise!Reachable(heap.slots, roots)]_vars
=============================================================================
