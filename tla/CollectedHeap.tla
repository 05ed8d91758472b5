---------------------------- MODULE CollectedHeap ----------------------------
(***************************************************************************)
(* The generational mark-and-sweep heap of the MITScript VM                *)
(* (src/mitscript/gc) and the pointer structure of the values kept in it   *)
(* (src/mitscript/vm/Value.cpp).                                           *)
(*                                                                         *)
(* A heap is a record, and every operation of the C++ classes is an        *)
(* operator from heaps to heaps, so that the modules that drive the heap   *)
(* (HeapClient, VM) can run several of them in one step, the way           *)
(* potentially_garbage_collect runs gcFast and then gcFull.                *)
(*                                                                         *)
(* Objs are the addresses malloc can return: an address whose object was   *)
(* deleted is handed out again.  A Value is the address it points to, or   *)
(* NoObj when it is no pointer (an integer, a boolean, None or a string    *)
(* constant, which is not allocated on this heap).                         *)
(***************************************************************************)
EXTENDS Naturals

CONSTANTS
  Objs,            \* addresses of collectable objects
  NoObj,           \* a Value that is not a pointer
  Slots,           \* the places of an object that can hold a Value
  ValueSlot,       \* ReferenceValue::value
  LeftSlot,        \* StringValue::left
  RightSlot,       \* StringValue::right
  Generational,    \* has_optimization(OPTIMIZATION_GC_GENERATIONAL)
  MarkModulus,     \* 2^32: Collectable::marked is a uint32_t
  MaxGenerations   \* bound on the number of collections of one execution

\* The last conjunct keeps an execution below 2^32 collections: generation is a
\* size_t, marked is not, and beyond that point no mark equals the generation.
ASSUME HeapAssumption ==
  /\ NoObj \notin Objs
  /\ {ValueSlot, LeftSlot, RightSlot} \subseteq Slots
  /\ LeftSlot # RightSlot
  /\ Generational \in BOOLEAN
  /\ MarkModulus \in Nat
  /\ MaxGenerations \in Nat
  /\ MaxGenerations < MarkModulus

\* "function" stands for BareFunctionValue and BuiltInFunctionValue, the kinds
\* whose markChildren is empty.
Kinds == {"function", "record", "reference", "closure", "string"}

Values == Objs \cup {NoObj}

NoPointers == [s \in Slots |-> NoObj]

HeapType ==
  [kind    : [Objs -> Kinds \cup {"free"}],
   slots   : [Objs -> [Slots -> Values]],
   is_old  : [Objs -> BOOLEAN],
   marked  : [Objs -> Nat],
   recently_allocated_objects : SUBSET Objs,
   old_objects                : SUBSET Objs,
   generation                 : Nat,
   cross_generation_pointers  : SUBSET (Objs \X Slots)]

\* The CollectedHeap constructor.
EmptyHeap ==
  [kind    |-> [o \in Objs |-> "free"],
   slots   |-> [o \in Objs |-> NoPointers],
   is_old  |-> [o \in Objs |-> FALSE],
   marked  |-> [o \in Objs |-> 0],
   recently_allocated_objects |-> {},
   old_objects                |-> {},
   generation                 |-> 0,
   cross_generation_pointers  |-> {}]

Allocated(h) == h.recently_allocated_objects \cup h.old_objects

Fresh(h) == Objs \ Allocated(h)

-----------------------------------------------------------------------------
(* Allocation and the operations of the values.                            *)

\* allocate<T>(...): the constructor has filled the slots with children, and
\* the new object goes to the list of its generation.
allocate(h, o, k, children) ==
  [h EXCEPT
     !.kind[o]   = k,
     !.slots[o]  = children,
     !.is_old[o] = FALSE,
     !.marked[o] = 0,
     !.recently_allocated_objects = IF Generational THEN @ \cup {o} ELSE @,
     !.old_objects                = IF Generational THEN @ ELSE @ \cup {o}]

\* The test both writes make: an old object is about to hold a young pointer.
CrossesGenerations(h, o, v) ==
  Generational /\ v # NoObj /\ ~h.is_old[v] /\ h.is_old[o]

\* Mutant of store: the write barrier is forgotten.
store_without_barrier(h, o, s, v) == [h EXCEPT !.slots[o][s] = v]

\* ReferenceValue::write and the pointer part of RecordValue::insert: store,
\* then remember the address of the slot.
store(h, o, s, v) ==
  [h EXCEPT
     !.slots[o][s] = v,
     !.cross_generation_pointers =
        @ \cup (IF CrossesGenerations(h, o, v) THEN {<<o, s>>} ELSE {})]

\* Mutant of write: only RecordValue::insert has the barrier.
write_without_barrier(h, r, v) == store_without_barrier(h, r, ValueSlot, v)

write(h, r, v)     == store(h, r, ValueSlot, v)
insert(h, r, k, v) == store(h, r, k, v)

\* The constructors of the values, o being the address new returns.
new_function(h, o)  == allocate(h, o, "function", NoPointers)
new_record(h, o)    == allocate(h, o, "record", NoPointers)
new_reference(h, o) == allocate(h, o, "reference", NoPointers)
new_string(h, o)    == allocate(h, o, "string", NoPointers)

\* A closure with the references add_reference appends right after allocate.
new_closure(h, o, references) == allocate(h, o, "closure", references)

\* StringValue(heap, l, r): an operand that is a record or a function is first
\* turned into a string of its own, at address p.  One of l and r is a string,
\* so at most one of them is converted.
IsObject(h, v) == v # NoObj /\ h.kind[v] # "string"

new_string_tree(h, o, p, l, r) ==
  LET converted  == IF IsObject(h, l) \/ IsObject(h, r) THEN new_string(h, p) ELSE h
      operand(v) == IF IsObject(h, v) THEN p ELSE v
  IN  allocate(converted, o, "string",
               [NoPointers EXCEPT ![LeftSlot] = operand(l), ![RightSlot] = operand(r)])

-----------------------------------------------------------------------------
(* Marking.                                                                *)

\* Collectable::mark goes past its early return on o.
Traversable(h, g, recent_only, o) ==
  h.marked[o] # g /\ ~(recent_only /\ h.is_old[o])

\* Mutant of MarkClosed: markChildren of a string tree visits the left child only.
MarkClosed_left_only(h, g, recent_only, seeds, S) ==
  /\ \A o \in seeds : Traversable(h, g, recent_only, o) => o \in S
  /\ \A o \in S, s \in Slots \ {RightSlot} :
        h.slots[o][s] # NoObj /\ Traversable(h, g, recent_only, h.slots[o][s])
          => h.slots[o][s] \in S

MarkClosed(h, g, recent_only, seeds, S) ==
  /\ \A o \in seeds : Traversable(h, g, recent_only, o) => o \in S
  /\ \A o \in S, s \in Slots :
        h.slots[o][s] # NoObj /\ Traversable(h, g, recent_only, h.slots[o][s])
          => h.slots[o][s] \in S

\* The objects the recursion mark -> markChildren -> mark reaches from seeds:
\* the least set that holds the traversable seeds and, with an object, its
\* traversable children.  A slot of a kind that has no such field is NoObj.
mark(h, g, recent_only, seeds) ==
  LET closed == {S \in SUBSET Objs : MarkClosed(h, g, recent_only, seeds, S)}
  IN  {o \in Objs : \A S \in closed : o \in S}

\* marked after that recursion.
MarksAfter(h, g, recent_only, seeds) ==
  LET visited == mark(h, g, recent_only, seeds)
  IN  [o \in Objs |-> IF o \in visited THEN g ELSE h.marked[o]]

-----------------------------------------------------------------------------
(* The two collections.                                                    *)

\* Mutant of Unmarked: a mark of the collection before is good enough.
Unmarked_one_late(swept, generation, marks) ==
  {o \in swept : marks[o] + 1 < generation}

\* The objects of a list that the sweep finds with an old mark.
Unmarked(swept, generation, marks) == {o \in swept : marks[o] # generation}

\* What both leave behind once the marks are set: every object they swept is
\* old, and what they swept and found unmarked is deleted and off the lists.
Swept(h, swept, generation, marks) ==
  LET dead == Unmarked(swept, generation, marks)
  IN  [kind    |-> [o \in Objs |-> IF o \in dead THEN "free" ELSE h.kind[o]],
       slots   |-> [o \in Objs |-> IF o \in dead THEN NoPointers ELSE h.slots[o]],
       is_old  |-> [o \in Objs |-> o \notin dead /\ (o \in swept \/ h.is_old[o])],
       marked  |-> [o \in Objs |-> IF o \in dead THEN 0 ELSE marks[o]],
       recently_allocated_objects |-> {},
       old_objects                |-> Allocated(h) \ dead,
       generation                 |-> generation,
       cross_generation_pointers  |-> {}]

\* The objects the remembered slots point to when the collection starts.
RememberedPointers(h) ==
  {h.slots[x[1]][x[2]] : x \in h.cross_generation_pointers} \ {NoObj}

\* Mutants of gcFast: the remembered slots are no roots; the survivors move to the
\* old list but are not made old.
gcFast_roots_only(h, roots) ==
  LET g == h.generation + 1
  IN  Swept(h, h.recently_allocated_objects, g,
            MarksAfter(h, g % MarkModulus, TRUE, roots))
gcFast_not_aged(h, roots) ==
  LET g == h.generation + 1
  IN  [Swept(h, h.recently_allocated_objects, g,
             MarksAfter(h, g % MarkModulus, TRUE, roots \cup RememberedPointers(h)))
         EXCEPT !.is_old = h.is_old]

\* Marks young objects only, from the roots and the remembered slots, and sweeps
\* recently_allocated_objects; what is left of them joins old_objects.
gcFast(h, roots) ==
  LET g == h.generation + 1
  IN  Swept(h, h.recently_allocated_objects, g,
            MarksAfter(h, g % MarkModulus, TRUE, roots \cup RememberedPointers(h)))

\* Mutants of gcFull: it passes mark_recent_only as gcFast does; it marks before
\* generation is incremented.
gcFull_recent_only(h, roots) ==
  LET g == h.generation + 1
  IN  Swept(h, Allocated(h), g, MarksAfter(h, g % MarkModulus, TRUE, roots))
gcFull_late_increment(h, roots) ==
  [Swept(h, Allocated(h), h.generation, MarksAfter(h, h.generation % MarkModulus, FALSE, roots))
     EXCEPT !.generation = h.generation + 1]

\* Joins the two lists first, then marks and sweeps everything.
gcFull(h, roots) ==
  LET g == h.generation + 1
  IN  Swept(h, Allocated(h), g, MarksAfter(h, g % MarkModulus, FALSE, roots))

\* Interpreter::potentially_garbage_collect once will_garbage_collect() holds:
\* the heaps it can leave.  Whether bytes_current is below the ratio after
\* gcFast decides between the first two; HeapAccounting models that number.
potentially_garbage_collect(h, roots) ==
  IF Generational
  THEN {gcFast(h, roots), gcFull(gcFast(h, roots), roots)}
  ELSE {gcFull(h, roots)}
=============================================================================
