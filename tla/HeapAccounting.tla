---------------------------- MODULE HeapAccounting ----------------------------
(***************************************************************************)
(* The byte count of CollectedHeap, which decides when the VM collects:    *)
(* what constructors, writes and destructors add to bytes_current and take *)
(* from it, and the two tests of Interpreter::potentially_garbage_collect  *)
(* that read it.  Which objects a collection finds dead is CollectedHeap's *)
(* matter; here it is any set.                                             *)
(***************************************************************************)
EXTENDS Integers, FiniteSetsExt

CONSTANTS
  Objs,             \* addresses of collectable objects
  SizeOf,           \* sizeof each class; "tree" is a StringValue of height > 0
  PointerSize,      \* sizeof(Collectable*), sizeof(ReferenceValue*)
  EntrySize,        \* what size() counts for one entry of a record
  MaxExcess,        \* bound on the capacity that a key has when it is passed to
                    \* insert and that its copy in the record has not
  HeapSize,         \* sizeof(CollectedHeap)
  MaxLength,        \* bound on the length of a string
  MaxCaptured,      \* bound on the captured variables of a closure
  MaxEntries,       \* bound on the entries of a record
  OVERHEAD_FACTOR,
  GC_THRASH_THRESHOLD,
  CollectionLimit,  \* bytes_max * GC_COLLECTION_RATIO
  WordModulus,      \* 2^64: bytes_current is a size_t
  TruncModulus,     \* 2^32: old_heap_size is a uint32_t
  MaxBytes,         \* bound on bytes_current where allocation goes on
  Settings          \* what processes are considered, see setting

Classes == {"function", "record", "reference", "closure", "string", "tree"}

ASSUME AccountingAssumption ==
  /\ SizeOf \in [Classes -> Nat \ {0}]
  /\ {PointerSize, EntrySize, MaxExcess, HeapSize, MaxLength, MaxCaptured, MaxEntries,
      OVERHEAD_FACTOR, GC_THRASH_THRESHOLD, CollectionLimit, MaxBytes} \subseteq Nat
  /\ {WordModulus, TruncModulus} \subseteq Nat \ {0}
  /\ Settings \subseteq SUBSET {"generational", "string trees", "absent reads"}

\* MaxBytes leaves room in a size_t for the heap itself and for what one operation
\* adds: no program comes near 2^64 bytes.
ASSUME RoomAssumption ==
  \A class \in Classes :
    MaxBytes + OVERHEAD_FACTOR * (HeapSize + PointerSize + SizeOf[class] + MaxLength
      + 2 * (MaxCaptured * PointerSize) + EntrySize + MaxExcess) < WordModulus

VARIABLES
  setting,        \* the optimizations that are on, and if the program reads
                  \* fields that were never written
  objects,        \* for each existing object its class and what size() returns
  young,          \* those in recently_allocated_objects
  bytes_current,
  old_heap_size,  \* bytes_current when the last collection ended
  drift           \* not in the code: what was counted and will never be taken
                  \* back, less what will be taken back and was never counted

vars == <<setting, objects, young, bytes_current, old_heap_size, drift>>

\* Mutant of decreaseSize: a sign lost when it was copied from increaseSize.
decreaseSize_adds(b, n) == (b + n * OVERHEAD_FACTOR) % WordModulus

Generational == "generational" \in setting  \* OPTIMIZATION_GC_GENERATIONAL
StringTrees  == "string trees" \in setting  \* OPTIMIZATION_STRING_TREES
AbsentReads  == "absent reads" \in setting

increaseSize(b, n) == (b + n * OVERHEAD_FACTOR) % WordModulus
decreaseSize(b, n) ==
  (b + (WordModulus - ((n * OVERHEAD_FACTOR) % WordModulus))) % WordModulus

Live == DOMAIN objects

Sizes(S) == MapThenSumSet(LAMBDA o : objects[o].bytes, S)

Init ==
  /\ setting \in Settings
  /\ objects = [o \in {} |-> {}]
  /\ young = {}
  /\ bytes_current = increaseSize(0, HeapSize)
  /\ old_heap_size = 0
  /\ drift = 0

-----------------------------------------------------------------------------
(* Allocation and growth.                                                  *)

\* Mutant of Charge: a string counts without its characters.
Charge_static(class, bytes, captured) ==
  CASE class = "tree"    -> 0
    [] class = "string"  -> SizeOf["string"]
    [] class = "closure" -> bytes + captured * PointerSize
    [] OTHER             -> bytes

\* What the constructor of a class adds, bytes being its size(): the constructor
\* of a string tree adds nothing, and a closure adds its pointers once in its
\* constructor and again, one by one, in add_reference.
Charge(class, bytes, captured) ==
  CASE class = "tree"    -> 0
    [] class = "closure" -> bytes + captured * PointerSize
    [] OTHER             -> bytes

\* allocate: the constructor, then register_allocation.
Allocate(o, class, bytes, captured) ==
  /\ bytes_current <= MaxBytes
  /\ objects' = [p \in Live \cup {o} |->
                   IF p = o THEN [class |-> class, bytes |-> bytes] ELSE objects[p]]
  /\ young' = IF Generational THEN young \cup {o} ELSE young
  /\ bytes_current' =
       increaseSize(bytes_current, Charge(class, bytes, captured) + PointerSize)
  /\ drift' = drift + (IF class = "tree" THEN -bytes ELSE captured * PointerSize)
  /\ UNCHANGED <<setting, old_heap_size>>

Allocation ==
  \E o \in Objs \ Live :
    \/ \E class \in {"function", "record", "reference"} :
         Allocate(o, class, SizeOf[class], 0)
    \/ \E length \in 0 .. MaxLength :
         Allocate(o, "string", SizeOf["string"] + length, 0)
    \/ StringTrees /\ Allocate(o, "tree", SizeOf["tree"], 0)
    \/ \E n \in 0 .. MaxCaptured :
         Allocate(o, "closure", SizeOf["closure"] + n * PointerSize, n)

\* The record at o has one entry more; the count grows by charged.
Enter(o, charged) ==
  /\ bytes_current <= MaxBytes
  /\ objects[o].class = "record"
  /\ objects[o].bytes < SizeOf["record"] + MaxEntries * EntrySize
  /\ objects' = [objects EXCEPT ![o] = [class |-> "record",
                                         bytes |-> objects[o].bytes + EntrySize]]
  /\ bytes_current' = increaseSize(bytes_current, charged)
  /\ drift' = drift + charged - EntrySize
  /\ UNCHANGED <<setting, young, old_heap_size>>

\* insert of a key the record does not have; of one it has, it counts nothing.
\* It counts the capacity of its argument, which a string made by toString may
\* have more of than the copy that size() looks at.
insert == \E o \in Live, excess \in 0 .. MaxExcess : Enter(o, EntrySize + excess)

\* get is values[key], which enters None under a key the record does not have.
get == AbsentReads /\ \E o \in Live : Enter(o, 0)

-----------------------------------------------------------------------------
(* Collection.                                                             *)

will_garbage_collect ==
  /\ bytes_current >= (old_heap_size + GC_THRASH_THRESHOLD) % TruncModulus
  /\ bytes_current >= CollectionLimit

\* The destructors of dead; gcFull takes off the list pointers as well, gcFast
\* does not.
CountAfterFast(b, dead) == decreaseSize(b, Sizes(dead))
CountAfterFull_sizes(b, dead) == decreaseSize(b, Sizes(dead))   \* a mutant
CountAfterFull(b, dead) ==
  decreaseSize(b, Sizes(dead) + Cardinality(dead) * PointerSize)

\* Mutant of Collected: the young list is not spliced into the old one.
Collected_not_spliced(dead, b) ==
  /\ objects' = [o \in Live \ dead |-> objects[o]]
  /\ bytes_current' = b
  /\ old_heap_size' = b % TruncModulus
  /\ UNCHANGED <<setting, young>>

\* The state after a collection of dead that leaves the count at b.
Collected(dead, b) ==
  /\ objects' = [o \in Live \ dead |-> objects[o]]
  /\ young' = {}
  /\ bytes_current' = b
  /\ old_heap_size' = b % TruncModulus
  /\ UNCHANGED setting

\* A fast collection is enough.
FastCollection ==
  /\ Generational
  /\ will_garbage_collect
  /\ \E dead \in SUBSET young :
       /\ CountAfterFast(bytes_current, dead) < CollectionLimit
       /\ Collected(dead, CountAfterFast(bytes_current, dead))
       /\ drift' = drift + Cardinality(dead) * PointerSize

\* It is not, and a full one follows.
FastThenFullCollection ==
  /\ Generational
  /\ will_garbage_collect
  /\ \E dead \in SUBSET young :
       /\ CountAfterFast(bytes_current, dead) >= CollectionLimit
       /\ drift' = drift + Cardinality(dead) * PointerSize
       /\ \E more \in SUBSET (Live \ dead) :
            Collected(dead \cup more,
                      CountAfterFull(CountAfterFast(bytes_current, dead), more))

FullCollection ==
  /\ ~Generational
  /\ will_garbage_collect
  /\ \E dead \in SUBSET Live : Collected(dead, CountAfterFull(bytes_current, dead))
  /\ UNCHANGED drift

Collection == FastCollection \/ FastThenFullCollection \/ FullCollection

Next == Allocation \/ insert \/ get \/ Collection

Spec == Init /\ [][Next]_vars

-----------------------------------------------------------------------------
(* Properties.                                                             *)

\* What exists takes, by the classes' own size(): the heap, the objects, and
\* their pointers on the lists.
Footprint == HeapSize + Sizes(Live) + Cardinality(Live) * PointerSize

\* Type correctness.
TypeOK ==
  /\ setting \in Settings
  /\ Live \subseteq Objs
  /\ \A o \in Live : objects[o].class \in Classes /\ objects[o].bytes \in Nat
  /\ young \subseteq Live
  /\ bytes_current \in 0 .. WordModulus - 1
  /\ old_heap_size \in 0 .. TruncModulus - 1
  /\ drift \in Int

\* bytes_current is an over-estimate of what exists: it is never below
\* OVERHEAD_FACTOR times the sizes of all objects, after any sequence of
\* allocations, insertions and collections.
OverEstimate == bytes_current >= OVERHEAD_FACTOR * Footprint

\* Nothing is taken off that was not counted.
NothingUncounted == ~StringTrees /\ ~AbsentReads

\* In a process without string trees and reads of absent fields the over-estimate
\* holds, through every mix of fast and full collections.
OverEstimateOfCounted == NothingUncounted => OverEstimate

\* The five things that keep bytes_current from being exact are all there are: a
\* closure counts the pointers it captures twice, gcFast forgets the list pointers
\* of what it deletes, and insert counts the capacity of the key it is given, not
\* of the one it stores (the count stays too high); a string tree and an entry
\* made by a read are taken off without having been counted (too low).
\* Everything else a constructor or insert adds, a destructor takes back.
CountIsExplained ==
  bytes_current = (OVERHEAD_FACTOR * (Footprint + drift)) % WordModulus

\* In such a process a collection never raises the count: no destructor takes off
\* more than the count holds, which would wrap around to a huge number and leave
\* the VM collecting at every GarbageCollect instruction.
CollectionLowersCount ==
  [][Collection /\ NothingUncounted => bytes_current' <= bytes_current]_vars
=============================================================================
