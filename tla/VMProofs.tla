------------------------------- MODULE VMProofs -------------------------------
(***************************************************************************)
(* Proofs about VM, for any program, any set of addresses and any number   *)
(* of collections below the wrap-around of the marks: the VM is a client   *)
(* of the collected heap that keeps its contract.  Where a statement needs *)
(* it, compiled code is assumed to call no function in the middle of an    *)
(* expression that has other operands (see RootsAreInUse).                  *)
(***************************************************************************)
EXTENDS VM, HeapLemmas, NumberLemmas, SequenceTheorems

-----------------------------------------------------------------------------
(* The inductive invariant, as predicates of the values of the variables   *)
(* so that the lemmas can state them of the state before and after a step. *)

\* A value the program can see: no pointer, or one to an object other than a
\* ReferenceValue.
Visible(h, v) == v = NoObj \/ (v \in Allocated(h) /\ h.kind[v] # "reference")

\* The ReferenceValue of a captured variable.
Captured(h, r) == r \in Allocated(h) /\ h.kind[r] = "reference"

FrameOK(h, f) ==
  /\ f \in Frame
  /\ \A i \in DOMAIN f.local_variables : Visible(h, f.local_variables[i])
  /\ \A i \in DOMAIN f.local_reference_vars : Captured(h, f.local_reference_vars[i])
  /\ \A i \in DOMAIN f.stack : Visible(h, f.stack[i])

\* A caller that waits in compiled code has no operands: potentially_garbage_collect
\* would not find them.
FramesOK(h, fs) ==
  /\ fs \in Seq(Frame)
  /\ \A i \in DOMAIN fs : FrameOK(h, fs[i])
  /\ MachineCode => \A i \in 1 .. Len(fs) - 1 : fs[i].stack = << >>

GlobalsOK(h, gs) ==
  /\ DOMAIN gs \subseteq Globals
  /\ \A g \in DOMAIN gs : Visible(h, gs[g])

\* A program that runs has a main closure.
MainOK(h, m, fs) ==
  /\ m \in Allocated(h) \cup {NoObj}
  /\ fs # << >> => m # NoObj

\* Closures, and nothing else, have a function, and hold references in the places
\* of the variables that function captures.
WiredAt(h, val, o) ==
  \A s \in Slots :
     (h.slots[o][s] # NoObj /\ h.kind[h.slots[o][s]] = "reference")
       <=> (h.kind[o] = "closure" /\ s \in 1 .. free_vars_[val[o]])

ClosuresOK(h, val) ==
  /\ val \in [Objs -> Functions \cup {NoFunction}]
  /\ \A o \in Objs : h.kind[o] = "closure" <=> val[o] \in Functions
  /\ \A o \in Allocated(h) : WiredAt(h, val, o)

Safe ==
  /\ Healthy(heap)
  /\ ClosuresOK(heap, value)
  /\ MainOK(heap, main_closure, frames)
  /\ GlobalsOK(heap, global_variables)
  /\ FramesOK(heap, frames)

-----------------------------------------------------------------------------
(* Operand stacks.                                                         *)

Elements(q) == {q[i] : i \in DOMAIN q}

\* A push adds one element (operand_stack push_front).
LEMMA PushElements ==
  ASSUME NEW V, NEW v \in V, NEW q \in Seq(V)
  PROVE  /\ <<v>> \o q \in Seq(V)
         /\ Elements(<<v>> \o q) \subseteq {v} \cup Elements(q)
<1>1. <<v>> \in Seq(V) /\ Len(<<v>>) = 1 /\ <<v>>[1] = v
  OBVIOUS
<1>2. /\ <<v>> \o q \in Seq(V)
      /\ Len(<<v>> \o q) = 1 + Len(q)
      /\ \A i \in 1 .. 1 + Len(q) : (<<v>> \o q)[i] = IF i <= 1 THEN <<v>>[i] ELSE q[i - 1]
  BY <1>1, ConcatProperties
<1>3. ASSUME NEW i \in DOMAIN (<<v>> \o q)
      PROVE  (<<v>> \o q)[i] \in {v} \cup Elements(q)
  <2>1. i \in 1 .. 1 + Len(q) /\ Len(q) \in Nat /\ DOMAIN q = 1 .. Len(q)
    BY <1>2, <1>3, LenProperties
  <2>2. CASE i = 1
    BY <1>1, <1>2, <2>1, <2>2
  <2>3. CASE i # 1
    <3>1. i - 1 \in DOMAIN q /\ (<<v>> \o q)[i] = q[i - 1]
      BY <1>2, <2>1, <2>3
    <3> QED BY <3>1 DEF Elements
  <2> QED BY <2>2, <2>3
<1> QED BY <1>2, <1>3 DEF Elements

\* Taking the first n elements off leaves elements that were there (pop_front).
LEMMA PopElements ==
  ASSUME NEW V, NEW q \in Seq(V), NEW n \in Nat, n <= Len(q)
  PROVE  /\ SubSeq(q, n + 1, Len(q)) \in Seq(V)
         /\ Elements(SubSeq(q, n + 1, Len(q))) \subseteq Elements(q)
<1> DEFINE r == SubSeq(q, n + 1, Len(q))
<1>0. Len(q) \in Nat /\ DOMAIN q = 1 .. Len(q) /\ \A i \in 1 .. Len(q) : q[i] \in V
  BY LenProperties, ElementOfSeq
<1>1. n + 1 \in Int /\ Len(q) \in Int /\ \A i \in n + 1 .. Len(q) : q[i] \in V
  BY <1>0
<1>2. /\ r \in Seq(V)
      /\ Len(r) = IF n + 1 <= Len(q) THEN Len(q) - (n + 1) + 1 ELSE 0
      /\ \A i \in 1 .. Len(q) - (n + 1) + 1 : r[i] = q[(n + 1) + i - 1]
  BY <1>1, SubSeqProperties
<1> HIDE DEF r
<1>3. ASSUME NEW i \in DOMAIN r PROVE r[i] \in Elements(q)
  <2>1. i \in 1 .. Len(r)
    BY <1>2, <1>3, LenProperties
  <2>2. i \in 1 .. Len(q) - (n + 1) + 1 /\ (n + 1) + i - 1 \in DOMAIN q
    <3>1. n + 1 <= Len(q)
      <4> SUFFICES ASSUME ~(n + 1 <= Len(q)) PROVE FALSE
        OBVIOUS
      <4>1. Len(r) = 0
        BY <1>2
      <4> QED BY <2>1, <4>1
    <3>2. i \in 1 .. Len(q) - (n + 1) + 1
      BY <1>2, <2>1, <3>1
    <3> QED BY <1>0, <3>2
  <2>3. r[i] = q[(n + 1) + i - 1]
    BY <1>2, <2>2
  <2> QED BY <2>2, <2>3 DEF Elements
<1> QED BY <1>2, <1>3 DEF Elements, r

-----------------------------------------------------------------------------
(* Frames.                                                                 *)

FramePointers(f) ==
  PointersIn(f.local_variables) \cup PointersIn(f.local_reference_vars)
    \cup PointersIn(f.stack)

AllPointers(fs) == UNION {FramePointers(fs[i]) : i \in DOMAIN fs}

\* Heap a has every object of h, and each is of the kind it was.
Preserves(h, a) ==
  /\ Allocated(h) \subseteq Allocated(a)
  /\ \A o \in Allocated(h) : a.kind[o] = h.kind[o]

\* What the VM holds stays what it is as long as no object goes away.
LEMMA PreservesAll ==
  ASSUME NEW h, NEW a, Preserves(h, a)
  PROVE  /\ \A v : Visible(h, v) => Visible(a, v)
         /\ \A fs : FramesOK(h, fs) => FramesOK(a, fs)
         /\ \A gs : GlobalsOK(h, gs) => GlobalsOK(a, gs)
         /\ \A m, fs : MainOK(h, m, fs) => MainOK(a, m, fs)
<1>1. \A v : Visible(h, v) => Visible(a, v)
  BY DEF Preserves, Visible
<1>2. \A r : Captured(h, r) => Captured(a, r)
  BY DEF Preserves, Captured
<1>3. \A f : FrameOK(h, f) => FrameOK(a, f)
  BY <1>1, <1>2 DEF FrameOK
<1>4. \A fs : FramesOK(h, fs) => FramesOK(a, fs)
  BY <1>3 DEF FramesOK
<1>5. \A gs : GlobalsOK(h, gs) => GlobalsOK(a, gs)
  BY <1>1 DEF GlobalsOK
<1>6. \A m, fs : MainOK(h, m, fs) => MainOK(a, m, fs)
  BY DEF Preserves, MainOK
<1> QED BY <1>1, <1>4, <1>5, <1>6

\* The frame on top is replaced by another one that is in order.
LEMMA TopReplaced ==
  ASSUME NEW h, NEW fs, FramesOK(h, fs), fs # << >>, NEW f, FrameOK(h, f),
         NEW ts, ts = [fs EXCEPT ![Len(fs)] = f]
  PROVE  /\ FramesOK(h, ts)
         /\ ts # << >> /\ Len(ts) = Len(fs)
         /\ AllPointers(ts) \subseteq AllPointers(fs) \cup FramePointers(f)
<1>1. fs \in Seq(Frame) /\ f \in Frame
  BY DEF FramesOK, FrameOK
<1>2. Len(fs) \in Nat \ {0} /\ DOMAIN fs = 1 .. Len(fs)
  BY <1>1, LenProperties, EmptySeq
<1>3. /\ ts \in Seq(Frame)
      /\ Len(ts) = Len(fs)
      /\ \A j \in 1 .. Len(fs) : ts[j] = IF j = Len(fs) THEN f ELSE fs[j]
  <2>1. Len(fs) \in 1 .. Len(fs)
    BY <1>2
  <2> QED BY <1>1, <2>1, ExceptSeq
<1>4. DOMAIN ts = 1 .. Len(fs) /\ ts # << >>
  BY <1>2, <1>3, LenProperties
<1>5. \A i \in DOMAIN ts : FrameOK(h, ts[i])
  BY <1>2, <1>3, <1>4 DEF FramesOK
<1>6. ASSUME MachineCode, NEW i \in 1 .. Len(ts) - 1
      PROVE  ts[i].stack = << >>
  <2>0. \A n \in Nat : \A j \in 1 .. n - 1 : j \in 1 .. n /\ j # n
    OBVIOUS
  <2>1. i \in 1 .. Len(fs) - 1 /\ i \in 1 .. Len(fs) /\ i # Len(fs)
    BY <1>2, <1>3, <2>0
  <2>2. fs[i].stack = << >>
    BY <1>6, <2>1 DEF FramesOK
  <2> QED BY <1>3, <2>1, <2>2
<1>7. \A i \in DOMAIN ts : FramePointers(ts[i]) \subseteq AllPointers(fs) \cup FramePointers(f)
  BY <1>2, <1>3, <1>4 DEF AllPointers
<1>8. AllPointers(ts) \subseteq AllPointers(fs) \cup FramePointers(f)
  BY <1>7 DEF AllPointers
<1> QED BY <1>3, <1>4, <1>5, <1>6, <1>8 DEF FramesOK

\* The running frame and its operands.
LEMMA TopFacts ==
  ASSUME NEW h, FramesOK(h, frames), Running
  PROVE  /\ FrameOK(h, Top)
         /\ Stack \in Seq(Values)
         /\ \A v \in Elements(Stack) : Visible(h, v)
         /\ Elements(Stack) \ {NoObj} \subseteq FramePointers(Top)
         /\ FramePointers(Top) \subseteq AllPointers(frames)
         /\ Len(frames) \in Nat \ {0} /\ Len(frames) \in DOMAIN frames
<1>1. frames \in Seq(Frame) /\ frames # << >>
  BY DEF FramesOK, Running
<1>2. Len(frames) \in Nat \ {0} /\ DOMAIN frames = 1 .. Len(frames)
  BY <1>1, LenProperties, EmptySeq
<1>3. Len(frames) \in DOMAIN frames
  BY <1>2
<1>4. FrameOK(h, Top)
  BY <1>3 DEF FramesOK, Top
<1>5. Stack \in Seq(Values)
  BY <1>4 DEF FrameOK, Frame, Stack
<1>6. \A v \in Elements(Stack) : Visible(h, v)
  BY <1>4 DEF FrameOK, Elements, Stack
<1>7. Elements(Stack) \ {NoObj} \subseteq FramePointers(Top)
  BY DEF Elements, FramePointers, PointersIn, Stack
<1>8. FramePointers(Top) \subseteq AllPointers(frames)
  BY <1>3 DEF AllPointers, Top
<1> QED BY <1>2, <1>3, <1>4, <1>5, <1>6, <1>7, <1>8

\* The running frame gets another operand stack.
LEMMA StackReplaced ==
  ASSUME NEW h, FramesOK(h, frames), Running,
         NEW s \in Seq(Values), \A v \in Elements(s) : Visible(h, v), SetStack(s)
  PROVE  /\ FramesOK(h, frames') /\ frames' # << >>
         /\ AllPointers(frames') \subseteq AllPointers(frames) \cup (Elements(s) \ {NoObj})
<1> DEFINE f == [Top EXCEPT !.stack = s]
<1>1. FrameOK(h, Top) /\ FramePointers(Top) \subseteq AllPointers(frames)
  BY TopFacts
<1>2. /\ f \in Frame
      /\ f.local_variables = Top.local_variables
      /\ f.local_reference_vars = Top.local_reference_vars
      /\ f.stack = s
  BY <1>1 DEF FrameOK, Frame
<1>3. frames' = [frames EXCEPT ![Len(frames)] = f]
  BY DEF SetStack, Top
<1> HIDE DEF f
<1>4. FrameOK(h, f)
  BY <1>1, <1>2 DEF FrameOK, Elements
<1>5. FramePointers(f) \subseteq FramePointers(Top) \cup (Elements(s) \ {NoObj})
  BY <1>2 DEF FramePointers, PointersIn, Elements
<1> QED BY <1>1, <1>3, <1>4, <1>5, TopReplaced DEF Running

\* The three ways an instruction leaves the operand stack: n operands go, and a
\* value may come.
LEMMA PushStep ==
  ASSUME NEW h, FramesOK(h, frames), Running,
         NEW v \in Values, Visible(h, v), Push(v)
  PROVE  /\ FramesOK(h, frames') /\ frames' # << >>
         /\ AllPointers(frames') \subseteq AllPointers(frames) \cup ({v} \ {NoObj})
<1> DEFINE s == <<v>> \o Stack
<1>1. s \in Seq(Values) /\ Elements(s) \subseteq {v} \cup Elements(Stack)
  BY TopFacts, PushElements
<1>2. SetStack(s)
  BY DEF Push
<1> HIDE DEF s
<1>3. \A w \in Elements(s) : Visible(h, w)
  BY <1>1, TopFacts
<1>4. /\ FramesOK(h, frames') /\ frames' # << >>
      /\ AllPointers(frames') \subseteq AllPointers(frames) \cup (Elements(s) \ {NoObj})
  BY <1>1, <1>2, <1>3, StackReplaced
<1>5. Elements(Stack) \ {NoObj} \subseteq AllPointers(frames)
  BY TopFacts
<1> QED BY <1>1, <1>4, <1>5

LEMMA ReplaceStep ==
  ASSUME NEW h, FramesOK(h, frames), Running, NEW n \in Nat,
         NEW v \in Values, Visible(h, v), Replace(n, v)
  PROVE  /\ FramesOK(h, frames') /\ frames' # << >>
         /\ AllPointers(frames') \subseteq AllPointers(frames) \cup ({v} \ {NoObj})
<1> DEFINE r == SubSeq(Stack, n + 1, Len(Stack))
           s == <<v>> \o r
<1>0. Stack \in Seq(Values) /\ n <= Len(Stack) /\ SetStack(s)
  <2>1. Stack \in Seq(Values)
    BY TopFacts
  <2>2. Len(Stack) \in Nat /\ Len(Stack) >= n /\ SetStack(s)
    BY <2>1, LenProperties DEF Replace
  <2> QED BY <2>1, <2>2
<1>1. r \in Seq(Values) /\ Elements(r) \subseteq Elements(Stack)
  BY <1>0, PopElements
<1> HIDE DEF r
<1>2. s \in Seq(Values) /\ Elements(s) \subseteq {v} \cup Elements(r)
  BY <1>1, PushElements
<1> HIDE DEF s
<1>3. \A w \in Elements(s) : Visible(h, w)
  BY <1>1, <1>2, TopFacts
<1>4. /\ FramesOK(h, frames') /\ frames' # << >>
      /\ AllPointers(frames') \subseteq AllPointers(frames) \cup (Elements(s) \ {NoObj})
  BY <1>0, <1>2, <1>3, StackReplaced
<1>5. Elements(Stack) \ {NoObj} \subseteq AllPointers(frames)
  BY TopFacts
<1> QED BY <1>1, <1>2, <1>4, <1>5

LEMMA ConsumeStep ==
  ASSUME NEW h, FramesOK(h, frames), Running, NEW n \in Nat, Consume(n)
  PROVE  /\ FramesOK(h, frames') /\ frames' # << >>
         /\ AllPointers(frames') \subseteq AllPointers(frames)
<1> DEFINE r == SubSeq(Stack, n + 1, Len(Stack))
<1>0. Stack \in Seq(Values) /\ n <= Len(Stack) /\ SetStack(r)
  <2>1. Stack \in Seq(Values)
    BY TopFacts
  <2>2. Len(Stack) \in Nat /\ Len(Stack) >= n /\ SetStack(r)
    BY <2>1, LenProperties DEF Consume
  <2> QED BY <2>1, <2>2
<1>1. r \in Seq(Values) /\ Elements(r) \subseteq Elements(Stack)
  BY <1>0, PopElements
<1> HIDE DEF r
<1>2. \A w \in Elements(r) : Visible(h, w)
  BY <1>1, TopFacts
<1>3. /\ FramesOK(h, frames') /\ frames' # << >>
      /\ AllPointers(frames') \subseteq AllPointers(frames) \cup (Elements(r) \ {NoObj})
  BY <1>0, <1>1, <1>2, StackReplaced
<1>4. Elements(Stack) \ {NoObj} \subseteq AllPointers(frames)
  BY TopFacts
<1> QED BY <1>1, <1>3, <1>4

-----------------------------------------------------------------------------
(* What one step has to show.                                              *)

\* The pointers in use, and those one step of following them leads to.
LEMMA InUseParts ==
  /\ InUse = (({main_closure} \ {NoObj}) \cup PointersIn(global_variables))
               \cup AllPointers(frames)
  /\ InUse' = (({main_closure'} \ {NoObj}) \cup PointersIn(global_variables'))
                \cup AllPointers(frames')
  BY DEF InUse, AllPointers, FramePointers, PointersIn

Known == InUse \cup ({heap.slots[o][s] : o \in InUse, s \in Slots} \ {NoObj})

\* What the invariant says of the pointers in use.
LEMMA SafeFacts ==
  ASSUME Safe
  PROVE  /\ Healthy(heap) /\ heap \in HeapType
         /\ Allocated(heap) \subseteq Objs
         /\ Fresh(heap) = Objs \ Allocated(heap)
         /\ InUse \subseteq Allocated(heap)
         /\ Known \subseteq Allocated(heap)
         /\ \A v : Visible(heap, v) => v \in Values
<1>1. Healthy(heap) /\ heap \in HeapType /\ Allocated(heap) \subseteq Objs
  BY DEF Safe, Healthy, HeapType, Allocated
<1>2. ASSUME NEW f, FrameOK(heap, f) PROVE FramePointers(f) \subseteq Allocated(heap)
  BY <1>2 DEF FrameOK, FramePointers, PointersIn, Visible, Captured
<1>3. AllPointers(frames) \subseteq Allocated(heap)
  BY <1>2 DEF Safe, FramesOK, AllPointers
<1>4. PointersIn(global_variables) \subseteq Allocated(heap)
  BY DEF Safe, GlobalsOK, PointersIn, Visible
<1>5. InUse \subseteq Allocated(heap)
  BY <1>3, <1>4, InUseParts DEF Safe, MainOK
<1>6. Known \subseteq Allocated(heap)
  BY <1>1, <1>5 DEF Known, Healthy
<1>7. \A v : Visible(heap, v) => v \in Values
  BY <1>1 DEF Visible, Values
<1> QED BY <1>1, <1>5, <1>6, <1>7 DEF Fresh

\* A collection that leaves no more than CollectionIsPrecise says.
Precise ==
  Allocated(heap') =
    IF Generational /\ heap'.generation = heap.generation + 1
    THEN heap.old_objects \cup Reach(heap.slots, InUse \cup heap.old_objects)
    ELSE Reach(heap.slots, InUse)

GoodStep ==
  /\ Safe'
  /\ [Client!Promise!Next]_(Client!Promise!vars)
  /\ heap'.generation # heap.generation => Precise

\* A step of several parts, seen from the invariant.
LEMMA SafeAfter ==
  ASSUME Healthy(heap'), ClosuresOK(heap', value'), MainOK(heap', main_closure', frames'),
         GlobalsOK(heap', global_variables'), FramesOK(heap', frames')
  PROVE  Safe'
<1>1. Healthy(heap)' = Healthy(heap')
  BY DEF Healthy, Allocated, Fresh, HeapType
<1>2. ClosuresOK(heap, value)' = ClosuresOK(heap', value')
  BY DEF ClosuresOK, WiredAt, Allocated
<1>3. MainOK(heap, main_closure, frames)' = MainOK(heap', main_closure', frames')
  BY DEF MainOK, Allocated
<1>4. GlobalsOK(heap, global_variables)' = GlobalsOK(heap', global_variables')
  BY DEF GlobalsOK, Visible, Allocated
<1>5. FramesOK(heap, frames)' = FramesOK(heap', frames')
  BY DEF FramesOK, FrameOK, Visible, Captured, Allocated
<1> QED BY <1>1, <1>2, <1>3, <1>4, <1>5 DEF Safe

\* A step that leaves the heap alone and takes no pointer it does not know is a
\* move of the abstract heap.
LEMMA MoveStep ==
  ASSUME Safe, heap' = heap, value' = value, main_closure' = main_closure,
         MainOK(heap, main_closure, frames'),
         GlobalsOK(heap, global_variables'), FramesOK(heap, frames'),
         InUse' \subseteq Known
  PROVE  GoodStep
<1>1. Safe'
  BY SafeAfter DEF Safe
<1>2. Client!Promise!Move
  BY DEF Client!Promise!Move, Client!Promise!Known, Known, Client!Allocated
<1> QED BY <1>1, <1>2 DEF GoodStep, Client!Promise!Next

\* A heap that grows keeps what it held, and its closures, when the new objects are
\* wired as they should be.
LEMMA GrowthFacts ==
  ASSUME Safe, NEW N, NEW a, GrowsBy(heap, N, a)
  PROVE  /\ Healthy(a) /\ a \in HeapType /\ Allocated(a) \subseteq Objs
         /\ N \subseteq Objs /\ N \cap Allocated(heap) = {} /\ N \subseteq Allocated(a)
         /\ Allocated(heap) \subseteq Objs \ N
         /\ Preserves(heap, a)
         /\ FramesOK(a, frames)
         /\ GlobalsOK(a, global_variables)
         /\ MainOK(a, main_closure, frames)
         /\ \A q \in N : value[q] \notin Functions
<1>1. Healthy(a) /\ a \in HeapType /\ Allocated(a) \subseteq Objs
  BY DEF GrowsBy, Healthy, HeapType, Allocated
<1>2. /\ N \subseteq Objs /\ N \cap Allocated(heap) = {} /\ N \subseteq Allocated(a)
      /\ Allocated(heap) \subseteq Objs \ N
  BY SafeFacts DEF GrowsBy, Fresh
<1>3. Preserves(heap, a)
  BY <1>2 DEF GrowsBy, Preserves
<1>4. \A q \in N : value[q] \notin Functions
  <2>1. \A q \in N : heap.kind[q] = "free"
    BY <1>2, SafeFacts DEF GrowsBy, Healthy
  <2> QED BY <1>2, <2>1 DEF Safe, ClosuresOK
<1> QED BY <1>1, <1>2, <1>3, <1>4, PreservesAll DEF Safe

LEMMA GrowthClosures ==
  ASSUME Safe, NEW N, NEW a, GrowsBy(heap, N, a),
         NEW val \in [Objs -> Functions \cup {NoFunction}],
         \A q \in Objs \ N : val[q] = value[q],
         \A q \in N : /\ a.kind[q] = "closure" <=> val[q] \in Functions
                      /\ WiredAt(a, val, q)
  PROVE  ClosuresOK(a, val)
<1>0. /\ Allocated(heap) \subseteq Objs \ N
      /\ Allocated(a) = Allocated(heap) \cup N
      /\ \A q \in Objs \ N : a.slots[q] = heap.slots[q] /\ a.kind[q] = heap.kind[q]
  BY GrowthFacts DEF GrowsBy
<1>1. \A q \in Objs : a.kind[q] = "closure" <=> val[q] \in Functions
  BY <1>0 DEF Safe, ClosuresOK
<1>2. ASSUME NEW q \in Allocated(heap) PROVE WiredAt(a, val, q)
  <2>1. a.slots[q] = heap.slots[q] /\ a.kind[q] = heap.kind[q] /\ val[q] = value[q]
    BY <1>0, <1>2
  <2>2. \A s \in Slots : heap.slots[q][s] \in Allocated(heap) \cup {NoObj}
    BY <1>2, SafeFacts DEF Healthy
  <2>3. \A s \in Slots : heap.slots[q][s] # NoObj
          => a.kind[heap.slots[q][s]] = heap.kind[heap.slots[q][s]]
    BY <1>0, <2>2
  <2>4. WiredAt(heap, value, q)
    BY <1>2 DEF Safe, ClosuresOK
  <2> QED BY <2>1, <2>3, <2>4 DEF WiredAt
<1> QED BY <1>0, <1>1, <1>2 DEF ClosuresOK

\* New objects that are no closures and hold no references.
LEMMA PlainGrowth ==
  ASSUME Safe, NEW N, NEW a, GrowsBy(heap, N, a),
         \A q \in N : /\ a.kind[q] # "closure"
                      /\ \A s \in Slots : Visible(a, a.slots[q][s])
  PROVE  ClosuresOK(a, value)
<1>1. \A q \in N : value[q] \notin Functions
  BY GrowthFacts
<1>2. \A q \in N : WiredAt(a, value, q)
  BY DEF WiredAt, Visible
<1>3. value \in [Objs -> Functions \cup {NoFunction}]
  BY DEF Safe, ClosuresOK
<1> QED BY <1>1, <1>2, <1>3, GrowthClosures

\* A step that adds objects wired to what the program knows is a creation of the
\* abstract heap.
LEMMA GrowStep ==
  ASSUME Safe, NEW N, GrowsBy(heap, N, heap'),
         ClosuresOK(heap', value'), MainOK(heap', main_closure', frames'),
         GlobalsOK(heap', global_variables'), FramesOK(heap', frames'),
         \A q \in N, s \in Slots : heap'.slots[q][s] \in Known \cup N \cup {NoObj},
         InUse' \subseteq Known \cup N
  PROVE  GoodStep
<1>1. Safe'
  BY GrowthFacts, SafeAfter
<1>2. Client!Promise!Create
  <2>1. N \in SUBSET (Objs \ Allocated(heap))
    BY GrowthFacts
  <2>2. heap'.slots \in [Objs -> [Slots -> Values]]
    BY GrowthFacts DEF HeapType
  <2>3. \A q \in Objs \ N : heap'.slots[q] = heap.slots[q]
    BY DEF GrowsBy
  <2>4. Allocated(heap') = Allocated(heap) \cup N
    BY DEF GrowsBy
  <2>5. Known = Client!Promise!Known
    BY DEF Client!Promise!Known, Known
  <2>6. Client!Allocated(heap) = Allocated(heap) /\ Client!Allocated(heap)' = Allocated(heap')
    BY DEF Client!Allocated, Allocated
  <2> QED BY <2>1, <2>2, <2>3, <2>4, <2>5, <2>6
          DEF Client!Promise!Create, Client!Promise!Values, Values
<1>3. heap'.generation = heap.generation
  BY DEF GrowsBy
<1> QED BY <1>1, <1>2, <1>3 DEF GoodStep, Client!Promise!Next

\* A step that stores a value of the program into a record or a reference it holds
\* is an update of the abstract heap.
LEMMA UpdateStep ==
  ASSUME Safe, NEW o \in InUse, heap.kind[o] \in {"record", "reference"},
         NEW s \in Slots, NEW v, Visible(heap, v), v \in Known \cup {NoObj},
         heap' = store(heap, o, s, v),
         value' = value, main_closure' = main_closure,
         global_variables' = global_variables,
         FramesOK(heap, frames'), frames' # << >>, Running,
         AllPointers(frames') \subseteq AllPointers(frames)
  PROVE  GoodStep
<1>0. /\ Healthy(heap) /\ o \in Allocated(heap) /\ o \in Objs
      /\ v \in Allocated(heap) \cup {NoObj}
      /\ heap.slots \in [Objs -> [Slots -> Values]]
  BY SafeFacts DEF HeapType
<1>1. Updates(heap, o, s, v, heap')
  BY <1>0, StoreHealthy
<1>2. Preserves(heap, heap')
  BY <1>1 DEF Updates, Preserves
<1>3. ClosuresOK(heap', value)
  <2>1. \A q \in Allocated(heap), r \in Slots :
          heap'.slots[q][r] = IF q = o /\ r = s THEN v ELSE heap.slots[q][r]
    BY <1>0, <1>1, SafeFacts DEF Updates
  <2>2. ASSUME NEW q \in Allocated(heap) PROVE WiredAt(heap', value, q)
    <3>1. WiredAt(heap, value, q)
      BY <2>2 DEF Safe, ClosuresOK
    <3>2. heap'.kind = heap.kind
      BY <1>1 DEF Updates
    <3>3. q = o => heap.kind[q] # "closure"
      OBVIOUS
    <3>4. v # NoObj => heap.kind[v] # "reference"
      BY DEF Visible
    <3> QED BY <2>1, <2>2, <3>1, <3>2, <3>3, <3>4 DEF WiredAt
  <2> QED BY <1>1, <2>2 DEF Safe, ClosuresOK, Updates
<1>4. Safe'
  <2>1. Healthy(heap')
    BY <1>1 DEF Updates
  <2>2. MainOK(heap', main_closure, frames')
    BY <1>2 DEF Safe, MainOK, Preserves, Running
  <2> QED BY <1>2, <1>3, <2>1, <2>2, PreservesAll, SafeAfter DEF Safe
<1>5. Client!Promise!Update
  <2>1. InUse' \subseteq InUse
    BY InUseParts
  <2>2. Known = Client!Promise!Known /\ InUse \subseteq Known
    BY DEF Client!Promise!Known, Known
  <2>3. Client!Allocated(heap)' = Client!Allocated(heap)
    BY <1>1 DEF Client!Allocated, Allocated, Updates
  <2>4. heap'.slots = [heap.slots EXCEPT ![o][s] = v]
    BY <1>1 DEF Updates
  <2> QED BY <2>1, <2>2, <2>3, <2>4 DEF Client!Promise!Update
<1>6. heap'.generation = heap.generation
  BY <1>1 DEF Updates
<1> QED BY <1>4, <1>5, <1>6 DEF GoodStep, Client!Promise!Next

-----------------------------------------------------------------------------
(* Instructions that touch neither heap nor globals.                       *)

\* The operands of the running function.
LEMMA OperandFacts ==
  ASSUME Safe, Running
  PROVE  /\ Stack \in Seq(Values) /\ Len(Stack) \in Nat
         /\ \A i \in 1 .. Len(Stack) : /\ Visible(heap, Stack[i])
                                       /\ Stack[i] \in InUse \cup {NoObj}
         /\ Stack # << >> => Len(Stack) >= 1 /\ Head(Stack) = Stack[1]
<1>1. FramesOK(heap, frames)
  BY DEF Safe
<1>2. Stack \in Seq(Values) /\ DOMAIN Stack = 1 .. Len(Stack) /\ Len(Stack) \in Nat
  BY <1>1, TopFacts, LenProperties
<1>3. \A i \in 1 .. Len(Stack) : Stack[i] \in Elements(Stack)
  BY <1>2 DEF Elements
<1>4. Elements(Stack) \ {NoObj} \subseteq InUse
  BY <1>1, TopFacts, InUseParts
<1>5. \A v \in Elements(Stack) : Visible(heap, v)
  BY <1>1, TopFacts
<1>6. Stack # << >> => Len(Stack) >= 1 /\ Head(Stack) = Stack[1]
  BY <1>2
<1> QED BY <1>2, <1>3, <1>4, <1>5, <1>6

\* What an object other than a closure holds is a value of the program.
LEMMA SlotsAreVisible ==
  ASSUME Safe, NEW o \in InUse, heap.kind[o] # "closure", NEW s \in Slots
  PROVE  /\ Visible(heap, heap.slots[o][s])
         /\ heap.slots[o][s] \in Known \cup {NoObj}
         /\ heap.slots[o][s] \in Values
<1>1. o \in Allocated(heap)
  BY SafeFacts
<1>2. heap.slots[o][s] \in Allocated(heap) \cup {NoObj}
  BY <1>1, SafeFacts DEF Healthy
<1>3. WiredAt(heap, value, o)
  BY <1>1 DEF Safe, ClosuresOK
<1>4. Visible(heap, heap.slots[o][s])
  BY <1>2, <1>3 DEF WiredAt, Visible
<1> QED BY <1>4, SafeFacts DEF Known

\* A step that only moves pointers the program knows between the running frame's
\* places.
LEMMA FrameStep ==
  ASSUME Safe, Running, FramesOK(heap, frames'), frames' # << >>,
         NEW K, K \subseteq Known, AllPointers(frames') \subseteq AllPointers(frames) \cup K,
         UNCHANGED <<heap, value, main_closure, global_variables>>
  PROVE  GoodStep
<1>1. MainOK(heap, main_closure, frames')
  BY DEF Safe, MainOK, Running
<1>2. InUse' \subseteq InUse \cup K
  BY InUseParts
<1>3. InUse \subseteq Known
  BY DEF Known
<1> QED BY <1>1, <1>2, <1>3, MoveStep DEF Safe

LEMMA PushKnown ==
  ASSUME Safe, Running, NEW v, Visible(heap, v), v \in Known \cup {NoObj}, Push(v),
         UNCHANGED <<heap, value, main_closure, global_variables>>
  PROVE  GoodStep
<1>1. v \in Values /\ FramesOK(heap, frames)
  BY SafeFacts DEF Safe
<1>2. /\ FramesOK(heap, frames') /\ frames' # << >>
      /\ AllPointers(frames') \subseteq AllPointers(frames) \cup ({v} \ {NoObj})
  BY <1>1, PushStep
<1>3. {v} \ {NoObj} \subseteq Known
  OBVIOUS
<1> QED BY <1>2, <1>3, FrameStep

LEMMA ReplaceKnown ==
  ASSUME Safe, Running, NEW n \in Nat, NEW v, Visible(heap, v), v \in Known \cup {NoObj},
         Replace(n, v), UNCHANGED <<heap, value, main_closure, global_variables>>
  PROVE  GoodStep
<1>1. v \in Values /\ FramesOK(heap, frames)
  BY SafeFacts DEF Safe
<1>2. /\ FramesOK(heap, frames') /\ frames' # << >>
      /\ AllPointers(frames') \subseteq AllPointers(frames) \cup ({v} \ {NoObj})
  BY <1>1, ReplaceStep
<1>3. {v} \ {NoObj} \subseteq Known
  OBVIOUS
<1> QED BY <1>2, <1>3, FrameStep

\* NoObj stands for every value that is no pointer.
LEMMA NoObjIsVisible ==
  Visible(heap, NoObj) /\ NoObj \in Known \cup {NoObj} /\ NoObj \in Values
  BY DEF Visible, Values

\* StoreLocal: the top of the stack moves to a local variable.
LEMMA StoreLocalStep ==
  ASSUME Safe, Running, StoreLocal,
         UNCHANGED <<heap, value, main_closure, global_variables>>
  PROVE  GoodStep
<1>0. FramesOK(heap, frames) /\ FrameOK(heap, Top)
      /\ FramePointers(Top) \subseteq AllPointers(frames)
  BY TopFacts DEF Safe
<1>1. PICK i \in DOMAIN Top.local_variables :
        /\ Stack # << >>
        /\ frames' = [frames EXCEPT
                        ![Len(frames)].local_variables[i] = Head(Stack),
                        ![Len(frames)].stack = Tail(Stack)]
  BY DEF StoreLocal
<1> DEFINE v == Head(Stack)
           f == [Top EXCEPT !.local_variables[i] = v, !.stack = Tail(Stack)]
<1>2. frames' = [frames EXCEPT ![Len(frames)] = f]
  BY <1>1 DEF Top
<1>3. /\ Stack \in Seq(Values) /\ Visible(heap, v) /\ v \in InUse \cup {NoObj} /\ v \in Values
  <2>1. Stack \in Seq(Values) /\ Visible(heap, v) /\ v \in InUse \cup {NoObj}
    BY <1>1, OperandFacts
  <2> QED BY <2>1, SafeFacts
<1>4. /\ Tail(Stack) \in Seq(Values)
      /\ Elements(Tail(Stack)) \subseteq Elements(Stack)
  <2>1. Tail(Stack) = SubSeq(Stack, 1 + 1, Len(Stack))
    BY <1>1, <1>3, TailIsSubSeq
  <2>2. 1 \in Nat /\ 1 <= Len(Stack)
    BY <1>1, OperandFacts
  <2> QED BY <1>3, <2>1, <2>2, PopElements
<1> DEFINE l == [Top.local_variables EXCEPT ![i] = v]
<1>5. /\ l \in Seq(Values)
      /\ DOMAIN l = DOMAIN Top.local_variables
      /\ \A j \in DOMAIN l : l[j] = v \/ l[j] = Top.local_variables[j]
  <2>1. Top.local_variables \in Seq(Values)
    BY <1>0 DEF FrameOK, Frame
  <2>2. i \in 1 .. Len(Top.local_variables)
    BY <2>1, LenProperties
  <2>3. /\ l \in Seq(Values) /\ Len(l) = Len(Top.local_variables)
        /\ \A j \in 1 .. Len(Top.local_variables) :
              l[j] = IF j = i THEN v ELSE Top.local_variables[j]
    BY <1>3, <2>1, <2>2, ExceptSeq
  <2>4. DOMAIN l = 1 .. Len(Top.local_variables)
        /\ DOMAIN Top.local_variables = 1 .. Len(Top.local_variables)
    BY <2>1, <2>3, LenProperties
  <2> QED BY <2>3, <2>4
<1>6. /\ f \in Frame
      /\ f.local_variables = l
      /\ f.local_reference_vars = Top.local_reference_vars
      /\ f.stack = Tail(Stack)
  <2> HIDE DEF l
  <2>1. f = [Top EXCEPT !.local_variables = l, !.stack = Tail(Stack)]
    BY DEF l
  <2> QED BY <1>0, <1>4, <1>5, <2>1 DEF FrameOK, Frame
<1> HIDE DEF f, l, v
<1>7. \A w \in Elements(Tail(Stack)) : Visible(heap, w)
  BY <1>0, <1>4, TopFacts
<1>8. FrameOK(heap, f)
  BY <1>0, <1>3, <1>5, <1>6, <1>7 DEF FrameOK, Elements
<1>9. FramePointers(f) \subseteq InUse
  <2>1. FramePointers(Top) \subseteq InUse /\ Elements(Stack) \ {NoObj} \subseteq InUse
    BY <1>0, TopFacts, InUseParts
  <2>2. PointersIn(l) \subseteq PointersIn(Top.local_variables) \cup ({v} \ {NoObj})
    BY <1>5 DEF PointersIn
  <2>3. PointersIn(Tail(Stack)) \subseteq Elements(Stack) \ {NoObj}
    BY <1>4 DEF PointersIn, Elements
  <2> QED BY <1>3, <1>6, <2>1, <2>2, <2>3 DEF FramePointers
<1>10. /\ FramesOK(heap, frames') /\ frames' # << >>
       /\ AllPointers(frames') \subseteq AllPointers(frames) \cup FramePointers(f)
  BY <1>0, <1>2, <1>8, TopReplaced DEF Running
<1>11. FramePointers(f) \subseteq Known
  BY <1>9 DEF Known
<1> QED BY <1>10, <1>11, FrameStep

\* The references of the running function are ReferenceValues in use.
LEMMA ReferencesInUse ==
  ASSUME Safe, Running, NEW i \in DOMAIN Top.local_reference_vars
  PROVE  /\ Top.local_reference_vars[i] \in InUse
         /\ Captured(heap, Top.local_reference_vars[i])
         /\ Top.local_reference_vars[i] # NoObj
<1>1. Captured(heap, Top.local_reference_vars[i])
  BY TopFacts DEF Safe, FrameOK
<1>2. Top.local_reference_vars[i] # NoObj
  BY <1>1, SafeFacts, HeapAssumption DEF Captured
<1>3. FramePointers(Top) \subseteq InUse
  BY TopFacts, InUseParts DEF Safe
<1> QED BY <1>1, <1>2, <1>3 DEF FramePointers, PointersIn

\* One case per instruction that touches neither heap nor globals.
LEMMA OperandStepIsGood ==
  ASSUME Safe, Running, OperandStep
  PROVE  GoodStep
<1>0. UNCHANGED <<heap, value, main_closure, global_variables>>
  BY DEF OperandStep
<1>f. /\ FrameOK(heap, Top) /\ FramesOK(heap, frames)
      /\ FramePointers(Top) \subseteq InUse /\ InUse \subseteq Known
  BY TopFacts, InUseParts DEF Safe, Known
<1>1. CASE LoadConst
  BY <1>0, <1>1, NoObjIsVisible, PushKnown DEF LoadConst
<1>2. CASE LoadLocal
  <2>1. PICK i \in DOMAIN Top.local_variables : Push(Top.local_variables[i])
    BY <1>2 DEF LoadLocal
  <2>2. Visible(heap, Top.local_variables[i])
    BY <1>f DEF FrameOK
  <2>3. Top.local_variables[i] \in Known \cup {NoObj}
    BY <1>f DEF FramePointers, PointersIn
  <2> QED BY <1>0, <2>1, <2>2, <2>3, PushKnown
<1>3. CASE StoreLocal
  BY <1>0, <1>3, StoreLocalStep
<1>4. CASE LoadReference
  <2>1. PICK i \in DOMAIN Top.local_reference_vars :
          Push(heap.slots[Top.local_reference_vars[i]][ValueSlot])
    BY <1>4 DEF LoadReference
  <2>2. Top.local_reference_vars[i] \in InUse /\ ValueSlot \in Slots
    BY ReferencesInUse, HeapAssumption
  <2>3. heap.kind[Top.local_reference_vars[i]] # "closure"
    BY ReferencesInUse DEF Captured
  <2> QED BY <1>0, <2>1, <2>2, <2>3, SlotsAreVisible, PushKnown
<1>5. CASE FieldLoad
  <2>1. PICK s \in Fields :
          /\ Stack # << >> /\ Kind(Head(Stack)) = "record"
          /\ Replace(1, heap.slots[Head(Stack)][s])
    BY <1>5 DEF FieldLoad
  <2>2. Head(Stack) \in InUse /\ heap.kind[Head(Stack)] # "closure" /\ s \in Slots
    BY <2>1, OperandFacts, ProgramAssumption DEF Kind
  <2> QED BY <1>0, <2>1, <2>2, SlotsAreVisible, ReplaceKnown
<1>6. CASE IndexLoad
  <2>1. PICK s \in Fields :
          /\ Len(Stack) >= 2 /\ Kind(Stack[2]) = "record"
          /\ Replace(2, heap.slots[Stack[2]][s])
    BY <1>6 DEF IndexLoad
  <2>2. Stack[2] \in InUse /\ heap.kind[Stack[2]] # "closure" /\ s \in Slots
    BY <2>1, OperandFacts, ProgramAssumption DEF Kind
  <2> QED BY <1>0, <2>1, <2>2, SlotsAreVisible, ReplaceKnown
<1>7. CASE BinaryOperation
  BY <1>0, <1>7, NoObjIsVisible, ReplaceKnown DEF BinaryOperation
<1>8. CASE Pop
  <2>1. /\ FramesOK(heap, frames') /\ frames' # << >>
        /\ AllPointers(frames') \subseteq AllPointers(frames) \cup {}
    BY <1>f, <1>8, ConsumeStep DEF Pop
  <2> QED BY <1>0, <2>1, FrameStep
<1>9. CASE Dup
  <2>1. /\ Push(Head(Stack)) /\ Visible(heap, Head(Stack))
        /\ Head(Stack) \in Known \cup {NoObj}
    BY <1>f, <1>9, OperandFacts DEF Dup
  <2> QED BY <1>0, <2>1, PushKnown
<1>10. CASE Swap
  <2> DEFINE r == SubSeq(Stack, 2 + 1, Len(Stack))
             s == <<Stack[2], Stack[1]>> \o r
  <2>1. Len(Stack) >= 2 /\ SetStack(s)
    BY <1>10 DEF Swap
  <2>2. /\ Stack \in Seq(Values) /\ Len(Stack) \in Nat /\ 2 <= Len(Stack)
        /\ Stack[1] \in Elements(Stack) /\ Stack[2] \in Elements(Stack)
    BY <2>1, OperandFacts DEF Elements
  <2>3. r \in Seq(Values) /\ Elements(r) \subseteq Elements(Stack)
    BY <2>2, PopElements
  <2> HIDE DEF r
  <2>4. Stack[1] \in Values /\ Stack[2] \in Values
    BY <2>2, ElementOfSeq
  <2>5. /\ <<Stack[1]>> \o r \in Seq(Values)
        /\ Elements(<<Stack[1]>> \o r) \subseteq {Stack[1]} \cup Elements(r)
    BY <2>3, <2>4, PushElements
  <2>6. /\ <<Stack[2]>> \o (<<Stack[1]>> \o r) \in Seq(Values)
        /\ Elements(<<Stack[2]>> \o (<<Stack[1]>> \o r))
             \subseteq {Stack[2]} \cup Elements(<<Stack[1]>> \o r)
    BY <2>4, <2>5, PushElements
  <2>7. s = <<Stack[2]>> \o (<<Stack[1]>> \o r)
    <3>1. <<Stack[2]>> \in Seq(Values) /\ <<Stack[1]>> \in Seq(Values)
      BY <2>4
    <3>2. <<Stack[2], Stack[1]>> = <<Stack[2]>> \o <<Stack[1]>>
      BY <2>4
    <3> QED BY <2>3, <3>1, <3>2, ConcatAssociative
  <2>8. s \in Seq(Values) /\ Elements(s) \subseteq Elements(Stack)
    BY <2>2, <2>3, <2>5, <2>6, <2>7
  <2> HIDE DEF s
  <2>9. \A v \in Elements(s) : Visible(heap, v)
    BY <1>f, <2>8, TopFacts
  <2>10. /\ FramesOK(heap, frames') /\ frames' # << >>
         /\ AllPointers(frames') \subseteq AllPointers(frames) \cup (Elements(s) \ {NoObj})
    BY <1>f, <2>1, <2>8, <2>9, StackReplaced
  <2>11. Elements(s) \ {NoObj} \subseteq Known
    BY <1>f, <2>8, TopFacts
  <2> QED BY <1>0, <2>10, <2>11, FrameStep
<1> QED BY <1>1, <1>2, <1>3, <1>4, <1>5, <1>6, <1>7, <1>8, <1>9, <1>10 DEF OperandStep

-----------------------------------------------------------------------------
(* Global variables and writes into objects.                               *)

\* Assigning a name keeps the map in order and adds one pointer to it.
LEMMA AssignedFacts ==
  ASSUME NEW h, GlobalsOK(h, global_variables), NEW g \in Globals,
         NEW v, Visible(h, v), Assigned(g, v)
  PROVE  /\ GlobalsOK(h, global_variables')
         /\ PointersIn(global_variables')
              \subseteq PointersIn(global_variables) \cup ({v} \ {NoObj})
<1>1. /\ DOMAIN global_variables' = DOMAIN global_variables \cup {g}
      /\ \A x \in DOMAIN global_variables' :
            global_variables'[x] = IF x = g THEN v ELSE global_variables[x]
  BY DEF Assigned
<1> QED BY <1>1 DEF GlobalsOK, PointersIn

LEMMA LoadGlobalStep ==
  ASSUME Safe, Running, LoadGlobal
  PROVE  GoodStep
<1>1. PICK g \in Globals :
        /\ IF g \in DOMAIN global_variables
           THEN Push(global_variables[g]) /\ UNCHANGED global_variables
           ELSE MachineCode /\ Push(NoObj) /\ Assigned(g, NoObj)
        /\ UNCHANGED <<heap, value, main_closure>>
  BY DEF LoadGlobal
<1>2. CASE g \in DOMAIN global_variables
  <2>1. Visible(heap, global_variables[g])
    BY <1>2 DEF Safe, GlobalsOK
  <2>2. global_variables[g] \in Known \cup {NoObj}
    BY <1>2, InUseParts DEF PointersIn, Known
  <2> QED BY <1>1, <1>2, <2>1, <2>2, PushKnown
<1>3. CASE g \notin DOMAIN global_variables
  <2>1. /\ GlobalsOK(heap, global_variables')
        /\ PointersIn(global_variables') \subseteq PointersIn(global_variables)
    BY <1>1, <1>3, NoObjIsVisible, AssignedFacts DEF Safe
  <2>2. /\ FramesOK(heap, frames') /\ frames' # << >>
        /\ AllPointers(frames') \subseteq AllPointers(frames)
    BY <1>1, <1>3, NoObjIsVisible, PushStep DEF Safe
  <2>3. MainOK(heap, main_closure, frames')
    BY <2>2 DEF Safe, MainOK, Running
  <2>4. InUse' \subseteq Known
    BY <1>1, <2>1, <2>2, InUseParts DEF Known
  <2> QED BY <1>1, <2>1, <2>2, <2>3, <2>4, MoveStep
<1> QED BY <1>2, <1>3

LEMMA StoreGlobalStep ==
  ASSUME Safe, Running, StoreGlobal
  PROVE  GoodStep
<1>1. PICK g \in Globals :
        /\ Stack # << >>
        /\ Assigned(g, Head(Stack))
        /\ Consume(1)
        /\ UNCHANGED <<heap, value, main_closure>>
  BY DEF StoreGlobal
<1>2. Visible(heap, Head(Stack)) /\ Head(Stack) \in InUse \cup {NoObj}
  BY <1>1, OperandFacts
<1>3. /\ GlobalsOK(heap, global_variables')
      /\ PointersIn(global_variables')
           \subseteq PointersIn(global_variables) \cup ({Head(Stack)} \ {NoObj})
  BY <1>1, <1>2, AssignedFacts DEF Safe
<1>4. /\ FramesOK(heap, frames') /\ frames' # << >>
      /\ AllPointers(frames') \subseteq AllPointers(frames)
  BY <1>1, ConsumeStep DEF Safe
<1>5. MainOK(heap, main_closure, frames')
  BY <1>4 DEF Safe, MainOK, Running
<1>6. InUse' \subseteq Known
  BY <1>1, <1>2, <1>3, <1>4, InUseParts DEF Known
<1> QED BY <1>1, <1>3, <1>4, <1>5, <1>6, MoveStep

\* The top of the stack is stored into a record or reference in use.
LEMMA StoreOperand ==
  ASSUME Safe, Running, Stack # << >>,
         NEW o \in InUse, heap.kind[o] \in {"record", "reference"},
         NEW s \in Slots, heap' = store(heap, o, s, Head(Stack)),
         NEW n \in Nat, Consume(n),
         UNCHANGED <<value, main_closure, global_variables>>
  PROVE  GoodStep
<1>1. Visible(heap, Head(Stack)) /\ Head(Stack) \in Known \cup {NoObj}
  BY OperandFacts DEF Known
<1>2. /\ FramesOK(heap, frames') /\ frames' # << >>
      /\ AllPointers(frames') \subseteq AllPointers(frames)
  BY ConsumeStep DEF Safe
<1> QED BY <1>1, <1>2, UpdateStep

LEMMA StoreReferenceStep ==
  ASSUME Safe, Running, StoreReference
  PROVE  GoodStep
<1>1. PICK i \in DOMAIN Top.local_reference_vars :
        /\ Stack # << >>
        /\ heap' = store(heap, Top.local_reference_vars[i], ValueSlot, Head(Stack))
        /\ Consume(1)
        /\ UNCHANGED <<value, main_closure, global_variables>>
  BY DEF StoreReference, write
<1>2. /\ Top.local_reference_vars[i] \in InUse
      /\ heap.kind[Top.local_reference_vars[i]] \in {"record", "reference"}
      /\ ValueSlot \in Slots /\ 1 \in Nat
  BY ReferencesInUse, HeapAssumption DEF Captured
<1> QED BY <1>1, <1>2, StoreOperand

LEMMA FieldStoreStep ==
  ASSUME Safe, Running, FieldStore \/ IndexStore
  PROVE  GoodStep
<1>1. CASE FieldStore
  <2>1. PICK s \in Fields :
          /\ Len(Stack) >= 2 /\ Kind(Stack[2]) = "record"
          /\ heap' = store(heap, Stack[2], s, Head(Stack))
          /\ Consume(2)
          /\ UNCHANGED <<value, main_closure, global_variables>>
    BY <1>1 DEF FieldStore, insert
  <2>2. Stack[2] \in InUse /\ heap.kind[Stack[2]] \in {"record", "reference"}
    BY <2>1, OperandFacts DEF Kind
  <2>3. s \in Slots /\ 2 \in Nat /\ Stack # << >>
    BY <2>1, ProgramAssumption
  <2> QED BY <2>1, <2>2, <2>3, StoreOperand
<1>2. CASE IndexStore
  <2>1. PICK s \in Fields :
          /\ Len(Stack) >= 3 /\ Kind(Stack[3]) = "record"
          /\ heap' = store(heap, Stack[3], s, Head(Stack))
          /\ Consume(3)
          /\ UNCHANGED <<value, main_closure, global_variables>>
    BY <1>2 DEF IndexStore, insert
  <2>2. Stack[3] \in InUse /\ heap.kind[Stack[3]] \in {"record", "reference"}
    BY <2>1, OperandFacts DEF Kind
  <2>3. s \in Slots /\ 3 \in Nat /\ Stack # << >>
    BY <2>1, ProgramAssumption
  <2> QED BY <2>1, <2>2, <2>3, StoreOperand
<1> QED BY <1>1, <1>2

-----------------------------------------------------------------------------
(* Allocation.                                                             *)

\* New objects that are no closures, and that the running frame may hold.
LEMMA PlainGrowthStep ==
  ASSUME Safe, Running, NEW N, GrowsBy(heap, N, heap'),
         \A q \in N : heap'.kind[q] # "closure",
         \A q \in N, s \in Slots : /\ heap'.slots[q][s] \in Known \cup N \cup {NoObj}
                                   /\ Visible(heap', heap'.slots[q][s]),
         FramesOK(heap', frames'), frames' # << >>,
         AllPointers(frames') \subseteq AllPointers(frames) \cup N,
         UNCHANGED <<value, main_closure, global_variables>>
  PROVE  GoodStep
<1>1. ClosuresOK(heap', value')
  BY PlainGrowth
<1>2. GlobalsOK(heap', global_variables') /\ MainOK(heap', main_closure', frames')
  <2>1. GlobalsOK(heap', global_variables) /\ MainOK(heap', main_closure, frames)
    BY GrowthFacts
  <2> QED BY <2>1 DEF MainOK, Running
<1>3. InUse' \subseteq Known \cup N
  BY InUseParts DEF Known
<1> QED BY <1>1, <1>2, <1>3, GrowStep

\* One new object without pointers: a record, a string or a function.
LEMMA NewLeaf ==
  ASSUME Safe, NEW o \in Fresh(heap), NEW k \in {"record", "string", "function"},
         NEW a, a = allocate(heap, o, k, NoPointers)
  PROVE  /\ GrowsBy(heap, {o}, a)
         /\ \A q \in {o} : a.kind[q] # "closure"
         /\ \A q \in {o}, s \in Slots :
               /\ a.slots[q][s] \in Known \cup {o} \cup {NoObj}
               /\ Visible(a, a.slots[q][s])
         /\ Visible(a, o) /\ o \in Values
         /\ FramesOK(a, frames)
<1>1. k \in Kinds /\ NoPointers \in [Slots -> Allocated(heap) \cup {NoObj}]
  BY DEF Kinds, NoPointers
<1>2. Healthy(heap)
  BY DEF Safe
<1>3. Adds(heap, o, k, NoPointers, a)
  BY <1>1, <1>2, AllocateHealthy
<1>4. GrowsBy(heap, {o}, a) /\ a.kind[o] = k /\ a.slots[o] = NoPointers
  BY <1>3 DEF Adds
<1>5. \A s \in Slots : a.slots[o][s] = NoObj
  BY <1>4 DEF NoPointers
<1>6. FramesOK(a, frames) /\ o \in Allocated(a) /\ o \in Objs
  BY <1>4, GrowthFacts
<1> QED BY <1>4, <1>5, <1>6 DEF Visible, Values

\* The new object goes on the operand stack, in the place of n operands.
LEMMA LeafStep ==
  ASSUME Safe, Running, NEW o \in Fresh(heap), NEW k \in {"record", "string", "function"},
         heap' = allocate(heap, o, k, NoPointers),
         Push(o) \/ \E n \in Nat : Replace(n, o),
         UNCHANGED <<value, main_closure, global_variables>>
  PROVE  GoodStep
<1>1. /\ GrowsBy(heap, {o}, heap')
      /\ \A q \in {o} : heap'.kind[q] # "closure"
      /\ \A q \in {o}, s \in Slots :
            /\ heap'.slots[q][s] \in Known \cup {o} \cup {NoObj}
            /\ Visible(heap', heap'.slots[q][s])
      /\ Visible(heap', o) /\ o \in Values
      /\ FramesOK(heap', frames)
  BY NewLeaf
<1>2. /\ FramesOK(heap', frames') /\ frames' # << >>
      /\ AllPointers(frames') \subseteq AllPointers(frames) \cup ({o} \ {NoObj})
  BY <1>1, PushStep, ReplaceStep
<1>3. AllPointers(frames') \subseteq AllPointers(frames) \cup {o}
  BY <1>2
<1> QED BY <1>1, <1>2, <1>3, PlainGrowthStep

LEMMA AllocRecordStep ==
  ASSUME Safe, Running, AllocRecord
  PROVE  GoodStep
<1>1. PICK o \in Fresh(heap) :
        heap' = allocate(heap, o, "record", NoPointers) /\ Push(o)
  BY DEF AllocRecord, new_record
<1> QED BY <1>1, LeafStep DEF AllocRecord

LEMMA LoadBuiltInStep ==
  ASSUME Safe, Running, LoadBuiltIn
  PROVE  GoodStep
<1>1. PICK o \in Fresh(heap) :
        heap' = allocate(heap, o, "function", NoPointers) /\ Push(o)
  BY DEF LoadBuiltIn, new_function
<1> QED BY <1>1, LeafStep DEF LoadBuiltIn

LEMMA CallBuiltInStep ==
  ASSUME Safe, Running, CallBuiltIn
  PROVE  GoodStep
<1>0. UNCHANGED <<value, main_closure, global_variables>>
  BY DEF CallBuiltIn
<1>1. CASE Replace(2, NoObj) /\ UNCHANGED heap
  BY <1>0, <1>1, NoObjIsVisible, ReplaceKnown
<1>2. CASE \E o \in Fresh(heap) : heap' = new_string(heap, o) /\ Replace(1, o)
  <2>1. PICK o \in Fresh(heap) :
          heap' = allocate(heap, o, "string", NoPointers) /\ Replace(1, o)
    BY <1>2 DEF new_string
  <2>2. \E n \in Nat : Replace(n, o)
    BY <2>1
  <2> QED BY <1>0, <2>1, <2>2, LeafStep
<1> QED BY <1>1, <1>2 DEF CallBuiltIn

LEMMA ConcatenateStep ==
  ASSUME Safe, Running, Concatenate
  PROVE  GoodStep
<1>1. PICK o \in Fresh(heap), p \in Objs :
        /\ Len(Stack) >= 2
        /\ IF StringTrees /\ (IsObject(heap, Stack[1]) \/ IsObject(heap, Stack[2]))
           THEN p \in Fresh(heap) \ {o}
           ELSE p = o
        /\ heap' = IF StringTrees
                   THEN new_string_tree(heap, o, p, Stack[2], Stack[1])
                   ELSE new_string(heap, o)
        /\ Replace(2, o)
        /\ UNCHANGED <<value, main_closure, global_variables>>
  BY DEF Concatenate
<1>2. CASE ~StringTrees
  <2>1. heap' = allocate(heap, o, "string", NoPointers)
    BY <1>1, <1>2 DEF new_string
  <2>2. \E n \in Nat : Replace(n, o)
    BY <1>1
  <2> QED BY <1>1, <2>1, <2>2, LeafStep
<1>3. CASE StringTrees
  <2> DEFINE l == Stack[2]
             r == Stack[1]
  <2>1. /\ Visible(heap, l) /\ l \in InUse \cup {NoObj}
        /\ Visible(heap, r) /\ r \in InUse \cup {NoObj}
    BY <1>1, OperandFacts
  <2>2. /\ heap' = new_string_tree(heap, o, p, l, r)
        /\ IF IsObject(heap, l) \/ IsObject(heap, r) THEN p \in Fresh(heap) \ {o} ELSE p = o
    BY <1>1, <1>3
  <2> HIDE DEF l, r
  <2>3. AddsStrings(heap, o, p, l, r, heap')
    <3>1. /\ Healthy(heap)
          /\ l \in Allocated(heap) \cup {NoObj} /\ r \in Allocated(heap) \cup {NoObj}
      BY <2>1, SafeFacts
    <3> QED BY <2>2, <3>1, StringTreeGrows
  <2>4. /\ GrowsBy(heap, {o, p}, heap')
        /\ \A q \in {o, p} : heap'.kind[q] = "string"
        /\ \A q \in {o, p}, s \in Slots : heap'.slots[q][s] \in {l, r, p, NoObj}
    BY <2>3 DEF AddsStrings
  <2>5. /\ Preserves(heap, heap') /\ FramesOK(heap', frames)
        /\ {o, p} \subseteq Allocated(heap') /\ o \in Objs
    BY <2>4, GrowthFacts
  <2>6. /\ Visible(heap', l) /\ Visible(heap', r) /\ Visible(heap', NoObj)
        /\ Visible(heap', p) /\ Visible(heap', o) /\ o \in Values
    <3>1. Visible(heap', p) /\ Visible(heap', o) /\ Visible(heap', NoObj) /\ o \in Values
      BY <2>4, <2>5 DEF Visible, Values
    <3> QED BY <2>1, <2>5, <3>1, PreservesAll
  <2>7. /\ FramesOK(heap', frames') /\ frames' # << >>
        /\ AllPointers(frames') \subseteq AllPointers(frames) \cup ({o} \ {NoObj})
    BY <1>1, <2>5, <2>6, ReplaceStep
  <2>8. AllPointers(frames') \subseteq AllPointers(frames) \cup {o, p}
    BY <2>7
  <2>9. \A q \in {o, p}, s \in Slots :
          /\ heap'.slots[q][s] \in Known \cup {o, p} \cup {NoObj}
          /\ Visible(heap', heap'.slots[q][s])
    <3>1. {l, r, p, NoObj} \subseteq Known \cup {o, p} \cup {NoObj}
      BY <2>1 DEF Known
    <3>2. \A v \in {l, r, p, NoObj} : Visible(heap', v)
      BY <2>6
    <3> QED BY <2>4, <3>1, <3>2
  <2>10. \A q \in {o, p} : heap'.kind[q] # "closure"
    BY <2>4
  <2> QED BY <1>1, <2>4, <2>7, <2>8, <2>9, <2>10, PlainGrowthStep
<1> QED BY <1>2, <1>3

LEMMA FunctionExpressionStep ==
  ASSUME Safe, Running, FunctionExpression
  PROVE  GoodStep
<1>1. PICK g \in functions_[Top.func], bare \in Fresh(heap), o \in Fresh(heap) :
        \E captured \in [1 .. free_vars_[g] -> DOMAIN Top.local_reference_vars] :
          /\ bare # o
          /\ heap' = new_closure(new_function(heap, bare), o,
                       [s \in Slots |-> IF s \in 1 .. free_vars_[g]
                                        THEN Top.local_reference_vars[captured[s]]
                                        ELSE NoObj])
          /\ value' = [value EXCEPT ![o] = g]
          /\ Push(o)
          /\ UNCHANGED <<main_closure, global_variables>>
  BY DEF FunctionExpression
<1>2. PICK captured \in [1 .. free_vars_[g] -> DOMAIN Top.local_reference_vars] :
        /\ bare # o
        /\ heap' = new_closure(new_function(heap, bare), o,
                     [s \in Slots |-> IF s \in 1 .. free_vars_[g]
                                      THEN Top.local_reference_vars[captured[s]]
                                      ELSE NoObj])
        /\ value' = [value EXCEPT ![o] = g]
        /\ Push(o)
        /\ UNCHANGED <<main_closure, global_variables>>
  BY <1>1
<1> DEFINE c == [s \in Slots |-> IF s \in 1 .. free_vars_[g]
                                 THEN Top.local_reference_vars[captured[s]]
                                 ELSE NoObj]
           h == allocate(heap, bare, "function", NoPointers)
<1>3. g \in Functions
  <2>1. Top.func \in Functions
    BY TopFacts DEF Safe, FrameOK, Frame
  <2> QED BY <2>1, ProgramAssumption
<1>4. /\ \A s \in Slots : s \in 1 .. free_vars_[g]
            => c[s] \in InUse /\ Captured(heap, c[s]) /\ c[s] # NoObj
      /\ \A s \in Slots : s \notin 1 .. free_vars_[g] => c[s] = NoObj
      /\ c = [s \in Slots |-> c[s]]
  BY ReferencesInUse
<1>5. heap' = allocate(h, o, "closure", c)
  BY <1>2 DEF new_closure, new_function
<1>6. Adds(heap, bare, "function", NoPointers, h)
  <2>1. "function" \in Kinds /\ NoPointers \in [Slots -> Allocated(heap) \cup {NoObj}]
    BY DEF Kinds, NoPointers
  <2> QED BY <2>1, AllocateHealthy DEF Safe
<1> HIDE DEF c, h
<1>7. Adds(h, o, "closure", c, heap')
  <2>1. Healthy(h) /\ Allocated(h) = Allocated(heap) \cup {bare} /\ o \in Fresh(h)
    BY <1>2, <1>6 DEF Adds, GrowsBy, Fresh
  <2>2. c \in [Slots -> Allocated(h) \cup {NoObj}] /\ "closure" \in Kinds
    BY <1>4, <2>1, SafeFacts DEF Kinds
  <2> QED BY <1>5, <2>1, <2>2, AllocateHealthy
<1> DEFINE N == {bare} \cup {o}
<1>8. GrowsBy(heap, N, heap')
  BY <1>6, <1>7, GrowsTwice DEF Adds, Safe
<1>9. /\ heap'.kind[o] = "closure" /\ heap'.slots[o] = c
      /\ heap'.kind[bare] = "function" /\ heap'.slots[bare] = NoPointers
  <2>1. bare \in Objs \ {o}
    BY <1>2 DEF Fresh
  <2> QED BY <1>6, <1>7, <2>1 DEF Adds, GrowsBy
<1>10. /\ Preserves(heap, heap') /\ FramesOK(heap', frames)
       /\ GlobalsOK(heap', global_variables) /\ MainOK(heap', main_closure, frames)
       /\ N \subseteq Objs /\ N \subseteq Allocated(heap')
       /\ value[bare] \notin Functions
  BY <1>8, GrowthFacts
<1>11. ClosuresOK(heap', value')
  <2>1. value \in [Objs -> Functions \cup {NoFunction}]
    BY DEF Safe, ClosuresOK
  <2>2. /\ value' \in [Objs -> Functions \cup {NoFunction}]
        /\ \A q \in Objs \ N : value'[q] = value[q]
        /\ value'[o] = g /\ value'[bare] = value[bare]
    BY <1>2, <1>3, <1>10, <2>1
  <2>3. WiredAt(heap', value', o)
    <3>1. \A s \in Slots : s \in 1 .. free_vars_[g]
            => c[s] # NoObj /\ heap'.kind[c[s]] = "reference"
      BY <1>4, <1>10 DEF Captured, Preserves
    <3> QED BY <1>4, <1>9, <2>2, <3>1 DEF WiredAt
  <2>4. WiredAt(heap', value', bare)
    BY <1>9 DEF WiredAt, NoPointers
  <2> QED BY <1>3, <1>8, <1>9, <1>10, <2>2, <2>3, <2>4, GrowthClosures
<1>12. \A q \in N, s \in Slots : heap'.slots[q][s] \in Known \cup N \cup {NoObj}
  <2>1. \A s \in Slots : c[s] \in Known \cup {NoObj} /\ NoPointers[s] = NoObj
    BY <1>4 DEF Known, NoPointers
  <2> QED BY <1>9, <2>1
<1>13. Visible(heap', o) /\ o \in Values
  BY <1>9, <1>10 DEF Visible, Values
<1>14. /\ FramesOK(heap', frames') /\ frames' # << >>
       /\ AllPointers(frames') \subseteq AllPointers(frames) \cup ({o} \ {NoObj})
  BY <1>2, <1>10, <1>13, PushStep
<1>15. GlobalsOK(heap', global_variables') /\ MainOK(heap', main_closure', frames')
  BY <1>2, <1>10 DEF MainOK, Running
<1>16. InUse' \subseteq Known \cup N
  BY <1>2, <1>14, InUseParts DEF Known
<1> QED BY <1>8, <1>11, <1>12, <1>14, <1>15, <1>16, GrowStep

-----------------------------------------------------------------------------
(* Calls and returns.                                                      *)

\* A function on 1 .. n is a sequence.
LEMMA FunctionIsSeq ==
  ASSUME NEW S, NEW n \in Nat, NEW f \in [1 .. n -> S]
  PROVE  f \in Seq(S) /\ Len(f) = n
<1>1. f \in Seq(S)
  BY SeqDef
<1> QED BY <1>1

\* The program starts: the first frame has no variables.
LEMMA InterpretStep ==
  ASSUME Safe, interpret
  PROVE  GoodStep
<1>1. PICK o \in Fresh(heap) :
        /\ heap' = allocate(heap, o, "closure", NoPointers)
        /\ value' = [value EXCEPT ![o] = MainFunction]
        /\ main_closure' = o
        /\ frames' = <<FrameOfCall(o, MainFunction, << >>, << >>)>>
  BY DEF interpret, new_closure
<1>2. global_variables' = global_variables
  BY DEF interpret
<1>3. Adds(heap, o, "closure", NoPointers, heap')
  <2>1. "closure" \in Kinds /\ NoPointers \in [Slots -> Allocated(heap) \cup {NoObj}]
    BY DEF Kinds, NoPointers
  <2> QED BY <1>1, <2>1, AllocateHealthy DEF Safe
<1>4. GrowsBy(heap, {o}, heap') /\ heap'.kind[o] = "closure" /\ heap'.slots[o] = NoPointers
  BY <1>3 DEF Adds
<1>5. /\ GlobalsOK(heap', global_variables) /\ o \in Objs /\ o \in Allocated(heap')
  BY <1>4, GrowthFacts
<1>6. ClosuresOK(heap', value')
  <2>1. value \in [Objs -> Functions \cup {NoFunction}]
    BY DEF Safe, ClosuresOK
  <2>2. /\ value' \in [Objs -> Functions \cup {NoFunction}]
        /\ \A q \in Objs \ {o} : value'[q] = value[q]
        /\ value'[o] = MainFunction /\ MainFunction \in Functions
        /\ free_vars_[MainFunction] = 0
    BY <1>1, <1>5, <2>1, ProgramAssumption
  <2>3. WiredAt(heap', value', o)
    BY <1>4, <2>2 DEF WiredAt, NoPointers
  <2> QED BY <1>4, <2>2, <2>3, GrowthClosures
<1> DEFINE f == FrameOfCall(o, MainFunction, << >>, << >>)
<1>7. /\ f.closure = o /\ f.func = MainFunction /\ f.stack = << >>
      /\ f.local_variables \in [1 .. 0 -> Values]
      /\ f.local_reference_vars \in [1 .. 0 -> Objs]
      /\ f \in [closure : {f.closure}, func : {f.func},
                local_variables : {f.local_variables},
                local_reference_vars : {f.local_reference_vars}, stack : {f.stack}]
  BY ProgramAssumption DEF FrameOfCall
<1> HIDE DEF f
<1>8. /\ f.local_variables \in Seq(Values) /\ f.local_reference_vars \in Seq(Objs)
      /\ f.stack \in Seq(Values)
      /\ DOMAIN f.local_variables = {} /\ DOMAIN f.local_reference_vars = {}
      /\ DOMAIN f.stack = {}
  BY <1>7, FunctionIsSeq, EmptySeq
<1>9. f \in Frame
  BY <1>5, <1>7, <1>8, ProgramAssumption DEF Frame
<1>10. FrameOK(heap', f) /\ FramePointers(f) = {}
  BY <1>8, <1>9 DEF FrameOK, FramePointers, PointersIn
<1>11. /\ frames' \in Seq(Frame) /\ Len(frames') = 1 /\ DOMAIN frames' = {1}
       /\ frames'[1] = f /\ frames' # << >>
  BY <1>1, <1>9 DEF f
<1>12. FramesOK(heap', frames') /\ AllPointers(frames') = {}
  BY <1>10, <1>11 DEF FramesOK, AllPointers
<1>13. MainOK(heap', main_closure', frames')
  BY <1>1, <1>5, HeapAssumption DEF MainOK
<1>14. InUse' \subseteq Known \cup {o}
  BY <1>1, <1>2, <1>12, InUseParts DEF Known
<1>15. \A q \in {o}, s \in Slots : heap'.slots[q][s] \in Known \cup {o} \cup {NoObj}
  BY <1>4 DEF NoPointers
<1> QED BY <1>2, <1>4, <1>5, <1>6, <1>12, <1>13, <1>14, <1>15, GrowStep

\* The frame on top goes, and the one below it gets the result.
LEMMA ReturnStep ==
  ASSUME Safe, Running, Return
  PROVE  GoodStep
<1>0. /\ FramesOK(heap, frames) /\ Len(frames) \in Nat \ {0}
      /\ DOMAIN frames = 1 .. Len(frames) /\ Stack # << >>
      /\ UNCHANGED <<heap, value, main_closure, global_variables>>
  BY TopFacts, LenProperties DEF Safe, FramesOK, Return
<1>1. Visible(heap, Head(Stack)) /\ Head(Stack) \in InUse \cup {NoObj} /\ Head(Stack) \in Values
  <2>1. Visible(heap, Head(Stack)) /\ Head(Stack) \in InUse \cup {NoObj}
    BY <1>0, OperandFacts
  <2> QED BY <2>1, SafeFacts
<1>2. FramesOK(heap, frames') /\ AllPointers(frames') \subseteq InUse
  <2>1. CASE Len(frames) = 1
    <3>1. frames' = << >>
      BY <2>1 DEF Return
    <3>2. << >> \in Seq(Frame) /\ DOMAIN << >> = {} /\ Len(<< >>) = 0
      BY EmptySeq
    <3> QED BY <3>1, <3>2 DEF FramesOK, AllPointers
  <2>2. CASE Len(frames) # 1
    <3> DEFINE m == Len(frames) - 1
               f == [frames[m] EXCEPT !.stack = <<Head(Stack)>> \o @]
               fs == [i \in 1 .. m |-> IF i < m THEN frames[i] ELSE f]
    <3>1. frames' = [i \in 1 .. m |-> IF i < m THEN frames[i]
                       ELSE [frames[i] EXCEPT !.stack = <<Head(Stack)>> \o @]]
      BY <2>2 DEF Return
    <3>2. /\ m \in Nat \ {0} /\ m \in DOMAIN frames /\ 1 .. m \subseteq DOMAIN frames
          /\ \A i \in 1 .. m : ~(i < m) => i = m
          /\ \A i \in 1 .. m - 1 : i < m /\ i \in 1 .. m /\ i \in 1 .. Len(frames) - 1
      <4>1. \A n \in Nat : n # 0 /\ n # 1 =>
              /\ n - 1 \in Nat \ {0} /\ n - 1 \in 1 .. n /\ 1 .. n - 1 \subseteq 1 .. n
              /\ \A i \in 1 .. n - 1 : ~(i < n - 1) => i = n - 1
              /\ \A i \in 1 .. (n - 1) - 1 : i < n - 1 /\ i \in 1 .. n - 1
        OBVIOUS
      <4> QED BY <1>0, <2>2, <4>1
    <3>3. frames' = fs
      BY <3>1, <3>2
    <3>4. FrameOK(heap, frames[m]) /\ FramePointers(frames[m]) \subseteq InUse
      BY <1>0, <3>2, InUseParts DEF FramesOK, AllPointers
    <3>5. /\ f \in Frame
          /\ f.local_variables = frames[m].local_variables
          /\ f.local_reference_vars = frames[m].local_reference_vars
          /\ Elements(f.stack) \subseteq {Head(Stack)} \cup Elements(frames[m].stack)
      <4>1. frames[m] \in Frame /\ frames[m].stack \in Seq(Values)
        BY <3>4 DEF FrameOK, Frame
      <4>2. /\ <<Head(Stack)>> \o frames[m].stack \in Seq(Values)
            /\ Elements(<<Head(Stack)>> \o frames[m].stack)
                 \subseteq {Head(Stack)} \cup Elements(frames[m].stack)
        BY <1>1, <4>1, PushElements
      <4> QED BY <4>1, <4>2 DEF Frame
    <3> HIDE DEF f, m
    <3>6. FrameOK(heap, f)
      BY <1>1, <3>4, <3>5 DEF FrameOK, Elements
    <3>7. FramePointers(f) \subseteq InUse
      BY <1>1, <3>4, <3>5 DEF FramePointers, PointersIn, Elements
    <3>8. \A i \in 1 .. m : fs[i] = (IF i < m THEN frames[i] ELSE f)
      OBVIOUS
    <3>9. \A i \in 1 .. m : FrameOK(heap, fs[i]) /\ FramePointers(fs[i]) \subseteq InUse
      BY <1>0, <3>2, <3>6, <3>7, <3>8, InUseParts DEF FramesOK, AllPointers
    <3>10. fs \in [1 .. m -> Frame]
      BY <3>9 DEF FrameOK
    <3>11. fs \in Seq(Frame) /\ Len(fs) = m /\ DOMAIN fs = 1 .. m
      BY <3>2, <3>10, FunctionIsSeq
    <3>12. MachineCode => \A i \in 1 .. m - 1 : fs[i].stack = << >>
      BY <1>0, <3>2, <3>8 DEF FramesOK
    <3> HIDE DEF fs
    <3> QED BY <3>3, <3>9, <3>11, <3>12 DEF FramesOK, AllPointers
  <2> QED BY <2>1, <2>2
<1>3. MainOK(heap, main_closure, frames')
  BY DEF Safe, MainOK, Running
<1>4. InUse' \subseteq Known
  BY <1>0, <1>2, InUseParts DEF Known
<1> QED BY <1>0, <1>2, <1>3, <1>4, MoveStep DEF Safe

-----------------------------------------------------------------------------
(* The heap a call leaves: the loops of ClosureFunctionValue::call.        *)

\* Heap a is h with the ReferenceValues N, which hold values of V.
RefsBuilt(h, N, V, a) ==
  /\ GrowsBy(h, N, a)
  /\ \A q \in N : a.kind[q] = "reference"
  /\ \A q \in N, s \in Slots : a.slots[q][s] \in V \cup {NoObj}

\* One round of the loop that allocates the captured locals.
LEMMA ReferenceAdded ==
  ASSUME NEW h, Healthy(h), NEW N, NEW V, NEW a, RefsBuilt(h, N, V, a),
         NEW o \in Fresh(h), o \notin N
  PROVE  RefsBuilt(h, N \cup {o}, V, new_reference(a, o))
<1> DEFINE b == new_reference(a, o)
<1>1. Healthy(a) /\ o \in Fresh(a) /\ N \subseteq Objs \ {o} /\ GrowsBy(h, N, a)
  BY DEF RefsBuilt, GrowsBy, Fresh
<1>2. Adds(a, o, "reference", NoPointers, b)
  <2>1. "reference" \in Kinds /\ NoPointers \in [Slots -> Allocated(a) \cup {NoObj}]
    BY DEF Kinds, NoPointers
  <2> QED BY <1>1, <2>1, AllocateHealthy DEF new_reference
<1> HIDE DEF b
<1>3. GrowsBy(a, {o}, b) /\ b.kind[o] = "reference" /\ b.slots[o] = NoPointers
  BY <1>2 DEF Adds
<1>4. GrowsBy(h, N \cup {o}, b)
  BY <1>1, <1>3, GrowsTwice
<1>5. \A q \in N : b.kind[q] = a.kind[q] /\ b.slots[q] = a.slots[q]
  BY <1>1, <1>3 DEF GrowsBy
<1>6. \A q \in N \cup {o} : b.kind[q] = "reference"
  BY <1>3, <1>5 DEF RefsBuilt
<1>7. \A s \in Slots : b.slots[o][s] = NoObj
  BY <1>3 DEF NoPointers
<1>8. \A q \in N \cup {o}, s \in Slots : b.slots[q][s] \in V \cup {NoObj}
  BY <1>5, <1>7 DEF RefsBuilt
<1> QED BY <1>4, <1>6, <1>8 DEF RefsBuilt, b

\* One round of the loop that gives captured parameters their arguments.
LEMMA ArgumentWritten ==
  ASSUME NEW h, Healthy(h), NEW N, NEW V, V \subseteq Allocated(h),
         NEW a, RefsBuilt(h, N, V, a), NEW o \in N, NEW v \in V \cup {NoObj}
  PROVE  RefsBuilt(h, N, V, write(a, o, v))
<1> DEFINE b == write(a, o, v)
<1>1. /\ GrowsBy(h, N, a) /\ Healthy(a) /\ a.kind[o] = "reference"
      /\ o \in Allocated(a) /\ v \in Allocated(a) \cup {NoObj}
      /\ N \subseteq Objs /\ a.slots \in [Objs -> [Slots -> Values]]
  BY DEF RefsBuilt, GrowsBy, Fresh, Healthy, HeapType
<1>2. Updates(a, o, ValueSlot, v, b)
  <2>1. ValueSlot \in Slots
    BY HeapAssumption
  <2> QED BY <1>1, <2>1, StoreHealthy DEF write
<1> HIDE DEF b
<1>3. /\ Healthy(b) /\ Allocated(b) = Allocated(a) /\ b.kind = a.kind
      /\ b.generation = a.generation
      /\ b.slots = [a.slots EXCEPT ![o][ValueSlot] = v]
  BY <1>2 DEF Updates
<1>4. /\ \A q \in Objs \ N : b.slots[q] = a.slots[q]
      /\ \A q \in N, s \in Slots : b.slots[q][s] = v \/ b.slots[q][s] = a.slots[q][s]
  BY <1>1, <1>3
<1>5. GrowsBy(h, N, b)
  BY <1>1, <1>3, <1>4 DEF GrowsBy
<1>6. \A q \in N, s \in Slots : b.slots[q][s] \in V \cup {NoObj}
  BY <1>4 DEF RefsBuilt
<1> QED BY <1>1, <1>3, <1>5, <1>6 DEF RefsBuilt, b

\* The heaps after each round of the two loops: the functions of HeapForCall.
IsAllocations(A, h, n, fresh) ==
  A = [i \in 0 .. n |-> IF i = 0 THEN h ELSE new_reference(A[i - 1], fresh[i])]

IsWrites(W, h, n, mapping, fresh, args) ==
  W = [j \in 0 .. n |-> IF j = 0 THEN h
                        ELSE IF mapping[j] = 0 THEN W[j - 1]
                        ELSE write(W[j - 1], fresh[mapping[j]], args[j])]

\* What HeapForCall recurs on exists.
LEMMA AllocationsExist ==
  ASSUME NEW h, NEW n \in Nat, NEW fresh
  PROVE  \E A : IsAllocations(A, h, n, fresh)
<1> DEFINE Upto(m, A) ==
             A = [i \in 0 .. m |-> IF i = 0 THEN h ELSE new_reference(A[i - 1], fresh[i])]
           S == {m \in 0 .. n : \E A : Upto(m, A)}
<1>1. 0 \in S
  <2> DEFINE A == [i \in 0 .. 0 |-> h]
  <2>1. Upto(0, A) /\ 0 \in 0 .. n
    OBVIOUS
  <2> HIDE DEF A, Upto
  <2> QED BY <2>1
<1>2. ASSUME NEW m \in 0 .. n, m < n, m \in S PROVE m + 1 \in S
  <2>1. PICK A : Upto(m, A)
    BY <1>2
  <2> DEFINE B == [i \in 0 .. m + 1 |-> IF i <= m THEN A[i]
                                        ELSE new_reference(A[m], fresh[m + 1])]
  <2>2. /\ A[0] = h
        /\ \A i \in 1 .. m : A[i] = new_reference(A[i - 1], fresh[i])
    BY <2>1
  <2>3. \A i \in 0 .. m + 1 : B[i] = IF i = 0 THEN h ELSE new_reference(B[i - 1], fresh[i])
    <3> SUFFICES ASSUME NEW i \in 0 .. m + 1
                 PROVE  B[i] = IF i = 0 THEN h ELSE new_reference(B[i - 1], fresh[i])
      OBVIOUS
    <3>1. CASE i = 0
      BY <2>2, <3>1
    <3>2. CASE i \in 1 .. m
      <4>1. B[i] = A[i] /\ B[i - 1] = A[i - 1]
        BY <3>2
      <4> QED BY <2>2, <3>2, <4>1
    <3>3. CASE i = m + 1
      <4>1. B[i] = new_reference(A[m], fresh[m + 1]) /\ B[i - 1] = A[m]
        BY <3>3
      <4> QED BY <3>3, <4>1
    <3> QED BY <3>1, <3>2, <3>3
  <2>4. B = [i \in 0 .. m + 1 |-> B[i]]
    OBVIOUS
  <2> HIDE DEF B
  <2>5. Upto(m + 1, B)
    BY <2>3, <2>4
  <2>6. m + 1 \in 0 .. n
    BY <1>2
  <2> QED BY <2>5, <2>6
<1>3. n \in S
  <2> HIDE DEF S
  <2>1. 0 .. n \subseteq S
    BY <1>1, <1>2, CountingUp
  <2> QED BY <2>1
<1> QED BY <1>3 DEF IsAllocations

LEMMA WritesExist ==
  ASSUME NEW h, NEW n \in Nat, NEW fresh, NEW mapping, NEW args
  PROVE  \E W : IsWrites(W, h, n, mapping, fresh, args)
<1> DEFINE Round(b, j) == IF mapping[j] = 0 THEN b ELSE write(b, fresh[mapping[j]], args[j])
           Upto(m, W) == W = [j \in 0 .. m |-> IF j = 0 THEN h ELSE Round(W[j - 1], j)]
           S == {m \in 0 .. n : \E W : Upto(m, W)}
<1> HIDE DEF Round
<1>1. 0 \in S
  <2> DEFINE W == [i \in 0 .. 0 |-> h]
  <2>1. Upto(0, W) /\ 0 \in 0 .. n
    OBVIOUS
  <2> HIDE DEF W, Upto
  <2> QED BY <2>1
<1>2. ASSUME NEW m \in 0 .. n, m < n, m \in S PROVE m + 1 \in S
  <2>1. PICK W : Upto(m, W)
    BY <1>2
  <2> DEFINE B == [i \in 0 .. m + 1 |-> IF i <= m THEN W[i] ELSE Round(W[m], m + 1)]
  <2>2. W[0] = h /\ \A i \in 1 .. m : W[i] = Round(W[i - 1], i)
    BY <2>1
  <2>3. \A i \in 0 .. m + 1 : B[i] = IF i = 0 THEN h ELSE Round(B[i - 1], i)
    <3> SUFFICES ASSUME NEW i \in 0 .. m + 1
                 PROVE  B[i] = IF i = 0 THEN h ELSE Round(B[i - 1], i)
      OBVIOUS
    <3>1. CASE i = 0
      BY <2>2, <3>1
    <3>2. CASE i \in 1 .. m
      <4>1. B[i] = W[i] /\ B[i - 1] = W[i - 1]
        BY <3>2
      <4> QED BY <2>2, <3>2, <4>1
    <3>3. CASE i = m + 1
      <4>1. B[i] = Round(W[m], m + 1) /\ B[i - 1] = W[m]
        BY <3>3
      <4> QED BY <3>3, <4>1
    <3> QED BY <3>1, <3>2, <3>3
  <2>4. B = [i \in 0 .. m + 1 |-> B[i]]
    OBVIOUS
  <2> HIDE DEF B
  <2>5. Upto(m + 1, B)
    BY <2>3, <2>4
  <2>6. m + 1 \in 0 .. n
    BY <1>2
  <2> QED BY <2>5, <2>6
<1>3. n \in S
  <2> HIDE DEF S
  <2>1. 0 .. n \subseteq S
    BY <1>1, <1>2, CountingUp
  <2> QED BY <2>1
<1> QED BY <1>3 DEF Round, IsWrites

\* The references a call allocates, and the values they hold.
LEMMA HeapForCallBuilds ==
  ASSUME NEW f \in Functions, NEW V, V \subseteq Allocated(heap), Healthy(heap),
         NEW args \in Seq(V \cup {NoObj}), Len(args) = Len(arg_mapping[f]),
         NEW fresh \in [1 .. local_reference_vars_[f] -> Fresh(heap)],
         \A i, j \in DOMAIN fresh : i # j => fresh[i] # fresh[j]
  PROVE  RefsBuilt(heap, {fresh[i] : i \in 1 .. local_reference_vars_[f]}, V,
                   HeapForCall(f, args, fresh))
<1> DEFINE n == local_reference_vars_[f]
           A == CHOOSE B : IsAllocations(B, heap, n, fresh)
           W == CHOOSE B : IsWrites(B, A[n], Len(args), arg_mapping[f], fresh, args)
           N == {fresh[i] : i \in 1 .. n}
<1>1. HeapForCall(f, args, fresh) = W[Len(args)]
  BY DEF HeapForCall, IsAllocations, IsWrites
<1>2. /\ n \in Nat /\ Len(args) \in Nat
      /\ \A j \in 1 .. Len(args) : arg_mapping[f][j] \in 0 .. n /\ args[j] \in V \cup {NoObj}
  <2>1. n \in Nat /\ arg_mapping[f] \in Seq(0 .. n)
    BY ProgramAssumption
  <2>2. Len(args) \in Nat /\ \A j \in 1 .. Len(args) : args[j] \in V \cup {NoObj}
    BY LenProperties, ElementOfSeq
  <2>3. \A j \in 1 .. Len(args) : arg_mapping[f][j] \in 0 .. n
    <3> HIDE DEF n
    <3> QED BY <2>1, ElementOfSeq
  <2> QED BY <2>1, <2>2, <2>3
<1>3. IsAllocations(A, heap, n, fresh)
  BY <1>2, AllocationsExist
<1> HIDE DEF A
<1>4. IsWrites(W, A[n], Len(args), arg_mapping[f], fresh, args)
  BY <1>2, WritesExist
<1> HIDE DEF W, n
<1>5. RefsBuilt(heap, N, V, A[n])
  <2> DEFINE M(i) == {fresh[k] : k \in 1 .. i}
             S == {i \in 0 .. n : RefsBuilt(heap, M(i), V, A[i])}
  <2>1. 0 \in S
    <3>1. A[0] = heap /\ M(0) = {} /\ 0 \in 0 .. n
      BY <1>2, <1>3 DEF IsAllocations
    <3>2. RefsBuilt(heap, {}, V, heap)
      BY DEF RefsBuilt, GrowsBy
    <3> QED BY <3>1, <3>2
  <2>2. ASSUME NEW i \in 0 .. n, i < n, i \in S PROVE i + 1 \in S
    <3>1. i + 1 \in 0 .. n /\ i + 1 \in 1 .. n /\ i + 1 # 0 /\ (i + 1) - 1 = i
      BY <1>2, <2>2
    <3>2. A[i + 1] = new_reference(A[i], fresh[i + 1])
      BY <1>3, <3>1 DEF IsAllocations
    <3>3. fresh[i + 1] \in Fresh(heap) /\ DOMAIN fresh = 1 .. n
      BY <3>1 DEF n
    <3>4. fresh[i + 1] \notin M(i)
      BY <1>2, <3>1, <3>3
    <3>5. M(i + 1) = M(i) \cup {fresh[i + 1]}
      <4>1. 1 .. i + 1 = (1 .. i) \cup {i + 1}
        BY <3>1
      <4> QED BY <4>1
    <3>6. RefsBuilt(heap, M(i), V, A[i])
      BY <2>2
    <3> HIDE DEF M
    <3>7. RefsBuilt(heap, M(i + 1), V, A[i + 1])
      BY <3>2, <3>3, <3>4, <3>5, <3>6, ReferenceAdded
    <3> QED BY <3>1, <3>7
  <2>3. 0 .. n \subseteq S
    <3> HIDE DEF S
    <3> QED BY <1>2, <2>1, <2>2, CountingUp
  <2>4. n \in S
    <3> HIDE DEF S
    <3> QED BY <1>2, <2>3
  <2> QED BY <2>4
<1> HIDE DEF N
<1>6. RefsBuilt(heap, N, V, W[Len(args)])
  <2> DEFINE S == {j \in 0 .. Len(args) : RefsBuilt(heap, N, V, W[j])}
  <2>1. 0 \in S
    BY <1>2, <1>4, <1>5 DEF IsWrites
  <2>2. ASSUME NEW j \in 0 .. Len(args), j < Len(args), j \in S PROVE j + 1 \in S
    <3>1. /\ j + 1 \in 0 .. Len(args) /\ j + 1 \in 1 .. Len(args)
          /\ j + 1 # 0 /\ (j + 1) - 1 = j
      BY <1>2, <2>2
    <3>2. W[j + 1] = IF arg_mapping[f][j + 1] = 0 THEN W[j]
                     ELSE write(W[j], fresh[arg_mapping[f][j + 1]], args[j + 1])
      BY <1>4, <3>1 DEF IsWrites
    <3>3. CASE arg_mapping[f][j + 1] = 0
      BY <2>2, <3>1, <3>2, <3>3
    <3>4. CASE arg_mapping[f][j + 1] # 0
      <4>1. fresh[arg_mapping[f][j + 1]] \in N /\ args[j + 1] \in V \cup {NoObj}
        BY <1>2, <3>1, <3>4 DEF N
      <4>2. RefsBuilt(heap, N, V, W[j + 1])
        BY <2>2, <3>2, <3>4, <4>1, ArgumentWritten
      <4> QED BY <3>1, <4>2
    <3> QED BY <3>3, <3>4
  <2>3. 0 .. Len(args) \subseteq S
    <3> HIDE DEF S
    <3> QED BY <1>2, <2>1, <2>2, CountingUp
  <2> QED BY <1>2, <2>3
<1> QED BY <1>1, <1>6 DEF N, n

\* A frame is pushed on callers that are in order.
LEMMA FramePushed ==
  ASSUME NEW h, NEW fs, FramesOK(h, fs), fs # << >>, NEW f, FrameOK(h, f),
         MachineCode => fs[Len(fs)].stack = << >>,
         NEW ts, ts = Append(fs, f)
  PROVE  /\ FramesOK(h, ts) /\ ts # << >>
         /\ AllPointers(ts) \subseteq AllPointers(fs) \cup FramePointers(f)
<1>1. /\ fs \in Seq(Frame) /\ f \in Frame
      /\ Len(fs) \in Nat \ {0} /\ DOMAIN fs = 1 .. Len(fs)
  BY LenProperties, EmptySeq DEF FramesOK, FrameOK
<1>2. /\ ts \in Seq(Frame) /\ Len(ts) = Len(fs) + 1
      /\ \A i \in 1 .. Len(fs) : ts[i] = fs[i]
      /\ ts[Len(fs) + 1] = f
  BY <1>1, AppendProperties
<1>3. DOMAIN ts = 1 .. Len(fs) + 1 /\ ts # << >>
  BY <1>1, <1>2, LenProperties, EmptySeq
<1>4. \A n \in Nat : /\ \A i \in 1 .. n + 1 : i \in 1 .. n \/ i = n + 1
                     /\ (n + 1) - 1 = n
                     /\ \A i \in 1 .. n : i = n \/ i \in 1 .. n - 1
  OBVIOUS
<1>5. \A i \in DOMAIN ts : (i \in DOMAIN fs /\ ts[i] = fs[i]) \/ ts[i] = f
  BY <1>1, <1>2, <1>3, <1>4
<1>6. \A i \in DOMAIN ts : FrameOK(h, ts[i])
  BY <1>5 DEF FramesOK
<1>7. ASSUME MachineCode, NEW i \in 1 .. Len(ts) - 1 PROVE ts[i].stack = << >>
  <2>1. i \in 1 .. Len(fs) /\ ts[i] = fs[i] /\ (i = Len(fs) \/ i \in 1 .. Len(fs) - 1)
    BY <1>1, <1>2, <1>4, <1>7
  <2> QED BY <1>7, <2>1 DEF FramesOK
<1>8. AllPointers(ts) \subseteq AllPointers(fs) \cup FramePointers(f)
  BY <1>5 DEF AllPointers
<1> QED BY <1>2, <1>3, <1>6, <1>7, <1>8 DEF FramesOK

\* What a call takes from the operand stack.
LEMMA CallFacts ==
  ASSUME Safe, Running, Call,
         NEW closure, closure = Head(Stack), NEW f, f = value[closure],
         NEW argc, argc = Len(arg_mapping[f]),
         NEW args, args = [i \in 1 .. argc |-> Stack[2 + argc - i]],
         NEW rest, rest = SubSeq(Stack, 2 + argc, Len(Stack))
  PROVE  /\ closure \in InUse /\ heap.kind[closure] = "closure" /\ f \in Functions
         /\ argc \in Nat
         /\ args \in [1 .. argc -> InUse \cup {NoObj}]
         /\ \A i \in 1 .. argc : Visible(heap, args[i])
         /\ rest \in Seq(Values) /\ Elements(rest) \subseteq Elements(Stack)
<1>1. /\ Stack # << >> /\ Kind(Head(Stack)) = "closure" /\ Len(Stack) >= 1 + argc
  BY DEF Call
<1>2. /\ Stack \in Seq(Values) /\ Len(Stack) \in Nat /\ Len(Stack) >= 1
      /\ Head(Stack) = Stack[1]
      /\ \A i \in 1 .. Len(Stack) : /\ Visible(heap, Stack[i])
                                    /\ Stack[i] \in InUse \cup {NoObj}
  BY <1>1, OperandFacts
<1>3. closure \in InUse /\ heap.kind[closure] = "closure"
  <2>1. closure # NoObj /\ heap.kind[closure] = "closure"
    BY <1>1 DEF Kind
  <2>2. closure \in InUse \cup {NoObj}
    BY <1>2
  <2> QED BY <2>1, <2>2
<1>4. f \in Functions
  <2>1. closure \in Objs
    BY <1>3, SafeFacts
  <2> QED BY <1>3, <2>1 DEF Safe, ClosuresOK
<1>5. argc \in Nat
  <2>1. arg_mapping[f] \in Seq(0 .. local_reference_vars_[f])
    BY <1>4, ProgramAssumption
  <2> QED BY <2>1, LenProperties
<1>6. \A i \in 1 .. argc : 2 + argc - i \in 1 .. Len(Stack)
  BY <1>1, <1>2, <1>5
<1>7. /\ args \in [1 .. argc -> InUse \cup {NoObj}]
      /\ \A i \in 1 .. argc : Visible(heap, args[i])
  BY <1>2, <1>6
<1>8. rest \in Seq(Values) /\ Elements(rest) \subseteq Elements(Stack)
  <2>1. 1 + argc \in Nat /\ (1 + argc) + 1 = 2 + argc /\ 1 + argc <= Len(Stack)
    BY <1>1, <1>2, <1>5
  <2> QED BY <1>2, <2>1, PopElements
<1> QED BY <1>3, <1>4, <1>5, <1>7, <1>8

\* The frame of a call, over the heap h the call leaves: its captured variables
\* are the new references N and the ones the closure holds.
LEMMA FrameOfCallOK ==
  ASSUME Safe, NEW closure \in InUse, heap.kind[closure] = "closure",
         NEW f \in Functions, f = value[closure],
         NEW args \in [1 .. Len(arg_mapping[f]) -> InUse \cup {NoObj}],
         \A i \in 1 .. Len(arg_mapping[f]) : Visible(heap, args[i]),
         NEW fresh \in [1 .. local_reference_vars_[f] -> Fresh(heap)],
         NEW h, Preserves(heap, h), Allocated(h) \subseteq Objs, NEW N,
         \A i \in 1 .. local_reference_vars_[f] : fresh[i] \in N /\ Captured(h, fresh[i])
  PROVE  /\ FrameOK(h, FrameOfCall(closure, f, args, fresh))
         /\ FramePointers(FrameOfCall(closure, f, args, fresh)) \subseteq Known \cup N
<1> DEFINE g == FrameOfCall(closure, f, args, fresh)
           n == local_reference_vars_[f]
           m == free_vars_[f]
           L == g.local_variables
           R == g.local_reference_vars
<1>0. /\ n \in Nat /\ m \in Nat /\ local_vars_[f] \in Nat
      /\ Len(arg_mapping[f]) \in Nat /\ Len(args) = Len(arg_mapping[f])
      /\ 1 .. m \subseteq Slots
  <2>1. /\ n \in Nat /\ m \in Nat /\ local_vars_[f] \in Nat
        /\ arg_mapping[f] \in Seq(0 .. local_reference_vars_[f])
        /\ 1 .. m \subseteq Slots
    BY ProgramAssumption
  <2>2. Len(arg_mapping[f]) \in Nat
    BY <2>1, LenProperties
  <2>3. Len(args) = Len(arg_mapping[f])
    BY <2>2, FunctionIsSeq
  <2> QED BY <2>1, <2>2, <2>3
<1>1. /\ g.closure = closure /\ g.func = f /\ g.stack = << >>
      /\ L = [i \in 1 .. local_vars_[f] |->
                IF i <= Len(args) /\ arg_mapping[f][i] = 0 THEN args[i] ELSE NoObj]
      /\ R = [i \in 1 .. n + m |-> IF i <= n THEN fresh[i] ELSE heap.slots[closure][i - n]]
      /\ g \in [closure : {g.closure}, func : {g.func}, local_variables : {L},
                local_reference_vars : {R}, stack : {g.stack}]
  BY DEF FrameOfCall
<1> HIDE DEF g
<1>2. \A i \in 1 .. local_vars_[f] : Visible(heap, L[i]) /\ L[i] \in InUse \cup {NoObj}
  <2> SUFFICES ASSUME NEW i \in 1 .. local_vars_[f]
               PROVE  Visible(heap, L[i]) /\ L[i] \in InUse \cup {NoObj}
    OBVIOUS
  <2>1. CASE i <= Len(args) /\ arg_mapping[f][i] = 0
    <3>1. i \in 1 .. Len(arg_mapping[f]) /\ L[i] = args[i]
      BY <1>0, <1>1, <2>1
    <3> QED BY <3>1
  <2>2. CASE ~(i <= Len(args) /\ arg_mapping[f][i] = 0)
    BY <1>1, <2>2, NoObjIsVisible
  <2> QED BY <2>1, <2>2
<1>3. \A s \in 1 .. m : /\ Captured(heap, heap.slots[closure][s])
                        /\ heap.slots[closure][s] \in Known
  <2> SUFFICES ASSUME NEW s \in 1 .. m
               PROVE  /\ Captured(heap, heap.slots[closure][s])
                      /\ heap.slots[closure][s] \in Known
    OBVIOUS
  <2>1. s \in Slots /\ closure \in Allocated(heap)
    BY <1>0, SafeFacts
  <2>2. heap.slots[closure][s] # NoObj /\ heap.kind[heap.slots[closure][s]] = "reference"
    BY <2>1 DEF Safe, ClosuresOK, WiredAt
  <2>3. heap.slots[closure][s] \in Allocated(heap)
    BY <2>1, <2>2 DEF Safe, Healthy
  <2> QED BY <2>1, <2>2, <2>3 DEF Captured, Known
<1>4. \A i \in 1 .. n + m : Captured(h, R[i]) /\ R[i] \in Known \cup N
  <2> SUFFICES ASSUME NEW i \in 1 .. n + m PROVE Captured(h, R[i]) /\ R[i] \in Known \cup N
    OBVIOUS
  <2>1. CASE i <= n
    <3>1. i \in 1 .. n /\ R[i] = fresh[i]
      BY <1>0, <1>1, <2>1
    <3> QED BY <3>1
  <2>2. CASE ~(i <= n)
    <3>1. i - n \in 1 .. m /\ R[i] = heap.slots[closure][i - n]
      BY <1>0, <1>1, <2>2
    <3>2. \A r : Captured(heap, r) => Captured(h, r)
      BY DEF Preserves, Captured
    <3> QED BY <1>3, <3>1, <3>2
  <2> QED BY <2>1, <2>2
<1>5. /\ L \in Seq(Values) /\ DOMAIN L = 1 .. local_vars_[f]
      /\ R \in Seq(Objs) /\ DOMAIN R = 1 .. n + m
      /\ g.stack \in Seq(Values) /\ DOMAIN g.stack = {}
  <2>1. L \in [1 .. local_vars_[f] -> Values]
    BY <1>1, <1>2, SafeFacts
  <2>2. R \in [1 .. n + m -> Objs]
    BY <1>1, <1>4 DEF Captured
  <2>3. n + m \in Nat
    BY <1>0
  <2>4. g.stack \in Seq(Values) /\ DOMAIN g.stack = {}
    BY <1>1, EmptySeq
  <2> QED BY <1>0, <2>1, <2>2, <2>3, <2>4, FunctionIsSeq
<1>6. g \in Frame
  BY <1>1, <1>5, SafeFacts DEF Frame
<1>7. FrameOK(h, g)
  <2>1. \A v : Visible(heap, v) => Visible(h, v)
    BY PreservesAll
  <2> QED BY <1>2, <1>4, <1>5, <1>6, <2>1 DEF FrameOK
<1>8. FramePointers(g) \subseteq Known \cup N
  <2>1. PointersIn(L) \subseteq Known
    BY <1>2, <1>5 DEF PointersIn, Known
  <2>2. PointersIn(R) \subseteq Known \cup N
    BY <1>4, <1>5 DEF PointersIn
  <2>3. PointersIn(g.stack) = {}
    BY <1>5 DEF PointersIn
  <2> QED BY <2>1, <2>2, <2>3 DEF FramePointers
<1> QED BY <1>7, <1>8 DEF g

\* A call allocates its captured locals, writes the arguments some of them take,
\* and pushes its frame.
LEMMA CallStep ==
  ASSUME Safe, Running, Call, ~(MachineCode /\ NestedCalls)
  PROVE  GoodStep
<1> DEFINE closure == Head(Stack)
           f       == value[closure]
           argc    == Len(arg_mapping[f])
           args    == [i \in 1 .. argc |-> Stack[2 + argc - i]]
           rest    == SubSeq(Stack, 2 + argc, Len(Stack))
           n       == local_reference_vars_[f]
<1>1. /\ closure \in InUse /\ heap.kind[closure] = "closure" /\ f \in Functions
      /\ argc \in Nat
      /\ args \in [1 .. argc -> InUse \cup {NoObj}]
      /\ \A i \in 1 .. argc : Visible(heap, args[i])
      /\ rest \in Seq(Values) /\ Elements(rest) \subseteq Elements(Stack)
  BY CallFacts
<1>2. /\ NestedCalls \/ rest = << >>
      /\ UNCHANGED <<value, main_closure, global_variables>>
  BY DEF Call
<1>3. PICK fresh \in [1 .. n -> Fresh(heap)] :
        /\ \A i, j \in DOMAIN fresh : i # j => fresh[i] # fresh[j]
        /\ heap' = HeapForCall(f, args, fresh)
        /\ frames' = Append([frames EXCEPT ![Len(frames)].stack = rest],
                            FrameOfCall(closure, f, args, fresh))
  BY DEF Call
<1> DEFINE g  == FrameOfCall(closure, f, args, fresh)
           t  == [Top EXCEPT !.stack = rest]
           ts == [frames EXCEPT ![Len(frames)] = t]
           N  == {fresh[i] : i \in 1 .. n}
           V  == {v \in InUse : heap.kind[v] # "reference"}
<1>4. frames' = Append(ts, g)
  BY <1>3 DEF Top
<1>5. FrameOK(heap, Top) /\ FramePointers(Top) \subseteq InUse /\ FramesOK(heap, frames)
      /\ AllPointers(frames) \subseteq InUse /\ Elements(Stack) \ {NoObj} \subseteq InUse
      /\ \A v \in Elements(Stack) : Visible(heap, v)
  <2>1. FramesOK(heap, frames)
    BY DEF Safe
  <2>2. AllPointers(frames) \subseteq InUse
    BY InUseParts
  <2> QED BY <2>1, <2>2, TopFacts
<1>6. /\ t \in Frame /\ t.local_variables = Top.local_variables
      /\ t.local_reference_vars = Top.local_reference_vars /\ t.stack = rest
  <2> HIDE DEF rest
  <2> QED BY <1>1, <1>5 DEF FrameOK, Frame
<1> HIDE DEF closure, f, argc, args, rest, g, t
<1>7. RefsBuilt(heap, N, V, heap')
  <2>1. args \in [1 .. argc -> V \cup {NoObj}]
    <3>1. \A i \in 1 .. argc : args[i] \in V \cup {NoObj}
      BY <1>1 DEF Visible
    <3> QED BY <1>1, <3>1
  <2>2. args \in Seq(V \cup {NoObj}) /\ Len(args) = Len(arg_mapping[f])
    <3> HIDE DEF V
    <3> QED BY <1>1, <2>1, FunctionIsSeq DEF argc
  <2>3. V \subseteq Allocated(heap) /\ Healthy(heap)
    BY SafeFacts
  <2> HIDE DEF V
  <2> QED BY <1>1, <1>3, <2>2, <2>3, HeapForCallBuilds
<1> HIDE DEF N
<1>8. /\ GrowsBy(heap, N, heap')
      /\ \A q \in N : heap'.kind[q] = "reference"
      /\ \A q \in N, s \in Slots : heap'.slots[q][s] \in V \cup {NoObj}
  BY <1>7 DEF RefsBuilt
<1>9. /\ Preserves(heap, heap') /\ Allocated(heap') \subseteq Objs
      /\ N \subseteq Allocated(heap')
      /\ GlobalsOK(heap', global_variables) /\ MainOK(heap', main_closure, frames)
  BY <1>8, GrowthFacts
<1>10. ClosuresOK(heap', value)
  <2>1. \A v \in V \cup {NoObj} : Visible(heap, v)
    BY SafeFacts DEF Visible
  <2>2. \A q \in N, s \in Slots : Visible(heap', heap'.slots[q][s])
    BY <1>8, <1>9, <2>1, PreservesAll
  <2> QED BY <1>8, <2>2, PlainGrowth
<1>11. FrameOK(heap', g) /\ FramePointers(g) \subseteq Known \cup N
  <2>1. \A i \in 1 .. n : fresh[i] \in N /\ Captured(heap', fresh[i])
    BY <1>8, <1>9 DEF Captured, N
  <2>2. /\ f = value[closure]
        /\ args \in [1 .. Len(arg_mapping[f]) -> InUse \cup {NoObj}]
        /\ \A i \in 1 .. Len(arg_mapping[f]) : Visible(heap, args[i])
    BY <1>1 DEF argc, f
  <2> QED BY <1>1, <1>3, <1>9, <2>1, <2>2, FrameOfCallOK DEF g
<1>12. FrameOK(heap, t) /\ FramePointers(t) \subseteq InUse
  <2>1. FrameOK(heap, t)
    BY <1>1, <1>5, <1>6 DEF FrameOK, Elements
  <2>2. PointersIn(t.stack) \subseteq InUse
    BY <1>1, <1>5, <1>6 DEF PointersIn, Elements
  <2> QED BY <1>5, <1>6, <2>1, <2>2 DEF FramePointers
<1>13. /\ FramesOK(heap, ts) /\ ts # << >> /\ Len(ts) = Len(frames)
       /\ AllPointers(ts) \subseteq InUse /\ ts[Len(ts)] = t
  <2>1. /\ FramesOK(heap, ts) /\ ts # << >> /\ Len(ts) = Len(frames)
        /\ AllPointers(ts) \subseteq AllPointers(frames) \cup FramePointers(t)
    BY <1>5, <1>12, TopReplaced DEF Running
  <2>2. ts[Len(frames)] = t
    BY <1>5, TopFacts
  <2> QED BY <1>5, <1>12, <2>1, <2>2
<1> HIDE DEF ts
<1>14. /\ FramesOK(heap', frames') /\ frames' # << >>
       /\ AllPointers(frames') \subseteq Known \cup N
  <2>1. FramesOK(heap', ts)
    BY <1>9, <1>13, PreservesAll
  <2>2. MachineCode => ts[Len(ts)].stack = << >>
    BY <1>2, <1>6, <1>13
  <2>3. /\ FramesOK(heap', frames') /\ frames' # << >>
        /\ AllPointers(frames') \subseteq AllPointers(ts) \cup FramePointers(g)
    BY <1>4, <1>11, <1>13, <2>1, <2>2, FramePushed
  <2> QED BY <1>11, <1>13, <2>3 DEF Known
<1>15. GlobalsOK(heap', global_variables') /\ MainOK(heap', main_closure', frames')
  BY <1>2, <1>9 DEF MainOK, Running
<1>16. InUse' \subseteq Known \cup N
  BY <1>2, <1>14, InUseParts DEF Known
<1>17. \A q \in N, s \in Slots : heap'.slots[q][s] \in Known \cup N \cup {NoObj}
  BY <1>8 DEF Known
<1> QED BY <1>2, <1>8, <1>10, <1>14, <1>15, <1>16, <1>17, GrowStep

-----------------------------------------------------------------------------
(* Garbage collection.                                                     *)

\* The root set potentially_garbage_collect gathers is just what is in use: in
\* compiled code because neither the running function nor a waiting one has
\* operands at that point.
LEMMA RootsAreInUse ==
  ASSUME Safe, Running, Stack = << >>
  PROVE  RootSet = InUse
<1>1. main_closure # NoObj
  BY DEF Safe, MainOK, Running
<1>2. MachineCode => \A i \in DOMAIN frames : PointersIn(frames[i].stack) = {}
  <2> SUFFICES ASSUME MachineCode, NEW i \in DOMAIN frames
               PROVE  frames[i].stack = << >>
    BY DEF PointersIn
  <2>1. Len(frames) \in Nat \ {0} /\ DOMAIN frames = 1 .. Len(frames)
    BY TopFacts, LenProperties DEF Safe, FramesOK
  <2>2. i = Len(frames) \/ i \in 1 .. Len(frames) - 1
    BY <2>1
  <2> QED BY <2>2 DEF Safe, FramesOK, Stack, Top
<1> DEFINE L(x) == \E i \in DOMAIN frames : x \in PointersIn(frames[i].local_variables)
           R(x) == \E i \in DOMAIN frames : x \in PointersIn(frames[i].local_reference_vars)
           S(x) == \E i \in DOMAIN frames : x \in PointersIn(frames[i].stack)
<1>3. \A x : x \in AllPointers(frames) <=> L(x) \/ R(x) \/ S(x)
  BY DEF AllPointers, FramePointers
<1>4. \A x : x \in RootSet <=> \/ x = main_closure \/ L(x) \/ R(x)
                               \/ ~MachineCode /\ S(x)
                               \/ x \in PointersIn(global_variables)
  BY DEF RootSet
<1>5. \A x : MachineCode => ~S(x)
  BY <1>2
<1> HIDE DEF L, R, S
<1>6. \A x : x \in RootSet <=> x \in InUse
  BY <1>1, <1>3, <1>4, <1>5, InUseParts
<1> QED BY <1>6

LEMMA GarbageCollectStep ==
  ASSUME Safe, Running, GarbageCollect
  PROVE  GoodStep
<1>1. /\ heap.generation + 2 <= MaxGenerations
      /\ heap' \in potentially_garbage_collect(heap, InUse)
      /\ value' = [o \in Objs |-> IF o \in Allocated(heap') THEN value[o] ELSE NoFunction]
      /\ UNCHANGED <<main_closure, global_variables, frames>>
  BY RootsAreInUse DEF GarbageCollect
<1>2. Healthy(heap) /\ InUse \subseteq Allocated(heap) /\ Allocated(heap) \subseteq Objs
  BY SafeFacts
<1>3. Keeps(heap, InUse, heap')
  BY <1>1, <1>2, CollectKeeps
<1>4. Precise
  BY <1>1, <1>2, CollectIsPrecise DEF Precise
<1>5. /\ Healthy(heap') /\ InUse \subseteq Allocated(heap')
      /\ Allocated(heap') \subseteq Allocated(heap)
      /\ \A o \in Allocated(heap'), s \in Slots :
            heap.slots[o][s] \in Allocated(heap') \cup {NoObj}
      /\ \A o \in Allocated(heap') : heap'.kind[o] = heap.kind[o]
      /\ \A o \in Allocated(heap') : heap'.slots[o] = heap.slots[o]
  BY <1>2, <1>3 DEF Keeps
<1>6. ClosuresOK(heap', value')
  <2>1. /\ value \in [Objs -> Functions \cup {NoFunction}]
        /\ \A o \in Objs : heap.kind[o] = "closure" <=> value[o] \in Functions
        /\ \A o \in Allocated(heap) : WiredAt(heap, value, o)
    BY DEF Safe, ClosuresOK
  <2>2. \A o \in Objs : o \notin Allocated(heap') => heap'.kind[o] = "free"
    BY <1>5 DEF Healthy, Fresh
  <2>3. \A o \in Objs : heap'.kind[o] = "closure" <=> value'[o] \in Functions
    BY <1>1, <1>5, <2>1, <2>2, ProgramAssumption
  <2>4. ASSUME NEW o \in Allocated(heap') PROVE WiredAt(heap', value', o)
    <3>1. WiredAt(heap, value, o) /\ value'[o] = value[o]
      BY <1>1, <1>2, <1>5, <2>1, <2>4
    <3>2. \A s \in Slots : heap.slots[o][s] # NoObj
            => heap'.kind[heap.slots[o][s]] = heap.kind[heap.slots[o][s]]
      BY <1>5, <2>4
    <3> QED BY <1>5, <2>4, <3>1, <3>2 DEF WiredAt
  <2>5. value' \in [Objs -> Functions \cup {NoFunction}]
    BY <1>1, <2>1
  <2> QED BY <2>3, <2>4, <2>5 DEF ClosuresOK
<1>7. \A v : Visible(heap, v) /\ v \in InUse \cup {NoObj} => Visible(heap', v)
  BY <1>5 DEF Visible
<1>8. \A r \in InUse : Captured(heap, r) => Captured(heap', r)
  BY <1>5 DEF Captured
<1>9. GlobalsOK(heap', global_variables)
  <2>1. \A g \in DOMAIN global_variables : global_variables[g] \in InUse \cup {NoObj}
    BY InUseParts DEF PointersIn
  <2> QED BY <1>7, <2>1 DEF Safe, GlobalsOK
<1>10. MainOK(heap', main_closure, frames)
  BY <1>5, InUseParts DEF Safe, MainOK
<1>11. FramesOK(heap', frames)
  <2>1. ASSUME NEW i \in DOMAIN frames PROVE FrameOK(heap', frames[i])
    <3>1. FrameOK(heap, frames[i]) /\ FramePointers(frames[i]) \subseteq InUse
      BY <2>1, InUseParts DEF Safe, FramesOK, AllPointers
    <3>2. /\ \A j \in DOMAIN frames[i].local_variables :
                frames[i].local_variables[j] \in InUse \cup {NoObj}
          /\ \A j \in DOMAIN frames[i].stack : frames[i].stack[j] \in InUse \cup {NoObj}
      BY <3>1 DEF FramePointers, PointersIn
    <3>3. \A j \in DOMAIN frames[i].local_reference_vars :
             frames[i].local_reference_vars[j] \in InUse
      <4>1. \A r : Captured(heap, r) => r # NoObj
        BY <1>2, HeapAssumption DEF Captured
      <4> QED BY <3>1, <4>1 DEF FramePointers, PointersIn, FrameOK
    <3> QED BY <1>7, <1>8, <3>1, <3>2, <3>3 DEF FrameOK
  <2> QED BY <2>1 DEF Safe, FramesOK
<1>12. Safe'
  BY <1>1, <1>5, <1>6, <1>9, <1>10, <1>11, SafeAfter
<1>13. Client!Promise!Reclaim
  <2>1. Client!Allocated(heap) = Allocated(heap) /\ Client!Allocated(heap)' = Allocated(heap')
    BY DEF Client!Allocated, Allocated
  <2>2. Client!Promise!Reachable(heap.slots, InUse) = Reach(heap.slots, InUse)
    BY DEF Reach, Closed, Client!Promise!Reachable, Client!Promise!ClosedUnder
  <2>3. Reach(heap.slots, InUse) \subseteq Allocated(heap')
    <3>1. Allocated(heap') \in SUBSET Objs /\ Closed(heap.slots, Allocated(heap'))
      BY <1>2, <1>5 DEF Closed
    <3> QED BY <1>5, <3>1, ReachIsLeast
  <2>4. heap'.slots = [o \in Objs |-> IF o \in Allocated(heap') THEN heap.slots[o]
                                      ELSE Client!Promise!NoPointers]
    BY <1>3 DEF Keeps, NoPointers, Client!Promise!NoPointers
  <2>5. InUse' = InUse
    BY <1>1, InUseParts
  <2> QED BY <1>5, <2>1, <2>2, <2>3, <2>4, <2>5 DEF Client!Promise!Reclaim
<1> QED BY <1>4, <1>12, <1>13 DEF GoodStep, Client!Promise!Next
-----------------------------------------------------------------------------
(* Every step, and the first state.                                        *)

LEMMA VMStep ==
  ASSUME ~(MachineCode /\ NestedCalls), Safe, [Next]_vars
  PROVE  GoodStep \/ UNCHANGED vars
<1>1. CASE interpret
  BY <1>1, InterpretStep
<1>2. CASE Running /\ OperandStep
  BY <1>2, OperandStepIsGood
<1>3. CASE Running /\ LoadGlobal
  BY <1>3, LoadGlobalStep
<1>4. CASE Running /\ StoreGlobal
  BY <1>4, StoreGlobalStep
<1>5. CASE Running /\ StoreReference
  BY <1>5, StoreReferenceStep
<1>6. CASE Running /\ (FieldStore \/ IndexStore)
  BY <1>6, FieldStoreStep
<1>7. CASE Running /\ AllocRecord
  BY <1>7, AllocRecordStep
<1>8. CASE Running /\ Concatenate
  BY <1>8, ConcatenateStep
<1>9. CASE Running /\ LoadBuiltIn
  BY <1>9, LoadBuiltInStep
<1>10. CASE Running /\ FunctionExpression
  BY <1>10, FunctionExpressionStep
<1>11. CASE Running /\ Call
  BY <1>11, CallStep
<1>12. CASE Running /\ CallBuiltIn
  BY <1>12, CallBuiltInStep
<1>13. CASE Running /\ Return
  BY <1>13, ReturnStep
<1>14. CASE Running /\ GarbageCollect
  BY <1>14, GarbageCollectStep
<1> QED BY <1>1, <1>2, <1>3, <1>4, <1>5, <1>6, <1>7, <1>8, <1>9, <1>10, <1>11, <1>12,
           <1>13, <1>14 DEF Next

\* A step that changes nothing.
LEMMA Stutter ==
  ASSUME Safe, UNCHANGED vars
  PROVE  Safe' /\ UNCHANGED Client!Promise!vars /\ UNCHANGED Client!vars
<1>1. UNCHANGED <<heap, value, main_closure, global_variables, frames>>
  BY DEF vars
<1>2. Safe'
  BY <1>1, SafeAfter DEF Safe
<1>3. InUse' = InUse
  BY <1>1, InUseParts
<1>4. Client!Allocated(heap)' = Client!Allocated(heap)
  BY <1>1 DEF Client!Allocated
<1> QED BY <1>1, <1>2, <1>3, <1>4 DEF Client!Promise!vars, Client!vars

LEMMA InitiallySafe ==
  ASSUME Init
  PROVE  Safe /\ Client!Promise!Init
<1>1. /\ heap = EmptyHeap /\ value = [o \in Objs |-> NoFunction] /\ main_closure = NoObj
      /\ global_variables = [g \in {} |-> NoObj] /\ frames = << >>
  BY DEF Init
<1>2. Healthy(heap) /\ Allocated(heap) = {}
  BY <1>1, EmptyHeapIsHealthy
<1>3. heap.kind = [o \in Objs |-> "free"] /\ heap.slots = [o \in Objs |-> NoPointers]
  BY <1>1 DEF EmptyHeap
<1>4. ClosuresOK(heap, value)
  BY <1>1, <1>2, <1>3, ProgramAssumption DEF ClosuresOK
<1>5. MainOK(heap, main_closure, frames)
  BY <1>1 DEF MainOK
<1>6. DOMAIN global_variables = {}
  BY <1>1
<1>7. frames \in Seq(Frame) /\ DOMAIN frames = {} /\ Len(frames) = 0
  BY <1>1, EmptySeq
<1>8. GlobalsOK(heap, global_variables) /\ FramesOK(heap, frames)
  BY <1>6, <1>7 DEF GlobalsOK, FramesOK
<1>9. Safe
  BY <1>2, <1>4, <1>5, <1>8 DEF Safe
<1>10. InUse = {}
  BY <1>1, <1>6, <1>7, InUseParts DEF PointersIn, AllPointers
<1>11. Client!Promise!Init
  BY <1>2, <1>3, <1>10 DEF Client!Promise!Init, Client!Allocated, Allocated,
                          Client!Promise!NoPointers, NoPointers
<1> QED BY <1>9, <1>11

-----------------------------------------------------------------------------
(* The theorems.  Compiled code that calls a function in the middle of an  *)
(* expression is left out of all of them: there potentially_garbage_collect*)
(* misses the caller's temporaries, and TemporariesSurviveCalls fails.     *)

\* The inductive invariant holds in every reachable state.
THEOREM SafeAlways ==
  ASSUME ~(MachineCode /\ NestedCalls)
  PROVE  Spec => []Safe
<1>1. Init => Safe
  BY InitiallySafe
<1>2. Safe /\ [Next]_vars => Safe'
  BY VMStep, Stutter DEF GoodStep
<1> QED BY <1>1, <1>2, PTL DEF Spec

\* Type correctness of the VM's variables.
THEOREM TypeCorrectness ==
  ASSUME ~(MachineCode /\ NestedCalls)
  PROVE  Spec => []TypeOK
<1>1. Safe => TypeOK
  <2> SUFFICES ASSUME Safe PROVE TypeOK
    OBVIOUS
  <2>1. \A v : Visible(heap, v) => v \in Values
    BY SafeFacts
  <2>2. heap \in HeapType /\ main_closure \in Values
    BY SafeFacts DEF Safe, MainOK, Values
  <2> QED BY <2>1, <2>2 DEF Safe, ClosuresOK, GlobalsOK, FramesOK, TypeOK
<1> QED BY <1>1, SafeAlways, PTL

\* No operand, local, captured variable or global of any running call, and no
\* object that exists, points to an object a collection has deleted.
THEOREM NothingDangles ==
  ASSUME ~(MachineCode /\ NestedCalls)
  PROVE  Spec => []NothingInUseDangles
<1>1. Safe => NothingInUseDangles
  <2> SUFFICES ASSUME Safe PROVE NothingInUseDangles
    OBVIOUS
  <2>1. InUse \subseteq Allocated(heap) /\ Healthy(heap)
    BY SafeFacts
  <2> QED BY <2>1 DEF NothingInUseDangles, Client!NoDanglingPointer, Client!Allocated,
                      Allocated, Healthy
<1> QED BY <1>1, SafeAlways, PTL

\* The write barrier is complete for every write the VM makes, those of arguments
\* into captured parameters included.
THEOREM BarrierIsComplete ==
  ASSUME ~(MachineCode /\ NestedCalls)
  PROVE  Spec => []BarrierComplete
<1>1. Safe => BarrierComplete
  BY DEF Safe, Healthy, BarrierComplete, Client!BarrierComplete
<1> QED BY <1>1, SafeAlways, PTL

\* Captured variables, and they alone, are ReferenceValues, in frames and in
\* closures, and no value of the program ever is one.
THEOREM CapturedVariablesArePrivate ==
  ASSUME ~(MachineCode /\ NestedCalls)
  PROVE  Spec => []CapturedVariablesStayPrivate
<1>1. Safe => CapturedVariablesStayPrivate
  <2> SUFFICES ASSUME Safe PROVE CapturedVariablesStayPrivate
    OBVIOUS
  <2>1. ASSUME NEW i \in DOMAIN frames
        PROVE  /\ \A r \in PointersIn(frames[i].local_reference_vars) :
                     heap.kind[r] = "reference"
               /\ \A v \in PointersIn(frames[i].local_variables)
                             \cup PointersIn(frames[i].stack) :
                     heap.kind[v] # "reference"
    <3>1. FrameOK(heap, frames[i])
      BY <2>1 DEF Safe, FramesOK
    <3> QED BY <3>1 DEF FrameOK, PointersIn, Visible, Captured
  <2>2. \A o \in Allocated(heap), s \in Slots :
          Kind(heap.slots[o][s]) = "reference"
            <=> heap.kind[o] = "closure" /\ s \in 1 .. free_vars_[value[o]]
    <3>1. \A o \in Allocated(heap) : WiredAt(heap, value, o)
      BY DEF Safe, ClosuresOK
    <3>2. \A v : Kind(v) = "reference" <=> v # NoObj /\ heap.kind[v] = "reference"
      BY DEF Kind
    <3> QED BY <3>1, <3>2 DEF WiredAt
  <2>3. \A v \in PointersIn(global_variables) : heap.kind[v] # "reference"
    BY DEF Safe, GlobalsOK, PointersIn, Visible
  <2> QED BY <2>1, <2>2, <2>3 DEF CapturedVariablesStayPrivate
<1> QED BY <1>1, SafeAlways, PTL

\* No temporary of a waiting caller is collected in interpreted code, whatever it
\* computes and however deep the calls; compiled code is included only where no
\* caller has any.
THEOREM TemporariesSurvive ==
  ASSUME ~(MachineCode /\ NestedCalls)
  PROVE  Spec => []TemporariesSurviveCalls
<1>1. Safe => TemporariesSurviveCalls
  <2> SUFFICES ASSUME Safe, NEW i \in DOMAIN frames
               PROVE  PointersIn(frames[i].stack) \subseteq Allocated(heap)
    BY DEF TemporariesSurviveCalls
  <2>1. FrameOK(heap, frames[i])
    BY DEF Safe, FramesOK
  <2> QED BY <2>1 DEF FrameOK, PointersIn, Visible
<1> QED BY <1>1, SafeAlways, PTL

\* The heap keeps the promise of AbstractHeap to the running program, whose roots
\* are the pointers it can still use: every instruction is one step of the
\* abstract heap, or none.
THEOREM VMKeepsPromise ==
  ASSUME ~(MachineCode /\ NestedCalls)
  PROVE  Spec => KeepsPromise
<1>1. Init => Client!Promise!Init
  BY InitiallySafe
<1>2. Safe /\ [Next]_vars => [Client!Promise!Next]_(Client!Promise!vars)
  BY VMStep, Stutter DEF GoodStep
<1> QED BY <1>1, <1>2, SafeAlways, PTL
        DEF Spec, KeepsPromise, Client!KeepsPromise, Client!Promise!Spec

\* A collection of the running VM keeps no more than it has to: the root set it
\* gathers is just what the program can use.
THEOREM CollectionsArePrecise ==
  ASSUME ~(MachineCode /\ NestedCalls)
  PROVE  Spec => CollectionIsPrecise
<1> DEFINE Exact ==
             heap'.generation # heap.generation =>
               Client!Allocated(heap') =
                 IF Generational /\ heap'.generation = heap.generation + 1
                 THEN heap.old_objects \cup
                        Client!Promise!Reachable(heap.slots, InUse \cup heap.old_objects)
                 ELSE Client!Promise!Reachable(heap.slots, InUse)
<1>1. \A R : Client!Promise!Reachable(heap.slots, R) = Reach(heap.slots, R)
  BY DEF Reach, Closed, Client!Promise!Reachable, Client!Promise!ClosedUnder
<1>2. Client!Allocated(heap') = Allocated(heap')
  BY DEF Client!Allocated, Allocated
<1>3. GoodStep => Exact
  BY <1>1, <1>2 DEF GoodStep, Precise
<1>4. Safe /\ [Next]_vars => [Exact]_(Client!vars)
  <2> HIDE DEF Exact
  <2> QED BY <1>3, VMStep, Stutter
<1>5. Spec => [][Exact]_(Client!vars)
  <2> HIDE DEF Exact
  <2> QED BY <1>4, SafeAlways, PTL DEF Spec
<1> QED BY <1>5 DEF CollectionIsPrecise, Client!CollectionIsPrecise
=============================================================================
