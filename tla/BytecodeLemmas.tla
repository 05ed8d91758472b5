---------------------------- MODULE BytecodeLemmas ----------------------------
(***************************************************************************)
(* What is true of a state of InterpreterLoop while it executes verified   *)
(* code, for any program and any layout of its operand stacks, and how it  *)
(* survives the changes instructions make to the stack, the calls and the  *)
(* heap.  The proofs of the instructions, BytecodeProofs, rest on this.    *)
(***************************************************************************)
EXTENDS InterpreterLoop, NumberLemmas, SequenceTheorems

-----------------------------------------------------------------------------
(* Sequences.                                                              *)

\* A sequence is indexed from 1, and its elements are the ones of its range.
LEMMA SequenceFacts ==
  ASSUME NEW s, IsSequence(s)
  PROVE  Len(s) \in Nat /\ DOMAIN s = 1..Len(s) /\ (\A k \in 1..Len(s) : s[k] \in Range(s))
BY DEF IsSequence, Range

\* A sequence over any set is a sequence.
LEMMA InSeq ==
  ASSUME NEW s, NEW T, s \in Seq(T)
  PROVE  IsSequence(s)
BY DEF IsSequence, Range

\* A sequence is one over every set that has its elements.
LEMMA SequenceWiden ==
  ASSUME NEW s, NEW T, IsSequence(s), Range(s) \subseteq T
  PROVE  s \in Seq(T)
BY DEF IsSequence

\* The empty sequence: the stack, the variables and the heap a program starts with.
LEMMA SequenceEmpty == IsSequence(<<>>) /\ Len(<<>>) = 0 /\ DOMAIN <<>> = {}
<1>1. <<>> \in Seq({}) /\ Len(<<>>) = 0 /\ DOMAIN <<>> = {}
  OBVIOUS
<1>2. IsSequence(<<>>)
  BY <1>1, InSeq
<1> QED BY <1>1, <1>2

\* A function on 1..n is a sequence of length n.
LEMMA SequenceFunction ==
  ASSUME NEW n \in Nat, NEW f, f = [k \in 1..n |-> f[k]]
  PROVE  IsSequence(f) /\ Len(f) = n
<1>1. f \in [1..n -> Range(f)]
  BY DEF Range
<1> QED BY <1>1, IsASeq, InSeq DEF IsSequence

\* What Append does (a push on a std::vector).
LEMMA SequenceAppend ==
  ASSUME NEW s, NEW x, IsSequence(s)
  PROVE  /\ IsSequence(Append(s, x)) /\ Len(Append(s, x)) = Len(s) + 1
         /\ \A k \in 1..Len(s) : Append(s, x)[k] = s[k]
         /\ Append(s, x)[Len(s) + 1] = x
<1> DEFINE T == Range(s) \cup {x}
<1>1. s \in Seq(T) /\ x \in T
  BY SequenceWiden
<1> HIDE DEF T
<1>2. /\ Append(s, x) \in Seq(T) /\ Len(Append(s, x)) = Len(s) + 1
      /\ \A k \in 1..Len(s) : Append(s, x)[k] = s[k]
      /\ Append(s, x)[Len(s) + 1] = x
  BY <1>1, AppendProperties
<1>3. IsSequence(Append(s, x))
  BY <1>2, InSeq
<1> QED BY <1>2, <1>3

\* What is left of a sequence when its end is taken off.
LEMMA SequencePrefix ==
  ASSUME NEW s, NEW n \in Nat, IsSequence(s), n <= Len(s)
  PROVE  /\ IsSequence(SubSeq(s, 1, n)) /\ Len(SubSeq(s, 1, n)) = n
         /\ \A k \in 1..n : SubSeq(s, 1, n)[k] = s[k]
<1> DEFINE T == Range(s)
<1>1. Len(s) \in Nat /\ \A k \in 1..n : s[k] \in T
  BY SequenceFacts
<1> HIDE DEF T
<1>2. /\ SubSeq(s, 1, n) \in Seq(T)
      /\ Len(SubSeq(s, 1, n)) = IF 1 <= n THEN n - 1 + 1 ELSE 0
      /\ \A i \in 1 .. n-1+1 : SubSeq(s,1,n)[i] = s[1+i-1]
  BY <1>1, SubSeqProperties
<1>3. IsSequence(SubSeq(s, 1, n))
  BY <1>2, InSeq
<1> QED BY <1>2, <1>3

\* e is s followed by t.
Joins(e, s, t) ==
    /\ IsSequence(e) /\ Len(e) = Len(s) + Len(t)
    /\ \A k \in 1..Len(s) : e[k] = s[k]
    /\ \A k \in 1..Len(t) : e[Len(s) + k] = t[k]

\* What the concatenation of two sequences is.
LEMMA SequenceConcat ==
  ASSUME NEW s, NEW t, IsSequence(s), IsSequence(t)
  PROVE  Joins(s \o t, s, t)
<1> DEFINE T == Range(s) \cup Range(t)
<1>1. s \in Seq(T) /\ t \in Seq(T) /\ Len(s) \in Nat /\ Len(t) \in Nat
  BY SequenceWiden, SequenceFacts
<1> HIDE DEF T
<1>2. /\ s \o t \in Seq(T)
      /\ Len(s \o t) = Len(s) + Len(t)
      /\ \A i \in 1 .. Len(s) + Len(t) : (s \o t)[i] =
                     IF i <= Len(s) THEN s[i] ELSE t[i - Len(s)]
  BY <1>1, ConcatProperties
<1>3. IsSequence(s \o t)
  BY <1>2, InSeq
<1> QED BY <1>1, <1>2, <1>3 DEF Joins

\* e is s with x as the element n.
Replaces(e, s, n, x) ==
    /\ IsSequence(e) /\ Len(e) = Len(s)
    /\ \A k \in 1..Len(s) : e[k] = IF k = n THEN x ELSE s[k]

\* What the assignment to one element of a sequence does.
LEMMA SequenceExcept ==
  ASSUME NEW s, NEW n, NEW x, IsSequence(s), n \in DOMAIN s
  PROVE  Replaces([s EXCEPT ![n] = x], s, n, x)
<1> DEFINE e == [s EXCEPT ![n] = x]
<1>1. Len(s) \in Nat /\ DOMAIN s = 1..Len(s)
  BY SequenceFacts
<1>2. e = [k \in 1..Len(s) |-> e[k]] /\ \A k \in 1..Len(s) : e[k] = IF k = n THEN x ELSE s[k]
  BY <1>1
<1> HIDE DEF e
<1>3. IsSequence(e) /\ Len(e) = Len(s)
  BY <1>1, <1>2, SequenceFunction
<1> QED BY <1>2, <1>3 DEF e, Replaces

\* Sequences with the same elements are the same.
LEMMA SequenceEqual ==
  ASSUME NEW s, NEW t, IsSequence(s), IsSequence(t), Len(s) = Len(t),
         \A k \in 1..Len(s) : s[k] = t[k]
  PROVE  s = t
<1> DEFINE T == Range(s) \cup Range(t)
<1>1. s \in Seq(T) /\ t \in Seq(T)
  BY SequenceWiden
<1> HIDE DEF T
<1> QED BY <1>1, SeqEqual

-----------------------------------------------------------------------------
(* The functions along a path.                                             *)

\* g gives the functions along the first n steps of path, from f.
Chain(f, path, n, g) ==
    g = [m \in 0..n |-> IF m = 0 THEN f ELSE g[m - 1].code[path[m]][2]]

\* There is a chain of functions along every path (the recursive function that
\* FunctionFrom is defined by has a value).
LEMMA ChainExists ==
  ASSUME NEW f, NEW path, NEW l \in Nat
  PROVE  \E g : Chain(f, path, l, g)
<1> DEFINE C == {n \in 0..l : \E g : Chain(f, path, n, g)}
<1>1. 0 \in C
  <2>1. Chain(f, path, 0, [m \in 0..0 |-> f])
    BY DEF Chain
  <2> QED BY <2>1
<1>2. \A n \in 0..l : n < l /\ n \in C => n + 1 \in C
  <2> SUFFICES ASSUME NEW n \in 0..l, n < l, n \in C PROVE n + 1 \in C
    OBVIOUS
  <2>1. PICK g : Chain(f, path, n, g)
    OBVIOUS
  <2> DEFINE h == [m \in 0..n + 1 |-> IF m = n + 1 THEN g[n].code[path[n + 1]][2] ELSE g[m]]
  <2>2. \A m \in 0..n + 1 : h[m] = IF m = 0 THEN f ELSE h[m - 1].code[path[m]][2]
    <3>1. \A m \in 0..n : g[m] = IF m = 0 THEN f ELSE g[m - 1].code[path[m]][2]
      BY <2>1 DEF Chain
    <3>2. \A m \in 0..n : h[m] = g[m]
      OBVIOUS
    <3>3. h[n + 1] = g[n].code[path[n + 1]][2]
      OBVIOUS
    <3> HIDE DEF h
    <3> QED BY <3>1, <3>2, <3>3
  <2>3. h = [m \in 0..n + 1 |-> h[m]]
    OBVIOUS
  <2>4. Chain(f, path, n + 1, h)
    <3> HIDE DEF h
    <3> QED BY <2>2, <2>3 DEF Chain
  <2> QED BY <2>4
<1> HIDE DEF C
<1>3. 0..l \subseteq C
  BY <1>1, <1>2, CountingUp
<1> QED BY <1>3 DEF C

\* Chains from one function along paths that begin alike are alike there.
LEMMA ChainsAgree ==
  ASSUME NEW f, NEW p, NEW q, NEW n \in Nat, NEW m \in Nat, n <= m, NEW g, NEW h,
         Chain(f, p, n, g), Chain(f, q, m, h), \A k \in 1..n : p[k] = q[k]
  PROVE  g[n] = h[n]
<1> DEFINE C == {k \in 0..n : g[k] = h[k]}
<1>1. \A k \in 0..n : g[k] = IF k = 0 THEN f ELSE g[k - 1].code[p[k]][2]
  BY DEF Chain
<1>2. \A k \in 0..m : h[k] = IF k = 0 THEN f ELSE h[k - 1].code[q[k]][2]
  BY DEF Chain
<1>3. 0 \in C
  BY <1>1, <1>2
<1>4. \A k \in 0..n : k < n /\ k \in C => k + 1 \in C
  BY <1>1, <1>2
<1> HIDE DEF C
<1>5. 0..n \subseteq C
  BY <1>3, <1>4, CountingUp
<1> QED BY <1>5 DEF C

\* FunctionFrom is the end of a chain.
LEMMA FunctionIsChain ==
  ASSUME NEW f, NEW path, Len(path) \in Nat
  PROVE  \E g : Chain(f, path, Len(path), g) /\ FunctionFrom(f, path) = g[Len(path)]
<1> DEFINE G == CHOOSE g : Chain(f, path, Len(path), g)
<1>1. Chain(f, path, Len(path), G)
  BY ChainExists
<1>2. FunctionFrom(f, path) = G[Len(path)]
  BY DEF FunctionFrom, Chain
<1> QED BY <1>1, <1>2

\* The empty path names the top-level function.
LEMMA FunctionOfRoot ==
  ASSUME NEW f
  PROVE  FunctionFrom(f, <<>>) = f
<1>1. Len(<<>>) = 0 /\ 0 \in Nat
  BY SequenceEmpty
<1>2. PICK g : Chain(f, <<>>, 0, g) /\ FunctionFrom(f, <<>>) = g[0]
  BY <1>1, FunctionIsChain
<1>3. g[0] = f
  BY <1>2 DEF Chain
<1> QED BY <1>2, <1>3

\* A path that is longer by i names the function the instruction at i loads
\* (Function::functions_ of the enclosing function).
LEMMA FunctionOfAppend ==
  ASSUME NEW f, NEW path, NEW i, IsSequence(path)
  PROVE  FunctionFrom(f, Append(path, i)) = FunctionFrom(f, path).code[i][2]
<1> DEFINE p == Append(path, i)
           n == Len(path)
<1>1. n \in Nat /\ IsSequence(p) /\ Len(p) = n + 1 /\ (\A k \in 1..n : path[k] = p[k]) /\ p[n + 1] = i
  BY SequenceAppend, SequenceFacts
<1> HIDE DEF p, n
<1>2. PICK g : Chain(f, path, n, g) /\ FunctionFrom(f, path) = g[n]
  BY <1>1, FunctionIsChain DEF n
<1>3. PICK h : Chain(f, p, n + 1, h) /\ FunctionFrom(f, p) = h[n + 1]
  BY <1>1, FunctionIsChain
<1>4. g[n] = h[n]
  BY <1>1, <1>2, <1>3, ChainsAgree
<1>5. h[n + 1] = h[n].code[p[n + 1]][2]
  <2>1. n + 1 \in 0..n + 1 /\ n + 1 # 0 /\ (n + 1) - 1 = n
    BY <1>1
  <2> QED BY <1>3, <2>1 DEF Chain
<1> QED BY <1>1, <1>2, <1>3, <1>4, <1>5 DEF p

-----------------------------------------------------------------------------
(* What is true of a state.  w is what the frames and the values refer to. *)

World == [code |-> code, cells |-> cells, closures |-> closures, recs |-> recs]
FunctionAt(w, path) == FunctionFrom(w.code, path)

\* Valid, for the world w.
ValueIn(w, v) ==
    /\ v[1] \in {"none", "int", "bool", "str", "native", "function", "record"}
    /\ v[1] = "function" => v[2] \in DOMAIN w.closures
    /\ v[1] = "record"   => v[2] \in DOMAIN w.recs

\* Reference r is the variable x of the function at path, or of one around it
\* from which x is handed down to the function at path.
Sees(w, r, path, x) ==
    /\ r \in DOMAIN w.cells
    /\ w.cells[r].name = x
    /\ Len(w.cells[r].path) \in 0..Len(path)
    /\ w.cells[r].path = SubSeq(path, 1, Len(w.cells[r].path))
    /\ x \in FunctionAt(w, w.cells[r].path).local_vars
    /\ \A m \in Len(w.cells[r].path) + 1..Len(path) :
          x \in Range(FunctionAt(w, SubSeq(path, 1, m)).free_vars)

\* refs are the variables of these names, one by one.
AllSeen(w, refs, path, names) ==
    /\ IsSequence(refs) /\ IsSequence(names) /\ Len(refs) = Len(names)
    /\ \A k \in 1..Len(names) : Sees(w, refs[k], path, names[k])

\* v, on the stack of the function at path, is what the slot says.
SlotHolds(w, path, v, slot) ==
    /\ slot = ValueSlot => ValueIn(w, v)
    /\ \/ slot = ValueSlot
       \/ /\ slot = BareSlot(slot[2])
          /\ v = <<"bare", Append(path, slot[2])>>
       \/ /\ slot = ReferenceSlot(slot[2])
          /\ v = <<"reference", v[2]>>
          /\ Sees(w, v[2], path, slot[2])

StackFits(w, path, stack, slots) ==
    /\ IsSequence(stack) /\ IsSequence(slots) /\ Len(stack) = Len(slots)
    /\ \A k \in 1..Len(slots) : SlotHolds(w, path, stack[k], slots[k])

\* path leads to a function the layout is for.
Known(w, layout, path) == IsSequence(path) /\ FunctionAt(w, path) \in DOMAIN layout

\* An activation, and a cell below: records with just these fields.
IsFrame(f) ==
    f = [path |-> f.path, ip |-> f.ip, locals |-> f.locals, refs |-> f.refs, stack |-> f.stack]

\* A frame that goes on at its ip with the given stack.
FrameFits(w, layout, f, stack) ==
    LET g == FunctionAt(w, f.path) IN
    /\ IsFrame(f)
    /\ Known(w, layout, f.path)
    /\ f.ip \in 1..Len(g.code) + 1
    /\ DOMAIN f.locals = g.local_vars
    /\ \A x \in g.local_vars : ValueIn(w, f.locals[x])
    /\ AllSeen(w, f.refs, f.path, RefNames(g))
    /\ StackFits(w, f.path, stack, layout[g][f.ip])

\* The frames below the top one wait for the result of a call.
FramesFit(w, layout, fs) ==
    /\ IsSequence(fs)
    /\ \A i \in 1..Len(fs) :
          /\ IsSequence(fs[i].stack)
          /\ FrameFits(w, layout, fs[i],
                       IF i = Len(fs) THEN fs[i].stack ELSE Append(fs[i].stack, None))

IsCell(c) == c = [name |-> c.name, path |-> c.path, value |-> c.value]
CellsFit(w) ==
    /\ IsSequence(w.cells)
    /\ \A r \in 1..Len(w.cells) : IsCell(w.cells[r]) /\ ValueIn(w, w.cells[r].value)

\* The references of a closure are variables of functions around its own.
ClosureFits(w, layout, c) ==
    /\ Known(w, layout, c.path)
    /\ AllSeen(w, c.refs, c.path, FunctionAt(w, c.path).free_vars)
    /\ \A k \in 1..Len(c.refs) : Len(w.cells[c.refs[k]].path) < Len(c.path)
ClosuresFit(w, layout) ==
    /\ IsSequence(w.closures)
    /\ \A i \in 1..Len(w.closures) : ClosureFits(w, layout, w.closures[i])

RecsFit(w) ==
    /\ IsSequence(w.recs)
    /\ \A r \in 1..Len(w.recs) : \A k \in DOMAIN w.recs[r] : ValueIn(w, w.recs[r][k])

GlobalsFit(w, g) == \A x \in DOMAIN g : ValueIn(w, g[x])

\* The state is as the layout of the code says.
Fits(layout) ==
    /\ end \in {"running", "ok", "uninitialized", "cast", "runtime", "arithmetic"}
    /\ end = "running" => frames # <<>>
    /\ Verified(layout)
    /\ FramesFit(World, layout, frames)
    /\ CellsFit(World)
    /\ ClosuresFit(World, layout)
    /\ RecsFit(World)
    /\ GlobalsFit(World, global_variables)

-----------------------------------------------------------------------------
(* What fits goes on fitting when the world grows.                         *)

\* World u is w with more cells, closures and records; cells have other values.
Extends(u, w) ==
    /\ u.code = w.code
    /\ \A r \in DOMAIN w.cells :
          /\ r \in DOMAIN u.cells
          /\ u.cells[r].name = w.cells[r].name
          /\ u.cells[r].path = w.cells[r].path
    /\ DOMAIN w.closures \subseteq DOMAIN u.closures
    /\ DOMAIN w.recs \subseteq DOMAIN u.recs

\* A value goes on referring to an object that exists: objects are only added.
LEMMA ValueKept ==
  ASSUME NEW w, NEW u, Extends(u, w), NEW v, ValueIn(w, v)
  PROVE  ValueIn(u, v)
BY DEF Extends, ValueIn

\* A reference goes on being the variable it was: a cell changes its value only.
LEMMA SeesKept ==
  ASSUME NEW w, NEW u, Extends(u, w), NEW r, NEW path, NEW x, Sees(w, r, path, x)
  PROVE  Sees(u, r, path, x)
BY DEF Extends, Sees, FunctionAt

\* So do the references of an activation or a closure.
LEMMA AllSeenKept ==
  ASSUME NEW w, NEW u, Extends(u, w), NEW refs, NEW path, NEW names, AllSeen(w, refs, path, names)
  PROVE  AllSeen(u, refs, path, names)
BY SeesKept DEF AllSeen

\* What is in a slot of an operand stack still fits.
LEMMA SlotKept ==
  ASSUME NEW w, NEW u, Extends(u, w), NEW path, NEW v, NEW slot, SlotHolds(w, path, v, slot)
  PROVE  SlotHolds(u, path, v, slot)
BY ValueKept, SeesKept DEF SlotHolds

\* What is on an operand stack still fits.
LEMMA StackKept ==
  ASSUME NEW w, NEW u, Extends(u, w), NEW path, NEW s, NEW t, StackFits(w, path, s, t)
  PROVE  StackFits(u, path, s, t)
BY SlotKept DEF StackFits

\* An activation still fits.
LEMMA FrameKept ==
  ASSUME NEW w, NEW u, Extends(u, w), NEW layout, NEW f, NEW s, FrameFits(w, layout, f, s)
  PROVE  FrameFits(u, layout, f, s)
<1>1. FunctionAt(u, f.path) = FunctionAt(w, f.path)
  BY DEF Extends, FunctionAt
<1> QED BY <1>1, ValueKept, AllSeenKept, StackKept DEF FrameFits, Known

\* A closure still fits.
LEMMA ClosureKept ==
  ASSUME NEW w, NEW u, Extends(u, w), NEW layout, NEW c, ClosureFits(w, layout, c)
  PROVE  ClosureFits(u, layout, c)
<1>1. FunctionAt(u, c.path) = FunctionAt(w, c.path)
  BY DEF Extends, FunctionAt
<1>2. \A k \in 1..Len(c.refs) : c.refs[k] \in DOMAIN w.cells
  BY DEF ClosureFits, AllSeen, Sees
<1>3. \A k \in 1..Len(c.refs) : Len(u.cells[c.refs[k]].path) < Len(c.path)
  BY <1>2 DEF ClosureFits, Extends
<1>4. Known(u, layout, c.path)
  BY <1>1 DEF ClosureFits, Known
<1>5. AllSeen(u, c.refs, c.path, FunctionAt(u, c.path).free_vars)
  BY <1>1, AllSeenKept DEF ClosureFits
<1> QED BY <1>3, <1>4, <1>5 DEF ClosureFits

-----------------------------------------------------------------------------
(* The operand stack.                                                      *)

\* What is below the operands fits the slots below theirs (safe_pop).
LEMMA StackUnder ==
  ASSUME NEW w, NEW path, NEW s, NEW t, StackFits(w, path, s, t), NEW n \in Nat, n <= Len(t)
  PROVE  StackFits(w, path, SubSeq(s, 1, Len(s) - n), SubSeq(t, 1, Len(t) - n))
<1>1. /\ IsSequence(s) /\ IsSequence(t) /\ Len(s) = Len(t) /\ Len(t) \in Nat
      /\ \A k \in 1..Len(t) : SlotHolds(w, path, s[k], t[k])
  BY SequenceFacts DEF StackFits
<1> DEFINE m == Len(t) - n
<1>2. m \in Nat /\ m <= Len(s) /\ m <= Len(t) /\ Len(s) - n = m
  BY <1>1
<1> HIDE DEF m
<1>3. /\ IsSequence(SubSeq(s, 1, m)) /\ Len(SubSeq(s, 1, m)) = m
      /\ \A k \in 1..m : SubSeq(s, 1, m)[k] = s[k]
  BY <1>1, <1>2, SequencePrefix
<1>4. /\ IsSequence(SubSeq(t, 1, m)) /\ Len(SubSeq(t, 1, m)) = m
      /\ \A k \in 1..m : SubSeq(t, 1, m)[k] = t[k]
  BY <1>1, <1>2, SequencePrefix
<1>5. \A k \in 1..m : SlotHolds(w, path, SubSeq(s, 1, m)[k], SubSeq(t, 1, m)[k])
  BY <1>1, <1>2, <1>3, <1>4
<1>6. StackFits(w, path, SubSeq(s, 1, m), SubSeq(t, 1, m))
  BY <1>3, <1>4, <1>5 DEF StackFits
<1> QED BY <1>2, <1>6 DEF m

\* What is pushed fits if it fits the slot that is added.
LEMMA StackPush ==
  ASSUME NEW w, NEW path, NEW s, NEW t, StackFits(w, path, s, t),
         NEW v, NEW slot, SlotHolds(w, path, v, slot)
  PROVE  StackFits(w, path, Append(s, v), Append(t, slot))
<1>1. /\ IsSequence(s) /\ IsSequence(t) /\ Len(s) = Len(t) /\ Len(t) \in Nat
      /\ \A k \in 1..Len(t) : SlotHolds(w, path, s[k], t[k])
  BY SequenceFacts DEF StackFits
<1> DEFINE a == Append(s, v)
           b == Append(t, slot)
<1>2. /\ IsSequence(a) /\ Len(a) = Len(t) + 1 /\ (\A k \in 1..Len(t) : a[k] = s[k]) /\ a[Len(t) + 1] = v
  BY <1>1, SequenceAppend
<1>3. /\ IsSequence(b) /\ Len(b) = Len(t) + 1 /\ (\A k \in 1..Len(t) : b[k] = t[k]) /\ b[Len(t) + 1] = slot
  BY <1>1, SequenceAppend
<1> HIDE DEF a, b
<1>4. \A k \in 1..Len(b) : SlotHolds(w, path, a[k], b[k])
  BY <1>1, <1>2, <1>3
<1>5. StackFits(w, path, a, b)
  BY <1>2, <1>3, <1>4 DEF StackFits
<1> QED BY <1>5 DEF a, b

\* Only values fit where the result of a call is waited for.
LEMMA StackResult ==
  ASSUME NEW w, NEW path, NEW s, NEW t, IsSequence(s), NEW x, NEW v,
         StackFits(w, path, Append(s, None), t), ValueIn(w, v)
  PROVE  StackFits(w, path, Append(s, v), t)
<1> DEFINE a == Append(s, None)
           b == Append(s, v)
<1>1. /\ IsSequence(a) /\ Len(a) = Len(s) + 1 /\ (\A k \in 1..Len(s) : a[k] = s[k])
      /\ a[Len(s) + 1] = None /\ Len(s) \in Nat
  BY SequenceAppend, SequenceFacts
<1>2. /\ IsSequence(b) /\ Len(b) = Len(s) + 1 /\ (\A k \in 1..Len(s) : b[k] = s[k]) /\ b[Len(s) + 1] = v
  BY SequenceAppend
<1>3. StackFits(w, path, a, t)
  OBVIOUS
<1> HIDE DEF a, b
<1>4. /\ IsSequence(t) /\ Len(t) = Len(s) + 1
      /\ \A k \in 1..Len(t) : SlotHolds(w, path, a[k], t[k])
  BY <1>1, <1>3 DEF StackFits
<1>5. SlotHolds(w, path, None, t[Len(s) + 1])
  BY <1>1, <1>4
<1>6. t[Len(s) + 1] = ValueSlot
  BY <1>5 DEF SlotHolds, None, BareSlot, ReferenceSlot
<1>7. SlotHolds(w, path, v, t[Len(s) + 1])
  BY <1>6 DEF SlotHolds
<1>8. \A k \in 1..Len(t) : SlotHolds(w, path, b[k], t[k])
  BY <1>1, <1>2, <1>4, <1>7
<1>9. StackFits(w, path, b, t)
  BY <1>2, <1>4, <1>8 DEF StackFits
<1> QED BY <1>9 DEF b
-----------------------------------------------------------------------------
(* The stack of calls.                                                     *)

\* The assignment of the stack and the index of an activation keeps the rest.
LEMMA FrameMoved ==
  ASSUME NEW f, IsFrame(f), NEW s, NEW i
  PROVE  /\ IsFrame([f EXCEPT !.stack = s, !.ip = i])
         /\ [f EXCEPT !.stack = s, !.ip = i] =
               [path |-> f.path, ip |-> i, locals |-> f.locals, refs |-> f.refs, stack |-> s]
         /\ IsFrame([f EXCEPT !.stack = s])
         /\ [f EXCEPT !.stack = s] =
               [path |-> f.path, ip |-> f.ip, locals |-> f.locals, refs |-> f.refs, stack |-> s]
<1>1. PICK p, n, l, r, q : f = [path |-> p, ip |-> n, locals |-> l, refs |-> r, stack |-> q]
  BY DEF IsFrame
<1>2. /\ f.path = p /\ f.ip = n /\ f.locals = l /\ f.refs = r
  BY <1>1
<1>3. [f EXCEPT !.stack = s, !.ip = i] = [path |-> p, ip |-> i, locals |-> l, refs |-> r, stack |-> s]
  <2>1. [f EXCEPT !.stack = s, !.ip = i] = [[f EXCEPT !.stack = s] EXCEPT !.ip = i]
    OBVIOUS
  <2>2. [f EXCEPT !.stack = s] = [path |-> p, ip |-> n, locals |-> l, refs |-> r, stack |-> s]
    BY <1>1
  <2>3. [[path |-> p, ip |-> n, locals |-> l, refs |-> r, stack |-> s] EXCEPT !.ip = i]
        = [path |-> p, ip |-> i, locals |-> l, refs |-> r, stack |-> s]
    OBVIOUS
  <2> QED BY <2>1, <2>2, <2>3, Zenon
<1>4. [f EXCEPT !.stack = s] = [path |-> p, ip |-> n, locals |-> l, refs |-> r, stack |-> s]
  BY <1>1
<1>5. \A i1, s1 : IsFrame([path |-> p, ip |-> i1, locals |-> l, refs |-> r, stack |-> s1])
  BY DEF IsFrame
<1> QED BY <1>2, <1>3, <1>4, <1>5

\* The step of the function on top changes its activation and no other one.
LEMMA FramesReplaced ==
  ASSUME NEW w, NEW u, NEW layout, NEW fs, FramesFit(w, layout, fs), Extends(u, w), fs # <<>>,
         NEW f, IsSequence(f.stack), FrameFits(u, layout, f, f.stack)
  PROVE  FramesFit(u, layout, [fs EXCEPT ![Len(fs)] = f])
<1> DEFINE e == [fs EXCEPT ![Len(fs)] = f]
<1>1. IsSequence(fs) /\ Len(fs) \in Nat /\ DOMAIN fs = 1..Len(fs) /\ Len(fs) \in DOMAIN fs
  <2>1. IsSequence(fs) /\ Len(fs) \in Nat /\ DOMAIN fs = 1..Len(fs)
    BY SequenceFacts DEF FramesFit
  <2>2. Len(fs) # 0
    BY <2>1, SequenceEmpty, SequenceEqual
  <2> QED BY <2>1, <2>2
<1>2. /\ IsSequence(e) /\ Len(e) = Len(fs)
      /\ \A k \in 1..Len(fs) : e[k] = IF k = Len(fs) THEN f ELSE fs[k]
  BY <1>1, SequenceExcept DEF Replaces
<1> HIDE DEF e
<1>3. ASSUME NEW i \in 1..Len(e)
      PROVE  /\ IsSequence(e[i].stack)
             /\ FrameFits(u, layout, e[i], IF i = Len(e) THEN e[i].stack ELSE Append(e[i].stack, None))
  <2>1. CASE i = Len(fs)
    BY <1>2, <2>1
  <2>2. CASE i # Len(fs)
    <3>1. e[i] = fs[i] /\ i # Len(e)
      BY <1>2, <2>2
    <3>2. IsSequence(fs[i].stack) /\ FrameFits(w, layout, fs[i], Append(fs[i].stack, None))
      BY <1>2, <2>2 DEF FramesFit
    <3>3. FrameFits(u, layout, fs[i], Append(fs[i].stack, None))
      BY <3>2, FrameKept
    <3> QED BY <3>1, <3>2, <3>3
  <2> QED BY <2>1, <2>2
<1>4. FramesFit(u, layout, e)
  BY <1>2, <1>3 DEF FramesFit
<1> QED BY <1>4 DEF e

\* The stack of calls still fits when objects are added.
LEMMA FramesKept ==
  ASSUME NEW w, NEW u, NEW layout, NEW fs, FramesFit(w, layout, fs), Extends(u, w)
  PROVE  FramesFit(u, layout, fs)
BY FrameKept DEF FramesFit

\* c is the calling frame, which waits, and f the frame of the function called.
LEMMA FramesPushed ==
  ASSUME NEW w, NEW u, NEW layout, NEW fs, FramesFit(w, layout, fs), Extends(u, w), fs # <<>>,
         NEW c, IsSequence(c.stack), FrameFits(u, layout, c, Append(c.stack, None)),
         NEW f, IsSequence(f.stack), FrameFits(u, layout, f, f.stack)
  PROVE  FramesFit(u, layout, Append([fs EXCEPT ![Len(fs)] = c], f))
<1> DEFINE e == [fs EXCEPT ![Len(fs)] = c]
           a == Append(e, f)
<1>1. IsSequence(fs) /\ Len(fs) \in Nat /\ DOMAIN fs = 1..Len(fs) /\ Len(fs) \in DOMAIN fs
  <2>1. IsSequence(fs) /\ Len(fs) \in Nat /\ DOMAIN fs = 1..Len(fs)
    BY SequenceFacts DEF FramesFit
  <2>2. Len(fs) # 0
    BY <2>1, SequenceEmpty, SequenceEqual
  <2> QED BY <2>1, <2>2
<1>2. /\ IsSequence(e) /\ Len(e) = Len(fs)
      /\ \A k \in 1..Len(fs) : e[k] = IF k = Len(fs) THEN c ELSE fs[k]
  BY <1>1, SequenceExcept DEF Replaces
<1>3. /\ IsSequence(a) /\ Len(a) = Len(fs) + 1
      /\ (\A k \in 1..Len(fs) : a[k] = e[k]) /\ a[Len(fs) + 1] = f
  <2> HIDE DEF e
  <2> QED BY <1>2, SequenceAppend
<1> HIDE DEF e, a
<1>4. ASSUME NEW i \in 1..Len(a)
      PROVE  /\ IsSequence(a[i].stack)
             /\ FrameFits(u, layout, a[i], IF i = Len(a) THEN a[i].stack ELSE Append(a[i].stack, None))
  <2>1. CASE i = Len(fs) + 1
    BY <1>3, <2>1
  <2>2. CASE i = Len(fs)
    <3>1. i \in 1..Len(fs) /\ i # Len(a)
      <4>1. Len(fs) \in 1..Len(fs)
        BY <1>1, Zenon
      <4>2. \A k \in Nat : k # k + 1
        OBVIOUS
      <4> QED BY <1>1, <4>1, <4>2, <1>3, <2>2, Zenon
    <3>2. a[i] = e[i] /\ e[i] = c
      BY <1>2, <1>3, <2>2, <3>1
    <3> QED BY <3>1, <3>2
  <2>3. CASE i \in 1..Len(fs) /\ i # Len(fs)
    <3>1. a[i] = fs[i] /\ i # Len(a)
      BY <1>1, <1>2, <1>3, <2>3
    <3>2. IsSequence(fs[i].stack) /\ FrameFits(w, layout, fs[i], Append(fs[i].stack, None))
      BY <2>3 DEF FramesFit
    <3>3. FrameFits(u, layout, fs[i], Append(fs[i].stack, None))
      BY <3>2, FrameKept
    <3> QED BY <3>1, <3>2, <3>3
  <2>4. i = Len(fs) + 1 \/ i = Len(fs) \/ (i \in 1..Len(fs) /\ i # Len(fs))
    BY <1>1, <1>3
  <2> QED BY <2>1, <2>2, <2>3, <2>4
<1>5. FramesFit(u, layout, a)
  BY <1>3, <1>4 DEF FramesFit
<1> QED BY <1>5 DEF a, e

\* The top frame is left, and the one below has the result on its stack.
LEMMA FramesPopped ==
  ASSUME NEW w, NEW layout, NEW fs, FramesFit(w, layout, fs), Len(fs) > 1, NEW v, ValueIn(w, v)
  PROVE  FramesFit(w, layout, [Front(fs) EXCEPT ![Len(fs) - 1].stack = Append(@, v)])
<1> DEFINE n == Len(fs) - 1
           q == SubSeq(fs, 1, n)
           f == [fs[n] EXCEPT !.stack = Append(fs[n].stack, v)]
           e == [q EXCEPT ![n] = f]
<1>1. IsSequence(fs) /\ Len(fs) \in Nat /\ n \in Nat /\ n >= 1 /\ n <= Len(fs) /\ n # Len(fs)
  BY SequenceFacts DEF FramesFit
<1>2. IsSequence(q) /\ Len(q) = n /\ \A k \in 1..n : q[k] = fs[k]
  <2> HIDE DEF n
  <2> QED BY <1>1, SequencePrefix
<1>3. n \in DOMAIN q /\ q[n] = fs[n]
  <2> HIDE DEF n, q
  <2> QED BY <1>1, <1>2, SequenceFacts
<1>4. [Front(fs) EXCEPT ![Len(fs) - 1].stack = Append(@, v)] = e
  BY <1>3 DEF Front
<1>5. IsSequence(e) /\ Len(e) = n /\ \A k \in 1..n : e[k] = IF k = n THEN f ELSE q[k]
  <2>1. n \in DOMAIN q /\ IsSequence(q) /\ Len(q) = n
    BY <1>2, <1>3
  <2> HIDE DEF n, q, f
  <2>3. Replaces([q EXCEPT ![n] = f], q, n, f)
    BY <2>1, SequenceExcept
  <2>2. /\ IsSequence(e) /\ Len(e) = Len(q)
        /\ \A k \in 1..Len(q) : e[k] = IF k = n THEN f ELSE q[k]
    BY <2>3 DEF Replaces
  <2> HIDE DEF e
  <2> QED BY <2>1, <2>2
<1>6. IsSequence(fs[n].stack) /\ FrameFits(w, layout, fs[n], Append(fs[n].stack, None))
  <2> HIDE DEF n
  <2> QED BY <1>1 DEF FramesFit
<1>7. IsSequence(f.stack) /\ FrameFits(w, layout, f, f.stack)
  <2> HIDE DEF n
  <2>1. IsFrame(fs[n])
    BY <1>6 DEF FrameFits
  <2>2. /\ f.path = fs[n].path /\ f.ip = fs[n].ip /\ f.locals = fs[n].locals
        /\ f.refs = fs[n].refs /\ f.stack = Append(fs[n].stack, v) /\ IsFrame(f)
    <3>1. IsFrame(f) /\ f = [path |-> fs[n].path, ip |-> fs[n].ip, locals |-> fs[n].locals,
                            refs |-> fs[n].refs, stack |-> Append(fs[n].stack, v)]
      BY <2>1, FrameMoved
    <3> HIDE DEF f
    <3> QED BY <3>1
  <2> HIDE DEF f
  <2>3. IsSequence(Append(fs[n].stack, v))
    BY <1>6, SequenceAppend
  <2>4. LET g == FunctionAt(w, f.path) IN StackFits(w, f.path, f.stack, layout[g][f.ip])
    BY <1>6, <2>2, StackResult DEF FrameFits
  <2> QED BY <1>6, <2>2, <2>3, <2>4 DEF FrameFits
<1> HIDE DEF e, f, q
<1>8. ASSUME NEW i \in 1..Len(e)
      PROVE  /\ IsSequence(e[i].stack)
             /\ FrameFits(w, layout, e[i], IF i = Len(e) THEN e[i].stack ELSE Append(e[i].stack, None))
  <2>1. CASE i = n
    BY <1>5, <1>7, <2>1
  <2>2. CASE i # n
    <3>1. e[i] = fs[i] /\ i # Len(e) /\ i \in 1..Len(fs) /\ i # Len(fs)
      BY <1>1, <1>2, <1>5, <2>2
    <3>2. IsSequence(fs[i].stack) /\ FrameFits(w, layout, fs[i], Append(fs[i].stack, None))
      BY <3>1 DEF FramesFit
    <3> QED BY <3>1, <3>2
  <2> QED BY <2>1, <2>2
<1>9. FramesFit(w, layout, e)
  BY <1>5, <1>8 DEF FramesFit
<1> QED BY <1>4, <1>9
=============================================================================
