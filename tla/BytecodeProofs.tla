---------------------------- MODULE BytecodeProofs ----------------------------
(***************************************************************************)
(* Proofs about InterpreterLoop, for any program: whatever code is verified, *)
(* one instruction at a time preserves Fits, from which TypeOK,            *)
(* StatementsLeaveNothing and CapturesAreLexical follow.                   *)
(***************************************************************************)
EXTENDS BytecodeLemmas

-----------------------------------------------------------------------------
(* The instruction that is executed.                                       *)

\* The slots of the stack at the instruction.
Slots(layout) == layout[fn][top.ip]

\* While the loop runs there is an activation on top, and it fits.
LEMMA TopFits ==
  ASSUME NEW layout, Fits(layout), end = "running"
  PROVE  /\ frames # <<>> /\ Len(frames) \in Nat /\ Len(frames) >= 1
         /\ Len(frames) \in DOMAIN frames /\ top = frames[Len(frames)]
         /\ fn = FunctionAt(World, top.path) /\ fn \in DOMAIN layout
         /\ IsSequence(S) /\ FrameFits(World, layout, top, S)
<1>1. frames # <<>> /\ FramesFit(World, layout, frames)
  BY DEF Fits
<1>2. Len(frames) \in Nat /\ IsSequence(frames) /\ DOMAIN frames = 1..Len(frames)
  BY <1>1, SequenceFacts DEF FramesFit
<1>3. Len(frames) # 0
  BY <1>1, <1>2, SequenceEmpty, SequenceEqual
<1>4. Len(frames) >= 1 /\ Len(frames) \in 1..Len(frames)
  BY <1>2, <1>3
<1>5. top = frames[Len(frames)]
  BY DEF top, Last
<1>6. IsSequence(S) /\ FrameFits(World, layout, top, S)
  BY <1>1, <1>4, <1>5 DEF FramesFit, S
<1>7. fn = FunctionAt(World, top.path)
  BY DEF fn, Function, FunctionAt, World
<1>8. fn \in DOMAIN layout
  BY <1>6, <1>7 DEF FrameFits, Known
<1> QED BY <1>1, <1>2, <1>4, <1>5, <1>6, <1>7, <1>8

\* Its function is verified, and its stack is as the layout says.
LEMMA FunctionFits ==
  ASSUME NEW layout, Fits(layout), end = "running"
  PROVE  /\ ScopeAgrees(fn) /\ SlotsAgree(fn, layout[fn])
         /\ Len(fn.code) \in Nat /\ DOMAIN fn.code = 1..Len(fn.code)
         /\ top.ip \in 1..Len(fn.code) + 1
         /\ StackFits(World, top.path, S, Slots(layout)) /\ Depth \in Nat
         /\ Depth = Len(Slots(layout))
         /\ \A i \in DOMAIN fn.code : fn.code[i][1] = "LoadFunc" => fn.code[i][2] \in DOMAIN layout
<1>1. fn \in DOMAIN layout /\ IsSequence(S) /\ FrameFits(World, layout, top, S)
      /\ fn = FunctionAt(World, top.path)
  BY TopFits
<1>2. /\ ScopeAgrees(fn) /\ SlotsAgree(fn, layout[fn])
      /\ \A i \in DOMAIN fn.code : fn.code[i][1] = "LoadFunc" => fn.code[i][2] \in DOMAIN layout
  BY <1>1 DEF Fits, Verified
<1>3. IsSequence(fn.code)
  BY <1>2 DEF ScopeAgrees
<1>4. Len(fn.code) \in Nat /\ DOMAIN fn.code = 1..Len(fn.code)
  BY <1>3, SequenceFacts
<1>5. top.ip \in 1..Len(fn.code) + 1 /\ StackFits(World, top.path, S, Slots(layout))
  BY <1>1 DEF FrameFits, Slots
<1>6. Depth \in Nat /\ Depth = Len(Slots(layout))
  BY <1>1, <1>5, SequenceFacts DEF Depth, StackFits
<1> QED BY <1>2, <1>4, <1>5, <1>6

\* The instruction it is at finds its operands, and goes on where the layout
\* says what is left.
LEMMA InstructionFits ==
  ASSUME NEW layout, Fits(layout), end = "running", top.ip <= Len(fn.code)
  PROVE  /\ top.ip \in DOMAIN fn.code /\ top.ip \in Nat
         /\ OperandsFit(fn, top.ip, Slots(layout)) /\ OperandKnown(fn, top.ip)
         /\ OperandCount(ins) <= Depth
         /\ ins[1] \in {"Label", "GarbageCollect"} => Slots(layout) = <<>>
         /\ ins[1] = "Return" => Depth = 1
         /\ \A j \in Targets(fn, top.ip) :
               /\ j \in 1..Len(fn.code) + 1
               /\ layout[fn][j] = SlotsAfter(fn, top.ip, Slots(layout))
<1>1. /\ SlotsAgree(fn, layout[fn]) /\ Len(fn.code) \in Nat /\ DOMAIN fn.code = 1..Len(fn.code)
      /\ top.ip \in 1..Len(fn.code) + 1 /\ Depth = Len(Slots(layout))
  BY FunctionFits
<1>2. top.ip \in DOMAIN fn.code /\ top.ip \in Nat
  BY <1>1
<1>3. /\ OperandsFit(fn, top.ip, Slots(layout)) /\ OperandKnown(fn, top.ip)
      /\ ins[1] \in {"Label", "GarbageCollect"} => Slots(layout) = <<>>
      /\ ins[1] = "Return" => Len(Slots(layout)) = 1
      /\ \A j \in Targets(fn, top.ip) :
               /\ j \in 1..Len(fn.code) + 1
               /\ layout[fn][j] = SlotsAfter(fn, top.ip, Slots(layout))
  BY <1>1, <1>2 DEF SlotsAgree, Slots, ins
<1>4. OperandCount(ins) <= Depth
  BY <1>1, <1>3 DEF OperandsFit, ins
<1> QED BY <1>1, <1>2, <1>3, <1>4

\* Each value on the stack is what the layout says.
LEMMA SlotOfOperand ==
  ASSUME NEW layout, Fits(layout), end = "running", NEW k \in 0..Depth - 1
  PROVE  SlotHolds(World, top.path, Arg(k), Slots(layout)[Len(Slots(layout)) - k])
<1>1. StackFits(World, top.path, S, Slots(layout)) /\ Depth \in Nat /\ Depth = Len(Slots(layout))
  BY FunctionFits
<1>2. Depth - k \in 1..Len(Slots(layout))
  BY <1>1
<1> QED BY <1>1, <1>2 DEF StackFits, Arg

\* The operands of every instruction but AllocClosure are values of the program,
\* never bare functions or references.
LEMMA OperandIsValue ==
  ASSUME NEW layout, Fits(layout), end = "running", top.ip <= Len(fn.code),
         ins[1] # "AllocClosure", OperandCount(ins) \in Nat, NEW k \in 0..OperandCount(ins) - 1
  PROVE  ValueIn(World, Arg(k))
<1>1. OperandsFit(fn, top.ip, Slots(layout)) /\ OperandCount(ins) <= Depth /\ Depth \in Nat
  BY InstructionFits, FunctionFits
<1>2. Slots(layout)[Len(Slots(layout)) - k] = ValueSlot
  BY <1>1 DEF OperandsFit, ins
<1>3. k \in 0..Depth - 1
  BY <1>1
<1>4. SlotHolds(World, top.path, Arg(k), Slots(layout)[Len(Slots(layout)) - k])
  BY <1>3, SlotOfOperand
<1> QED BY <1>2, <1>4 DEF SlotHolds

\* What is below the operands.
LEMMA UnderFits ==
  ASSUME NEW layout, Fits(layout), end = "running", top.ip <= Len(fn.code),
         OperandCount(ins) \in Nat
  PROVE  StackFits(World, top.path, Under(OperandCount(ins)),
             SubSeq(Slots(layout), 1, Len(Slots(layout)) - OperandCount(ins)))
<1>1. /\ StackFits(World, top.path, S, Slots(layout)) /\ OperandCount(ins) <= Len(Slots(layout))
  BY InstructionFits, FunctionFits
<1> QED BY <1>1, StackUnder DEF Under, Depth

\* The instructions that leave a value where their operands were, and those that
\* leave nothing.
Pushing == {"LoadConst", "LoadLocal", "LoadReference", "LoadGlobal", "LoadNative",
            "AllocRecord", "Un", "Bin", "FieldLoad", "IndexLoad", "Call", "AllocClosure"}
Popping == {"StoreLocal", "StoreReference", "StoreGlobal", "If", "Pop", "FieldStore", "IndexStore"}

\* What is on the stack after an instruction that pushes a value.
LEMMA ValuePushed ==
  ASSUME NEW layout, Fits(layout), end = "running", top.ip <= Len(fn.code),
         ins[1] \in Pushing, OperandCount(ins) \in Nat,
         NEW u, Extends(u, World), NEW v, ValueIn(u, v)
  PROVE  StackFits(u, top.path, Append(Under(OperandCount(ins)), v),
             SlotsAfter(fn, top.ip, Slots(layout)))
<1> DEFINE rest == SubSeq(Slots(layout), 1, Len(Slots(layout)) - OperandCount(ins))
<1>1. StackFits(World, top.path, Under(OperandCount(ins)), rest)
  BY UnderFits
<1>2. SlotsAfter(fn, top.ip, Slots(layout)) = Append(rest, ValueSlot)
  BY DEF SlotsAfter, ins, Pushing
<1>3. SlotHolds(u, top.path, v, ValueSlot)
  BY DEF SlotHolds
<1> HIDE DEF rest
<1>4. StackFits(u, top.path, Under(OperandCount(ins)), rest)
  BY <1>1, StackKept
<1> QED BY <1>2, <1>3, <1>4, StackPush

\* What is on the stack after an instruction that pushes nothing.
LEMMA Popped ==
  ASSUME NEW layout, Fits(layout), end = "running", top.ip <= Len(fn.code),
         ins[1] \in Popping, NEW u, Extends(u, World)
  PROVE  /\ OperandCount(ins) \in Nat
         /\ StackFits(u, top.path, Under(OperandCount(ins)),
                      SlotsAfter(fn, top.ip, Slots(layout)))
<1> DEFINE rest == SubSeq(Slots(layout), 1, Len(Slots(layout)) - OperandCount(ins))
<1>1. OperandCount(ins) \in Nat
  BY DEF OperandCount, Popping
<1>2. StackFits(World, top.path, Under(OperandCount(ins)), rest)
  BY <1>1, UnderFits
<1>3. SlotsAfter(fn, top.ip, Slots(layout)) = rest
  BY DEF SlotsAfter, ins, Popping
<1> HIDE DEF rest
<1> QED BY <1>1, <1>2, <1>3, StackKept

-----------------------------------------------------------------------------
(* One step.                                                               *)

\* What an instruction does not assign still fits when objects are added.
LEMMA HeapKept ==
  ASSUME NEW w, NEW u, Extends(u, w)
  PROVE  /\ u.cells = w.cells /\ CellsFit(w) => CellsFit(u)
         /\ \A layout : u.closures = w.closures /\ ClosuresFit(w, layout) => ClosuresFit(u, layout)
         /\ u.recs = w.recs /\ RecsFit(w) => RecsFit(u)
         /\ \A g : GlobalsFit(w, g) => GlobalsFit(u, g)
<1>1. u.cells = w.cells /\ CellsFit(w) => CellsFit(u)
  BY ValueKept DEF CellsFit
<1>2. \A layout : u.closures = w.closures /\ ClosuresFit(w, layout) => ClosuresFit(u, layout)
  BY ClosureKept DEF ClosuresFit
<1>3. u.recs = w.recs /\ RecsFit(w) => RecsFit(u)
  BY ValueKept DEF RecsFit
<1>4. \A g : GlobalsFit(w, g) => GlobalsFit(u, g)
  BY ValueKept DEF GlobalsFit
<1> QED BY <1>1, <1>2, <1>3, <1>4

\* An instruction that leaves the heap alone leaves it as it is.
LEMMA WorldSame ==
  ASSUME code' = code, UNCHANGED heap
  PROVE  World' = World
BY DEF World, heap

\* Nothing added is an extension too.
LEMMA ExtendsItself ==
  ASSUME NEW w
  PROVE  Extends(w, w)
BY DEF Extends

\* What has to be shown of the state after an instruction.
LEMMA FitsAgain ==
  ASSUME NEW layout, Fits(layout), code' = code,
         end' \in {"running", "ok", "uninitialized", "cast", "runtime", "arithmetic"},
         end' = "running" => frames' # <<>>,
         FramesFit(World', layout, frames'), CellsFit(World'), ClosuresFit(World', layout),
         RecsFit(World'), GlobalsFit(World', global_variables')
  PROVE  Fits(layout)'
<1>1. Verified(layout)'
  BY DEF Fits, Verified
<1> QED BY <1>1 DEF Fits

\* An exception keeps the frames and the heap.
LEMMA Raised ==
  ASSUME NEW layout, Fits(layout), NEW kind, Raise(kind),
         kind \in {"uninitialized", "cast", "runtime", "arithmetic"}
  PROVE  Fits(layout)'
<1>1. World' = World /\ frames' = frames /\ code' = code /\ end' = kind
      /\ global_variables' = global_variables
  BY WorldSame DEF Raise, heap
<1>2. /\ FramesFit(World, layout, frames) /\ CellsFit(World) /\ ClosuresFit(World, layout)
      /\ RecsFit(World) /\ GlobalsFit(World, global_variables)
  BY DEF Fits
<1>3. end' # "running"
  BY <1>1
<1> QED BY <1>1, <1>2, <1>3, FitsAgain

\* The instruction goes on in its function, at j.
LEMMA Continued ==
  ASSUME NEW layout, Fits(layout), end = "running", top.ip <= Len(fn.code), code' = code,
         Extends(World', World), NEW s, NEW j \in Targets(fn, top.ip), NEW f,
         IsFrame(f), f.path = top.path, f.ip = j, f.refs = top.refs, f.stack = s,
         DOMAIN f.locals = DOMAIN top.locals,
         \A x \in DOMAIN top.locals : ValueIn(World', f.locals[x]),
         frames' = [frames EXCEPT ![Len(frames)] = f],
         StackFits(World', top.path, s, SlotsAfter(fn, top.ip, Slots(layout)))
  PROVE  FramesFit(World', layout, frames') /\ frames' # <<>>
<1>1. /\ frames # <<>> /\ Len(frames) \in DOMAIN frames
      /\ fn = FunctionAt(World, top.path) /\ FrameFits(World, layout, top, S)
  BY TopFits
<1>2. FunctionAt(World', f.path) = fn
  BY <1>1 DEF FunctionAt, World
<1>3. j \in 1..Len(fn.code) + 1 /\ layout[fn][j] = SlotsAfter(fn, top.ip, Slots(layout))
  BY InstructionFits
<1>4. AllSeen(World', f.refs, f.path, RefNames(fn))
  BY <1>1, AllSeenKept DEF FrameFits
<1>5. DOMAIN f.locals = fn.local_vars /\ \A x \in fn.local_vars : ValueIn(World', f.locals[x])
  BY <1>1 DEF FrameFits
<1>6. Known(World', layout, f.path)
  BY <1>1, <1>2 DEF FrameFits, Known
<1>7. StackFits(World', f.path, f.stack, layout[fn][f.ip])
  BY <1>3
<1>8. FrameFits(World', layout, f, f.stack) /\ IsSequence(f.stack)
  BY <1>2, <1>3, <1>4, <1>5, <1>6, <1>7 DEF FrameFits, StackFits
<1>9. FramesFit(World, layout, frames)
  BY DEF Fits
<1>10. FramesFit(World', layout, [frames EXCEPT ![Len(frames)] = f])
  BY <1>1, <1>8, <1>9, FramesReplaced
<1>11. DOMAIN frames' # {}
  BY <1>1
<1> QED BY <1>10, <1>11, SequenceEmpty

\* The instruction changes the stack of its frame and the heap at most.
LEMMA ContinuedAt ==
  ASSUME NEW layout, Fits(layout), end = "running", top.ip <= Len(fn.code), code' = code,
         Extends(World', World), NEW s, NEW j \in Targets(fn, top.ip), ContinueAt(s, j),
         StackFits(World', top.path, s, SlotsAfter(fn, top.ip, Slots(layout)))
  PROVE  FramesFit(World', layout, frames') /\ frames' # <<>>
<1> DEFINE f == [top EXCEPT !.stack = s, !.ip = j]
<1>1. fn = FunctionAt(World, top.path) /\ FrameFits(World, layout, top, S)
  BY TopFits
<1>2. IsFrame(top) /\ DOMAIN top.locals = fn.local_vars
      /\ \A x \in DOMAIN top.locals : ValueIn(World, top.locals[x])
  BY <1>1 DEF FrameFits
<1>3. /\ IsFrame(f)
      /\ f = [path |-> top.path, ip |-> j, locals |-> top.locals, refs |-> top.refs, stack |-> s]
  BY <1>2, FrameMoved
<1>4. frames' = [frames EXCEPT ![Len(frames)] = f]
  BY DEF ContinueAt
<1> HIDE DEF f
<1>5. /\ f.path = top.path /\ f.ip = j /\ f.refs = top.refs /\ f.stack = s /\ f.locals = top.locals
  BY <1>3
<1>6. \A x \in DOMAIN top.locals : ValueIn(World', f.locals[x])
  BY <1>2, <1>5, ValueKept
<1> QED BY <1>3, <1>4, <1>5, <1>6, Continued

\* It changes the stack of its frame only, or prints.
LEMMA StackStep ==
  ASSUME NEW layout, Fits(layout), end = "running", top.ip <= Len(fn.code), Going,
         World' = World, global_variables' = global_variables,
         NEW s, NEW j \in Targets(fn, top.ip), ContinueAt(s, j),
         StackFits(World, top.path, s, SlotsAfter(fn, top.ip, Slots(layout)))
  PROVE  Fits(layout)'
<1>1. code' = code /\ end' = "running"
  BY DEF Going
<1>2. Extends(World', World) /\ StackFits(World', top.path, s, SlotsAfter(fn, top.ip, Slots(layout)))
  BY ExtendsItself
<1>3. FramesFit(World', layout, frames') /\ frames' # <<>>
  BY <1>1, <1>2, ContinuedAt
<1>4. /\ CellsFit(World') /\ ClosuresFit(World', layout)
      /\ RecsFit(World') /\ GlobalsFit(World', global_variables')
  BY DEF Fits
<1> QED BY <1>1, <1>3, <1>4, FitsAgain

\* Every instruction but a jump and a return may go on at the next one.
LEMMA NextTarget ==
  ASSUME ins[1] \notin {"Goto", "Return", "ThrowUninitialized"}
  PROVE  top.ip + 1 \in Targets(fn, top.ip)
BY DEF Targets, ins

\* Below no operands is the whole stack.
LEMMA UnderNothing ==
  ASSUME NEW layout, Fits(layout), end = "running"
  PROVE  Under(0) = S
<1>1. IsSequence(S) /\ Depth \in Nat
  BY TopFits, FunctionFits
<1>2. Depth = Len(S) /\ Depth - 0 = Depth
  BY <1>1 DEF Depth
<1>3. /\ IsSequence(SubSeq(S, 1, Depth)) /\ Len(SubSeq(S, 1, Depth)) = Depth
      /\ \A k \in 1..Depth : SubSeq(S, 1, Depth)[k] = S[k]
  BY <1>1, <1>2, SequencePrefix
<1>4. SubSeq(S, 1, Depth) = S
  BY <1>1, <1>2, <1>3, SequenceEqual
<1> QED BY <1>2, <1>4 DEF Under

\* The instruction takes its operands off the stack and pushes a value.
LEMMA PushStep ==
  ASSUME NEW layout, Fits(layout), end = "running", top.ip <= Len(fn.code), Going,
         World' = World, global_variables' = global_variables,
         ins[1] \in Pushing, OperandCount(ins) \in Nat, NEW v, ValueIn(World, v),
         Continue(Append(Under(OperandCount(ins)), v))
  PROVE  Fits(layout)'
<1>1. StackFits(World, top.path, Append(Under(OperandCount(ins)), v),
                SlotsAfter(fn, top.ip, Slots(layout)))
  BY ValuePushed, ExtendsItself
<1>2. top.ip + 1 \in Targets(fn, top.ip)
  BY NextTarget DEF Pushing
<1>3. ContinueAt(Append(Under(OperandCount(ins)), v), top.ip + 1)
  BY DEF Continue
<1> QED BY <1>1, <1>2, <1>3, StackStep

\* A local variable of the instruction is one of the activation, and a reference
\* of the instruction is a cell of the heap (both are indexed without a check).
LEMMA VariableValue ==
  ASSUME NEW layout, Fits(layout), end = "running", top.ip <= Len(fn.code)
  PROVE  /\ ins[1] \in {"LoadLocal", "StoreLocal"} =>
               ins[2] \in fn.local_vars /\ ins[2] \in DOMAIN top.locals
               /\ ValueIn(World, top.locals[ins[2]])
         /\ ins[1] \in {"LoadReference", "StoreReference", "PushReference"} =>
               /\ Sees(World, top.refs[ins[2]], top.path, RefNames(fn)[ins[2]])
               /\ top.refs[ins[2]] \in 1..Len(cells) /\ DOMAIN cells = 1..Len(cells)
               /\ IsCell(cells[top.refs[ins[2]]])
               /\ ValueIn(World, cells[top.refs[ins[2]]].value)
<1>1. OperandKnown(fn, top.ip) /\ FrameFits(World, layout, top, S) /\ fn = FunctionAt(World, top.path)
  BY InstructionFits, TopFits
<1>2. DOMAIN top.locals = fn.local_vars /\ \A x \in fn.local_vars : ValueIn(World, top.locals[x])
  BY <1>1 DEF FrameFits
<1>3. ins[1] \in {"LoadLocal", "StoreLocal"} => ins[2] \in fn.local_vars
  BY <1>1 DEF OperandKnown, ins
<1>4. ASSUME ins[1] \in {"LoadReference", "StoreReference", "PushReference"}
      PROVE  /\ Sees(World, top.refs[ins[2]], top.path, RefNames(fn)[ins[2]])
             /\ top.refs[ins[2]] \in 1..Len(cells) /\ DOMAIN cells = 1..Len(cells)
             /\ IsCell(cells[top.refs[ins[2]]])
             /\ ValueIn(World, cells[top.refs[ins[2]]].value)
  <2>1. ins[2] \in DOMAIN RefNames(fn)
    BY <1>1, <1>4 DEF OperandKnown, ins
  <2>2. AllSeen(World, top.refs, top.path, RefNames(fn))
    BY <1>1 DEF FrameFits
  <2>3. ins[2] \in 1..Len(RefNames(fn))
    BY <2>1, <2>2, SequenceFacts DEF AllSeen
  <2>4. Sees(World, top.refs[ins[2]], top.path, RefNames(fn)[ins[2]])
    BY <2>2, <2>3 DEF AllSeen
  <2>5. CellsFit(World)
    BY DEF Fits
  <2>6. IsSequence(cells) /\ \A r \in 1..Len(cells) : IsCell(cells[r]) /\ ValueIn(World, cells[r].value)
    BY <2>5 DEF CellsFit, World
  <2>7. DOMAIN cells = 1..Len(cells)
    BY <2>6, SequenceFacts
  <2>8. top.refs[ins[2]] \in 1..Len(cells)
    BY <2>4, <2>7 DEF Sees, World
  <2> QED BY <2>4, <2>6, <2>7, <2>8
<1> QED BY <1>2, <1>3, <1>4

\* LoadConst, LoadLocal and LoadReference push a value.
LEMMA LoadFits ==
  ASSUME NEW layout, Fits(layout), Load
  PROVE  Fits(layout)'
<1> DEFINE v == CASE ins[1] = "LoadConst" -> ins[2]
                  [] ins[1] = "LoadLocal" -> top.locals[ins[2]]
                  [] ins[1] = "LoadReference" -> cells[top.refs[ins[2]]].value
<1>1. /\ end = "running" /\ top.ip <= Len(fn.code)
      /\ ins[1] \in {"LoadConst", "LoadLocal", "LoadReference"}
  BY DEF Load, Executing
<1>2. Going /\ World' = World /\ global_variables' = global_variables
  BY WorldSame DEF Load, Going, heap
<1>3. ValueIn(World, v)
  <2>1. CASE ins[1] = "LoadConst"
    <3>1. ins[2][1] \in {"none", "int", "bool", "str"}
      BY <1>1, <2>1, InstructionFits DEF OperandKnown, ins
    <3> QED BY <2>1, <3>1 DEF ValueIn
  <2>2. CASE ins[1] = "LoadLocal"
    BY <1>1, <2>2, VariableValue
  <2>3. CASE ins[1] = "LoadReference"
    BY <1>1, <2>3, VariableValue
  <2> QED BY <1>1, <2>1, <2>2, <2>3
<1>4. OperandCount(ins) = 0 /\ Under(0) = S
  BY <1>1, UnderNothing DEF OperandCount
<1>5. Continue(Append(S, v))
  BY DEF Load
<1> HIDE DEF v
<1>6. Continue(Append(Under(OperandCount(ins)), v)) /\ OperandCount(ins) \in Nat /\ ins[1] \in Pushing
  BY <1>1, <1>4, <1>5 DEF Pushing
<1> QED BY <1>1, <1>2, <1>3, <1>6, PushStep

\* LoadFunc pushes the bare function its slot names; a native one is a value.
LEMMA LoadFuncFits ==
  ASSUME NEW layout, Fits(layout), LoadFunc
  PROVE  Fits(layout)'
<1>1. end = "running" /\ top.ip <= Len(fn.code) /\ ins[1] \in {"LoadFunc", "LoadNative"}
  BY DEF LoadFunc, Executing
<1>2. Going /\ World' = World /\ global_variables' = global_variables
  BY WorldSame DEF LoadFunc, Going, heap
<1>3. OperandCount(ins) = 0 /\ Under(0) = S
  BY <1>1, UnderNothing DEF OperandCount
<1>4. CASE ins[1] = "LoadNative"
  <2>1. ValueIn(World, NativePrint) /\ Continue(Append(S, NativePrint))
    BY <1>4 DEF LoadFunc, ValueIn, NativePrint
  <2>2. Continue(Append(Under(OperandCount(ins)), NativePrint)) /\ OperandCount(ins) \in Nat
    BY <1>3, <2>1
  <2> QED BY <1>1, <1>2, <1>4, <2>1, <2>2, PushStep DEF Pushing
<1>5. CASE ins[1] = "LoadFunc"
  <2> DEFINE v == <<"bare", Append(top.path, top.ip)>>
             t == Append(SubSeq(Slots(layout), 1, Len(Slots(layout)) - 0), BareSlot(top.ip))
  <2>1. SlotHolds(World, top.path, v, BareSlot(top.ip))
    BY DEF SlotHolds, BareSlot, ValueSlot
  <2>2. StackFits(World, top.path, S, SubSeq(Slots(layout), 1, Len(Slots(layout)) - 0))
    BY <1>1, <1>3, UnderFits
  <2>3. SlotsAfter(fn, top.ip, Slots(layout)) = t
    BY <1>3, <1>5 DEF SlotsAfter, ins
  <2>4. ContinueAt(Append(S, v), top.ip + 1)
    BY <1>5 DEF LoadFunc, Continue
  <2>5. top.ip + 1 \in Targets(fn, top.ip)
    BY <1>5, NextTarget
  <2>6. StackFits(World, top.path, Append(S, v), t)
    <3> HIDE DEF v
    <3> QED BY <2>1, <2>2, StackPush
  <2> HIDE DEF v, t
  <2> QED BY <1>1, <1>2, <2>3, <2>4, <2>5, <2>6, StackStep
<1> QED BY <1>1, <1>4, <1>5

\* LoadGlobal pushes a value, or throws where the variable has none.
LEMMA LoadGlobalFits ==
  ASSUME NEW layout, Fits(layout), LoadGlobal
  PROVE  Fits(layout)'
<1>1. end = "running" /\ top.ip <= Len(fn.code) /\ ins[1] = "LoadGlobal"
  BY DEF LoadGlobal, Executing
<1>2. CASE ins[2] \notin DOMAIN global_variables
  BY <1>2, Raised DEF LoadGlobal
<1>3. CASE ins[2] \in DOMAIN global_variables
  <2>1. Going /\ World' = World /\ global_variables' = global_variables
    BY <1>3, WorldSame DEF LoadGlobal, Going, heap
  <2>2. ValueIn(World, global_variables[ins[2]])
    BY <1>3 DEF Fits, GlobalsFit
  <2>3. OperandCount(ins) = 0 /\ Under(0) = S
    BY <1>1, UnderNothing DEF OperandCount
  <2>4. Continue(Append(Under(OperandCount(ins)), global_variables[ins[2]]))
    BY <1>3, <2>3 DEF LoadGlobal
  <2>5. OperandCount(ins) \in Nat /\ ins[1] \in Pushing
    BY <1>1, <2>3 DEF Pushing
  <2> QED BY <1>1, <2>1, <2>2, <2>4, <2>5, PushStep
<1> QED BY <1>2, <1>3

\* The assignment of a local variable keeps the rest of the activation.
LEMMA LocalSet ==
  ASSUME NEW f, IsFrame(f), NEW x, NEW v
  PROVE  /\ IsFrame([f EXCEPT !.locals[x] = v])
         /\ [f EXCEPT !.locals[x] = v] =
               [path |-> f.path, ip |-> f.ip, locals |-> [f.locals EXCEPT ![x] = v],
                refs |-> f.refs, stack |-> f.stack]
<1>1. PICK p, n, l, r, q : f = [path |-> p, ip |-> n, locals |-> l, refs |-> r, stack |-> q]
  BY DEF IsFrame
<1>2. /\ f.path = p /\ f.ip = n /\ f.locals = l /\ f.refs = r /\ f.stack = q
  BY <1>1
<1>3. [f EXCEPT !.locals[x] = v]
      = [path |-> p, ip |-> n, locals |-> [l EXCEPT ![x] = v], refs |-> r, stack |-> q]
  BY <1>1
<1>4. \A l1 : IsFrame([path |-> p, ip |-> n, locals |-> l1, refs |-> r, stack |-> q])
  BY DEF IsFrame
<1> QED BY <1>2, <1>3, <1>4

\* The assignment of a cell's value keeps its name.
LEMMA CellSet ==
  ASSUME NEW c, IsCell(c), NEW v
  PROVE  /\ IsCell([c EXCEPT !.value = v]) /\ [c EXCEPT !.value = v].value = v
         /\ [c EXCEPT !.value = v].name = c.name /\ [c EXCEPT !.value = v].path = c.path
<1>1. PICK x, p, y : c = [name |-> x, path |-> p, value |-> y]
  BY DEF IsCell
<1>2. [c EXCEPT !.value = v] = [name |-> x, path |-> p, value |-> v]
  BY <1>1
<1>3. c.name = x /\ c.path = p
  BY <1>1
<1>4. IsCell([name |-> x, path |-> p, value |-> v])
  BY DEF IsCell
<1> QED BY <1>2, <1>3, <1>4

\* A value is stored in the cell r.
LEMMA CellStored ==
  ASSUME CellsFit(World), NEW r \in 1..Len(cells), NEW v, ValueIn(World, v),
         cells' = [cells EXCEPT ![r].value = v], UNCHANGED <<code, closures, recs>>
  PROVE  Extends(World', World) /\ CellsFit(World')
<1> DEFINE c == [cells[r] EXCEPT !.value = v]
<1>1. IsSequence(cells) /\ \A k \in 1..Len(cells) : IsCell(cells[k]) /\ ValueIn(World, cells[k].value)
  BY DEF CellsFit, World
<1>2. DOMAIN cells = 1..Len(cells)
  BY <1>1, SequenceFacts
<1>3. IsCell(c) /\ c.value = v /\ c.name = cells[r].name /\ c.path = cells[r].path
  BY <1>1, CellSet
<1>4. cells' = [cells EXCEPT ![r] = c]
  OBVIOUS
<1> HIDE DEF c
<1>5. /\ IsSequence(cells') /\ Len(cells') = Len(cells)
      /\ \A k \in 1..Len(cells) : cells'[k] = IF k = r THEN c ELSE cells[k]
  <2>1. Replaces([cells EXCEPT ![r] = c], cells, r, c)
    BY <1>1, <1>2, SequenceExcept
  <2> QED BY <1>4, <2>1 DEF Replaces
<1>6. DOMAIN cells' = 1..Len(cells)
  BY <1>5, SequenceFacts
<1>7. Extends(World', World)
  BY <1>2, <1>3, <1>5, <1>6 DEF Extends, World
<1>8. ASSUME NEW k \in 1..Len(cells')
      PROVE  IsCell(cells'[k]) /\ ValueIn(World', cells'[k].value)
  <2>1. k \in 1..Len(cells)
    BY <1>5
  <2>2. CASE k = r
    <3>1. ValueIn(World', v)
      BY <1>7, ValueKept
    <3> QED BY <1>3, <1>5, <2>1, <2>2, <3>1
  <2>3. CASE k # r
    <3>1. ValueIn(World', cells[k].value)
      BY <1>1, <1>7, <2>1, ValueKept
    <3> QED BY <1>1, <1>5, <2>1, <2>3, <3>1
  <2> QED BY <2>2, <2>3
<1>9. CellsFit(World')
  BY <1>5, <1>8 DEF CellsFit, World
<1> QED BY <1>7, <1>9

\* The three stores pop a value into the variable.
LEMMA StoreFits ==
  ASSUME NEW layout, Fits(layout), Store
  PROVE  Fits(layout)'
<1> DEFINE f == [top EXCEPT !.stack = Under(1), !.ip = top.ip + 1]
           g == [f EXCEPT !.locals[ins[2]] = Arg(0)]
           s == SlotsAfter(fn, top.ip, Slots(layout))
<1>1. /\ end = "running" /\ top.ip <= Len(fn.code)
      /\ ins[1] \in {"StoreLocal", "StoreReference", "StoreGlobal"}
  BY DEF Store, Executing
<1>2. code' = code /\ end' = "running" /\ closures' = closures /\ recs' = recs /\ out' = out
  BY <1>1 DEF Store, Going
<1>3. OperandCount(ins) = 1 /\ ins[1] \in Popping /\ ins[1] # "AllocClosure"
  BY <1>1 DEF OperandCount, Popping
<1>4. ValueIn(World, Arg(0))
  BY <1>1, <1>3, OperandIsValue
<1>5. top.ip + 1 \in Targets(fn, top.ip)
  BY <1>1, NextTarget
<1>6. /\ CellsFit(World) /\ ClosuresFit(World, layout)
      /\ RecsFit(World) /\ GlobalsFit(World, global_variables)
  BY DEF Fits
<1>7. IsFrame(top)
  BY <1>1, TopFits DEF FrameFits
<1>8. /\ IsFrame(f)
      /\ f = [path |-> top.path, ip |-> top.ip + 1, locals |-> top.locals,
              refs |-> top.refs, stack |-> Under(1)]
  <2>1. \A s1, i1 : /\ IsFrame([top EXCEPT !.stack = s1, !.ip = i1])
                    /\ [top EXCEPT !.stack = s1, !.ip = i1] =
                          [path |-> top.path, ip |-> i1, locals |-> top.locals,
                           refs |-> top.refs, stack |-> s1]
    BY <1>7, FrameMoved, Zenon
  <2> QED BY <2>1, Zenon
<1>9. CASE ins[1] = "StoreLocal"
  <2>1. World' = World /\ global_variables' = global_variables
    BY <1>2, <1>9 DEF Store, World
  <2>2. frames' = [frames EXCEPT ![Len(frames)] = g]
    BY <1>9 DEF Store
  <2> DEFINE l == [top.locals EXCEPT ![ins[2]] = Arg(0)]
  <2>3. f.path = top.path /\ f.ip = top.ip + 1 /\ f.locals = top.locals /\ f.refs = top.refs
        /\ f.stack = Under(1)
    <3> HIDE DEF f
    <3> QED BY <1>8
  <2>4. IsFrame(g) /\ g = [path |-> top.path, ip |-> top.ip + 1, locals |-> l,
                           refs |-> top.refs, stack |-> Under(1)]
    <3> HIDE DEF f
    <3> QED BY <1>8, <2>3, LocalSet
  <2> HIDE DEF g, f, l
  <2>5. g.path = top.path /\ g.ip = top.ip + 1 /\ g.locals = l /\ g.refs = top.refs
        /\ g.stack = Under(1)
    BY <2>4
  <2>6. /\ DOMAIN top.locals = fn.local_vars
        /\ \A x \in DOMAIN top.locals : ValueIn(World, top.locals[x])
    BY <1>1, TopFits DEF FrameFits
  <2>7. DOMAIN l = DOMAIN top.locals /\ \A x \in DOMAIN top.locals : ValueIn(World, l[x])
    BY <1>4, <2>6 DEF l
  <2>8. Extends(World', World) /\ \A x \in DOMAIN top.locals : ValueIn(World', g.locals[x])
    BY <2>1, <2>5, <2>7, ExtendsItself
  <2>9. StackFits(World', top.path, Under(1), s)
    BY <1>1, <1>3, <2>8, Popped
  <2> HIDE DEF s
  <2>10. FramesFit(World', layout, frames') /\ frames' # <<>>
    BY <1>1, <1>2, <1>5, <2>2, <2>4, <2>5, <2>7, <2>8, <2>9, Continued DEF s
  <2> QED BY <1>2, <1>6, <2>1, <2>10, FitsAgain
<1>10. CASE ins[1] # "StoreLocal"
  <2>1. ContinueAt(Under(1), top.ip + 1)
    BY <1>10 DEF Store, ContinueAt
  <2> HIDE DEF s, f, g
  <2>2. ASSUME Extends(World', World)
        PROVE  FramesFit(World', layout, frames') /\ frames' # <<>>
    <3>1. StackFits(World', top.path, Under(1), s)
      BY <1>1, <1>3, <2>2, Popped DEF s
    <3> QED BY <1>1, <1>2, <1>5, <2>1, <2>2, <3>1, ContinuedAt DEF s
  <2>3. ASSUME Extends(World', World), CellsFit(World'), GlobalsFit(World', global_variables')
        PROVE  Fits(layout)'
    <3>1. World'.closures = World.closures /\ World'.recs = World.recs
      BY <1>2 DEF World
    <3>2. ClosuresFit(World', layout) /\ RecsFit(World')
      BY <1>6, <2>3, <3>1, HeapKept
    <3> QED BY <1>2, <2>2, <2>3, <3>2, FitsAgain
  <2>4. CASE ins[1] = "StoreReference"
    <3>1. top.refs[ins[2]] \in 1..Len(cells)
      BY <1>1, <2>4, VariableValue
    <3>2. cells' = [cells EXCEPT ![top.refs[ins[2]]].value = Arg(0)]
          /\ global_variables' = global_variables
      BY <2>4 DEF Store
    <3>3. Extends(World', World) /\ CellsFit(World')
      BY <1>2, <1>4, <1>6, <3>1, <3>2, CellStored
    <3>4. GlobalsFit(World', global_variables')
      BY <1>6, <3>2, <3>3, HeapKept
    <3> QED BY <2>3, <3>3, <3>4
  <2>5. CASE ins[1] = "StoreGlobal"
    <3>1. World' = World /\ global_variables' = Entered(global_variables, ins[2], Arg(0))
      BY <1>2, <2>5 DEF Store, World
    <3>2. GlobalsFit(World, global_variables')
      BY <1>4, <1>6, <3>1 DEF GlobalsFit, Entered
    <3> QED BY <1>6, <2>3, <3>1, <3>2, ExtendsItself
  <2> QED BY <1>1, <1>10, <2>4, <2>5
<1> QED BY <1>9, <1>10

\* PushReference pushes the variable its slot names.
LEMMA PushReferenceFits ==
  ASSUME NEW layout, Fits(layout), PushReference
  PROVE  Fits(layout)'
<1> DEFINE v == <<"reference", top.refs[ins[2]]>>
           x == RefNames(fn)[ins[2]]
           t == Append(SubSeq(Slots(layout), 1, Len(Slots(layout)) - 0), ReferenceSlot(x))
<1>1. end = "running" /\ top.ip <= Len(fn.code) /\ ins[1] = "PushReference"
  BY DEF PushReference, Executing
<1>2. Going /\ World' = World /\ global_variables' = global_variables
  BY WorldSame DEF PushReference, Going, heap
<1>3. OperandCount(ins) = 0 /\ Under(0) = S
  BY <1>1, UnderNothing DEF OperandCount
<1>4. Sees(World, top.refs[ins[2]], top.path, x)
  BY <1>1, VariableValue
<1>5. SlotHolds(World, top.path, v, ReferenceSlot(x))
  <2> HIDE DEF x
  <2> QED BY <1>4 DEF SlotHolds, ReferenceSlot, ValueSlot
<1>6. StackFits(World, top.path, S, SubSeq(Slots(layout), 1, Len(Slots(layout)) - 0))
  BY <1>1, <1>3, UnderFits
<1>7. SlotsAfter(fn, top.ip, Slots(layout)) = t
  BY <1>1, <1>3 DEF SlotsAfter, ins
<1>8. ContinueAt(Append(S, v), top.ip + 1)
  BY DEF PushReference, Continue
<1>9. top.ip + 1 \in Targets(fn, top.ip)
  BY <1>1, NextTarget
<1> HIDE DEF v, x
<1>10. StackFits(World, top.path, Append(S, v), t)
  BY <1>5, <1>6, StackPush
<1> HIDE DEF t
<1> QED BY <1>1, <1>2, <1>7, <1>8, <1>9, <1>10, StackStep

\* The call of print pushes None; any other value that is called throws.
LEMMA CallNativeFits ==
  ASSUME NEW layout, Fits(layout), CallNative
  PROVE  Fits(layout)'
<1>1. end = "running" /\ top.ip <= Len(fn.code) /\ ins[1] = "Call"
  BY DEF CallNative, Executing
<1>2. CASE Arg(0) # NativePrint
  BY <1>2, Raised DEF CallNative
<1>3. CASE Arg(0) = NativePrint /\ ins[2] # 1
  BY <1>3, Raised DEF CallNative
<1>4. CASE Arg(0) = NativePrint /\ ins[2] = 1
  <2>1. Going /\ World' = World /\ global_variables' = global_variables
    BY <1>4 DEF CallNative, Going, World
  <2>2. OperandCount(ins) = 2 /\ ins[1] \in Pushing
    BY <1>1, <1>4 DEF OperandCount, Pushing
  <2>3. Continue(Append(Under(2), None))
    BY <1>4 DEF CallNative
  <2>4. ValueIn(World, None)
    BY DEF ValueIn, None
  <2> QED BY <1>1, <2>1, <2>2, <2>3, <2>4, PushStep
<1> QED BY <1>2, <1>3, <1>4

\* An operator of two values pushes a value or throws, whatever their types.
LEMMA BinaryFits ==
  ASSUME NEW layout, Fits(layout), Binary
  PROVE  Fits(layout)'
<1> DEFINE err == BinError(ins[2], Arg(1), Arg(0))
           v == BinResult(ins[2], Arg(1), Arg(0))
<1>1. end = "running" /\ top.ip <= Len(fn.code) /\ ins[1] = "Bin"
  BY DEF Binary, Executing
<1>2. err \in {"", "cast", "arithmetic"}
  BY DEF BinError
<1>3. CASE err # ""
  <2>1. Raise(err)
    BY <1>3 DEF Binary
  <2> HIDE DEF err
  <2> QED BY <1>2, <1>3, <2>1, Raised
<1>4. CASE err = ""
  <2>1. Going /\ World' = World /\ global_variables' = global_variables /\ Continue(Append(Under(2), v))
    BY <1>4, WorldSame DEF Binary, Going, heap
  <2>2. OperandCount(ins) = 2 /\ ins[1] \in Pushing
    BY <1>1 DEF OperandCount, Pushing
  <2>3. ins[2] \in {"+", "==", "&", "|"} \cup IntOps
    BY <1>1, InstructionFits DEF OperandKnown, ins
  <2>4. v[1] \in {"int", "bool", "str"}
    <3>1. ASSUME NEW a, NEW b, ins[2] \in {"+"} \cup IntOps
          PROVE  IntOp(ins[2], a, b)[1] \in {"int", "bool"}
      <4> USE <3>1 DEF IntOps
      <4>1. CASE ins[2] \in {"+", "-", "*", "/"}
        BY <4>1 DEF IntOp, Num
      <4>2. CASE ins[2] \in {"<", "<=", ">", ">="}
        BY <4>2 DEF IntOp, Bool
      <4> QED BY <4>1, <4>2
    <3>2. CASE ins[2] = "+" /\ (IsStr(Arg(1)) \/ IsStr(Arg(0)))
      BY <3>2 DEF BinResult
    <3>3. CASE ins[2] = "=="
      <4>1. v = Bool(Arg(1) = Arg(0))
        BY <3>3 DEF BinResult
      <4> QED BY <4>1 DEF Bool
    <3>4. CASE ins[2] \in {"&", "|"}
      <4>1. v = IF Decides(ins[2], Arg(1)) THEN Arg(1) ELSE Arg(0)
        BY <3>4 DEF BinResult
      <4>2. Decides(ins[2], Arg(1)) \/ (IsBool(Arg(1)) /\ IsBool(Arg(0)))
        BY <1>4, <3>4 DEF BinError
      <4>3. Decides(ins[2], Arg(1)) => IsBool(Arg(1))
        BY DEF Decides
      <4> QED BY <4>1, <4>2, <4>3 DEF IsBool
    <3>5. CASE ins[2] \in {"+"} \cup IntOps /\ ~(ins[2] = "+" /\ (IsStr(Arg(1)) \/ IsStr(Arg(0))))
      <4>1. v = IntOp(ins[2], Arg(1)[2], Arg(0)[2])
        BY <3>5 DEF BinResult, IntOps
      <4> QED BY <3>1, <3>5, <4>1
    <3> QED BY <2>3, <3>2, <3>3, <3>4, <3>5
  <2>5. ValueIn(World, v)
    <3> HIDE DEF v
    <3> QED BY <2>4 DEF ValueIn
  <2> HIDE DEF v
  <2> QED BY <1>1, <2>1, <2>2, <2>5, PushStep
<1> QED BY <1>3, <1>4

\* So does an operator of one value.
LEMMA UnaryFits ==
  ASSUME NEW layout, Fits(layout), Unary
  PROVE  Fits(layout)'
<1> DEFINE v == IF ins[2] = "!" THEN Bool(~Arg(0)[2]) ELSE Num(-Arg(0)[2])
           type == IF ins[2] = "!" THEN "bool" ELSE "int"
<1>1. end = "running" /\ top.ip <= Len(fn.code) /\ ins[1] = "Un"
  BY DEF Unary, Executing
<1>2. CASE Arg(0)[1] # type
  BY <1>2, Raised DEF Unary
<1>3. CASE Arg(0)[1] = type
  <2>1. Going /\ World' = World /\ global_variables' = global_variables /\ Continue(Append(Under(1), v))
    BY <1>3, WorldSame DEF Unary, Going, heap
  <2>2. OperandCount(ins) = 1 /\ ins[1] \in Pushing
    BY <1>1 DEF OperandCount, Pushing
  <2>3. v[1] \in {"int", "bool"}
    BY DEF Bool, Num
  <2> HIDE DEF v
  <2>4. ValueIn(World, v)
    BY <2>3 DEF ValueIn
  <2> QED BY <1>1, <2>1, <2>2, <2>4, PushStep
<1> QED BY <1>2, <1>3

\* Goto and If go on at an index the layout agrees for.
LEMMA JumpFits ==
  ASSUME NEW layout, Fits(layout), Jump
  PROVE  Fits(layout)'
<1> DEFINE t == SlotsAfter(fn, top.ip, Slots(layout))
<1>1. end = "running" /\ top.ip <= Len(fn.code) /\ ins[1] \in {"Goto", "If"}
  BY DEF Jump, Executing
<1>2. CASE ins[1] = "Goto"
  <2>1. ContinueAt(S, top.ip + ins[2]) /\ Going /\ World' = World /\ global_variables' = global_variables
    BY <1>2, WorldSame DEF Jump, Going, heap
  <2>2. top.ip + ins[2] \in Targets(fn, top.ip)
    BY <1>2 DEF Targets, ins
  <2>3. OperandCount(ins) = 0 /\ Under(0) = S
    BY <1>1, <1>2, UnderNothing DEF OperandCount
  <2>4. StackFits(World, top.path, S, SubSeq(Slots(layout), 1, Len(Slots(layout)) - 0))
    BY <1>1, <2>3, UnderFits
  <2>5. t = SubSeq(Slots(layout), 1, Len(Slots(layout)) - 0)
    BY <1>2, <2>3 DEF SlotsAfter, ins
  <2>6. StackFits(World, top.path, S, t)
    BY <2>4, <2>5
  <2> HIDE DEF t
  <2> QED BY <1>1, <2>1, <2>2, <2>6, StackStep DEF t
<1>3. CASE ins[1] = "If" /\ ~IsBool(Arg(0))
  BY <1>3, Raised DEF Jump
<1>4. CASE ins[1] = "If" /\ IsBool(Arg(0))
  <2>1. PICK j \in {top.ip + 1, top.ip + ins[2]} : ContinueAt(Under(1), j)
    BY <1>4 DEF Jump
  <2>2. Going /\ World' = World /\ global_variables' = global_variables
    BY <1>4, WorldSame DEF Jump, Going, heap
  <2>3. j \in Targets(fn, top.ip)
    BY <1>4 DEF Targets, ins
  <2>4. OperandCount(ins) = 1 /\ ins[1] \in Popping
    BY <1>4 DEF OperandCount, Popping
  <2>5. StackFits(World, top.path, Under(1), t)
    BY <1>1, <2>4, Popped, ExtendsItself
  <2> HIDE DEF t
  <2> QED BY <1>1, <2>1, <2>2, <2>3, <2>5, StackStep DEF t
<1> QED BY <1>1, <1>2, <1>3, <1>4

\* A field of a record is a value, None when it was never set.
LEMMA RecordLoadFits ==
  ASSUME NEW layout, Fits(layout), RecordLoad
  PROVE  Fits(layout)'
<1> DEFINE n   == IF ins[1] = "FieldLoad" THEN 0 ELSE 1
           key == IF n = 0 THEN Show(Lit(ins[2])) ELSE Show(Arg(0))
           r   == Arg(n)
           v   == IF key \in DOMAIN recs[r[2]] THEN recs[r[2]][key] ELSE None
<1>1. end = "running" /\ top.ip <= Len(fn.code) /\ ins[1] \in {"FieldLoad", "IndexLoad"}
  BY DEF RecordLoad, Executing
<1>2. CASE r[1] # "record"
  BY <1>2, Raised DEF RecordLoad
<1>3. CASE r[1] = "record"
  <2>1. Going /\ World' = World /\ global_variables' = global_variables
        /\ Continue(Append(Under(n + 1), v))
    BY <1>3, WorldSame DEF RecordLoad, Going, heap
  <2>2. /\ OperandCount(ins) = n + 1 /\ ins[1] \in Pushing /\ n \in Nat
        /\ ins[1] # "AllocClosure" /\ n \in 0..OperandCount(ins) - 1
    BY <1>1 DEF OperandCount, Pushing
  <2> HIDE DEF key, n
  <2>3. ValueIn(World, r)
    BY <1>1, <2>2, OperandIsValue
  <2>4. r[2] \in DOMAIN recs
    BY <1>3, <2>3 DEF ValueIn, World
  <2>5. IsSequence(recs) /\ \A i \in 1..Len(recs) : \A k \in DOMAIN recs[i] : ValueIn(World, recs[i][k])
    BY DEF Fits, RecsFit, World
  <2>6. r[2] \in 1..Len(recs)
    BY <2>4, <2>5, SequenceFacts
  <2>7. ValueIn(World, None)
    BY DEF ValueIn, None
  <2>8. ValueIn(World, v)
    BY <2>5, <2>6, <2>7
  <2> HIDE DEF v
  <2> QED BY <1>1, <2>1, <2>2, <2>8, PushStep
<1> QED BY <1>2, <1>3

\* The check of a variable that may have no value throws.
LEMMA ThrowFits ==
  ASSUME NEW layout, Fits(layout), ThrowUninitialized
  PROVE  Fits(layout)'
BY Raised DEF ThrowUninitialized

\* An instruction that has no operands and leaves the stack as it is.
LEMMA StackLeft ==
  ASSUME NEW layout, Fits(layout), end = "running", top.ip <= Len(fn.code),
         ins[1] \in {"Label", "GarbageCollect"}
  PROVE  StackFits(World, top.path, S, SlotsAfter(fn, top.ip, Slots(layout)))
<1>1. OperandCount(ins) = 0 /\ Under(0) = S
  BY UnderNothing DEF OperandCount
<1>2. StackFits(World, top.path, S, SubSeq(Slots(layout), 1, Len(Slots(layout)) - 0))
  BY <1>1, UnderFits
<1>3. SlotsAfter(fn, top.ip, Slots(layout)) = SubSeq(Slots(layout), 1, Len(Slots(layout)) - 0)
  BY <1>1 DEF SlotsAfter, ins
<1> QED BY <1>2, <1>3

\* Two values on top of the stack may change places.
LEMMA Swapped ==
  ASSUME NEW w, NEW path, NEW s, NEW t, StackFits(w, path, s, t), Len(t) >= 2,
         t[Len(t)] = ValueSlot, t[Len(t) - 1] = ValueSlot
  PROVE  StackFits(w, path, SubSeq(s, 1, Len(s) - 2) \o <<s[Len(s)], s[Len(s) - 1]>>, t)
<1> DEFINE m == Len(t) - 2
           a == SubSeq(s, 1, m)
           b == <<s[m + 2], s[m + 1]>>
           e == a \o b
<1>1. /\ IsSequence(s) /\ IsSequence(t) /\ Len(s) = Len(t) /\ m \in Nat /\ m + 2 = Len(t)
      /\ \A k \in 1..Len(t) : SlotHolds(w, path, s[k], t[k])
      /\ m <= Len(s)
  BY SequenceFacts DEF StackFits
<1>2. Len(s) - 2 = m /\ Len(s) = m + 2 /\ Len(s) - 1 = m + 1 /\ Len(t) - 1 = m + 1
  BY <1>1
<1> HIDE DEF m
<1>3. IsSequence(a) /\ Len(a) = m /\ \A k \in 1..m : a[k] = s[k]
  BY <1>1, SequencePrefix
<1>4. IsSequence(b) /\ Len(b) = 2 /\ b[1] = s[m + 2] /\ b[2] = s[m + 1]
  <2>1. \A x, y : <<x, y>> \in Seq({x, y}) /\ Len(<<x, y>>) = 2 /\ <<x, y>>[1] = x /\ <<x, y>>[2] = y
    OBVIOUS
  <2> QED BY <2>1, InSeq
<1> HIDE DEF a, b
<1>5. /\ IsSequence(e) /\ Len(e) = m + 2 /\ (\A k \in 1..m : e[k] = a[k])
      /\ \A k \in 1..2 : e[m + k] = b[k]
  <2>1. Joins(a \o b, a, b)
    BY <1>3, <1>4, SequenceConcat
  <2> QED BY <1>3, <1>4, <2>1 DEF Joins
<1> HIDE DEF e
<1>6. SlotHolds(w, path, e[m + 1], t[m + 1]) /\ SlotHolds(w, path, e[m + 2], t[m + 2])
  <2>1. t[m + 1] = ValueSlot /\ t[m + 2] = ValueSlot
    BY <1>1, <1>2
  <2>2. SlotHolds(w, path, s[m + 1], t[m + 1]) /\ SlotHolds(w, path, s[m + 2], t[m + 2])
    BY <1>1
  <2>3. e[m + 1] = s[m + 2] /\ e[m + 2] = s[m + 1]
    BY <1>4, <1>5
  <2> QED BY <2>1, <2>2, <2>3
<1>7. ASSUME NEW k \in 1..Len(t)
      PROVE  SlotHolds(w, path, e[k], t[k])
  <2>1. k \in 1..m \/ k = m + 1 \/ k = m + 2
    BY <1>1
  <2>2. CASE k \in 1..m
    BY <1>1, <1>3, <1>5, <2>2
  <2> QED BY <1>6, <2>1, <2>2
<1>8. StackFits(w, path, e, t)
  BY <1>1, <1>5, <1>7 DEF StackFits
<1> QED BY <1>2, <1>8 DEF e, a, b

\* Dup, Swap and Pop; labels and collections leave the stack as it is.
LEMMA StackShuffleFits ==
  ASSUME NEW layout, Fits(layout), StackShuffle
  PROVE  Fits(layout)'
<1> DEFINE s == CASE ins[1] = "Dup"  -> Append(S, Arg(0))
                  [] ins[1] = "Swap" -> Under(2) \o <<Arg(0), Arg(1)>>
                  [] ins[1] = "Pop"  -> Under(1)
                  [] OTHER -> S
           t == SlotsAfter(fn, top.ip, Slots(layout))
<1>1. /\ end = "running" /\ top.ip <= Len(fn.code)
      /\ ins[1] \in {"Dup", "Swap", "Pop", "Label", "GarbageCollect"}
  BY DEF StackShuffle, Executing
<1>2. /\ Going /\ World' = World /\ global_variables' = global_variables
      /\ ContinueAt(s, top.ip + 1)
  BY WorldSame DEF StackShuffle, Going, heap, Continue
<1>3. top.ip + 1 \in Targets(fn, top.ip)
  BY <1>1, NextTarget
<1>4. StackFits(World, top.path, S, Slots(layout)) /\ Depth = Len(Slots(layout)) /\ Depth \in Nat
  BY <1>1, FunctionFits
<1>5. CASE ins[1] = "Dup"
  <2>1. OperandCount(ins) = 1
    BY <1>5 DEF OperandCount
  <2>2. ValueIn(World, Arg(0))
    BY <1>1, <1>5, <2>1, OperandIsValue
  <2>3. t = Append(Slots(layout), ValueSlot) /\ s = Append(S, Arg(0))
    BY <1>5 DEF SlotsAfter, ins
  <2>4. SlotHolds(World, top.path, Arg(0), ValueSlot)
    BY <2>2 DEF SlotHolds
  <2>5. StackFits(World, top.path, s, t)
    BY <1>4, <2>3, <2>4, StackPush
  <2> HIDE DEF s, t
  <2> QED BY <1>1, <1>2, <1>3, <2>5, StackStep DEF t
<1>6. CASE ins[1] = "Swap"
  <2>1. OperandCount(ins) = 2
    BY <1>6 DEF OperandCount
  <2>2. OperandsFit(fn, top.ip, Slots(layout))
    BY <1>1, InstructionFits
  <2>3. /\ Len(Slots(layout)) >= 2 /\ Slots(layout)[Len(Slots(layout)) - 0] = ValueSlot
        /\ Slots(layout)[Len(Slots(layout)) - 1] = ValueSlot
    BY <1>4, <1>6, <2>1, <2>2 DEF OperandsFit, ins
  <2>4. Slots(layout)[Len(Slots(layout))] = ValueSlot
    BY <1>4, <2>3
  <2>5. StackFits(World, top.path, SubSeq(S, 1, Len(S) - 2) \o <<S[Len(S)], S[Len(S) - 1]>>, Slots(layout))
    BY <1>4, <2>3, <2>4, Swapped
  <2>6. s = SubSeq(S, 1, Len(S) - 2) \o <<S[Len(S)], S[Len(S) - 1]>>
    BY <1>4, <1>6 DEF Under, Arg, Depth
  <2>7. t = Slots(layout)
    BY <1>6 DEF SlotsAfter, ins
  <2> HIDE DEF s, t
  <2> QED BY <1>1, <1>2, <1>3, <2>5, <2>6, <2>7, StackStep DEF t
<1>7. CASE ins[1] = "Pop"
  <2>1. OperandCount(ins) = 1 /\ ins[1] \in Popping /\ s = Under(1)
    BY <1>7 DEF OperandCount, Popping
  <2>2. StackFits(World, top.path, s, t)
    BY <1>1, <2>1, Popped, ExtendsItself
  <2> HIDE DEF s, t
  <2> QED BY <1>1, <1>2, <1>3, <2>2, StackStep DEF t
<1>8. CASE ins[1] \in {"Label", "GarbageCollect"}
  <2>1. StackFits(World, top.path, s, t)
    BY <1>1, <1>8, StackLeft
  <2> HIDE DEF s, t
  <2> QED BY <1>1, <1>2, <1>3, <2>1, StackStep DEF t
<1> QED BY <1>1, <1>5, <1>6, <1>7, <1>8

\* AllocRecord adds an empty record and pushes it.
LEMMA AllocRecordFits ==
  ASSUME NEW layout, Fits(layout), AllocRecord
  PROVE  Fits(layout)'
<1> DEFINE v == <<"record", Len(recs) + 1>>
<1>1. end = "running" /\ top.ip <= Len(fn.code) /\ ins[1] = "AllocRecord"
  BY DEF AllocRecord, Executing
<1>2. /\ code' = code /\ end' = "running" /\ cells' = cells /\ closures' = closures
      /\ global_variables' = global_variables /\ recs' = Append(recs, <<>>)
      /\ ContinueAt(Append(S, v), top.ip + 1)
  BY <1>1 DEF AllocRecord, Going, Continue
<1>3. /\ CellsFit(World) /\ ClosuresFit(World, layout)
      /\ RecsFit(World) /\ GlobalsFit(World, global_variables)
  BY DEF Fits
<1>4. /\ IsSequence(recs) /\ Len(recs) \in Nat /\ DOMAIN recs = 1..Len(recs)
      /\ \A r \in 1..Len(recs) : \A k \in DOMAIN recs[r] : ValueIn(World, recs[r][k])
  BY <1>3, SequenceFacts DEF RecsFit, World
<1>5. /\ IsSequence(recs') /\ Len(recs') = Len(recs) + 1
      /\ (\A r \in 1..Len(recs) : recs'[r] = recs[r]) /\ recs'[Len(recs) + 1] = <<>>
  BY <1>2, <1>4, SequenceAppend
<1>6. DOMAIN recs' = 1..Len(recs) + 1
  BY <1>5, SequenceFacts
<1>7. Extends(World', World)
  BY <1>2, <1>4, <1>6 DEF Extends, World
<1>8. ValueIn(World', v)
  <2>1. Len(recs) + 1 \in DOMAIN recs'
    BY <1>4, <1>6
  <2>2. World'.recs = recs'
    BY DEF World
  <2> QED BY <2>1, <2>2 DEF ValueIn
<1>9. RecsFit(World')
  <2>1. ASSUME NEW r \in 1..Len(recs'), NEW k \in DOMAIN recs'[r]
        PROVE  ValueIn(World', recs'[r][k])
    <3>1. r # Len(recs) + 1
      BY <1>5, SequenceEmpty
    <3>2. r \in 1..Len(recs) /\ recs'[r] = recs[r]
      BY <1>4, <1>5, <3>1
    <3>3. ValueIn(World, recs[r][k])
      BY <1>4, <3>2
    <3> QED BY <1>7, <3>2, <3>3, ValueKept
  <2> QED BY <1>5, <2>1 DEF RecsFit, World
<1>10. CellsFit(World') /\ ClosuresFit(World', layout) /\ GlobalsFit(World', global_variables')
  <2>1. World'.cells = World.cells /\ World'.closures = World.closures
    BY <1>2 DEF World
  <2> QED BY <1>2, <1>3, <1>7, <2>1, HeapKept
<1>11. top.ip + 1 \in Targets(fn, top.ip)
  BY <1>1, NextTarget
<1>12. OperandCount(ins) = 0 /\ Under(0) = S /\ ins[1] \in Pushing
  BY <1>1, UnderNothing DEF OperandCount, Pushing
<1> HIDE DEF v
<1>13. StackFits(World', top.path, Append(S, v), SlotsAfter(fn, top.ip, Slots(layout)))
  <2>1. StackFits(World', top.path, Append(Under(OperandCount(ins)), v),
                  SlotsAfter(fn, top.ip, Slots(layout)))
    BY <1>1, <1>7, <1>8, <1>12, ValuePushed
  <2> QED BY <1>12, <2>1
<1>14. FramesFit(World', layout, frames') /\ frames' # <<>>
  BY <1>1, <1>2, <1>7, <1>11, <1>13, ContinuedAt
<1> QED BY <1>2, <1>9, <1>10, <1>14, FitsAgain

\* A store into a record that exists.
LEMMA RecordStoreFits ==
  ASSUME NEW layout, Fits(layout), RecordStore
  PROVE  Fits(layout)'
<1> DEFINE n   == IF ins[1] = "FieldStore" THEN 1 ELSE 2
           key == IF n = 1 THEN Show(Lit(ins[2])) ELSE Show(Arg(1))
           r   == Arg(n)
           m   == Entered(recs[r[2]], key, Arg(0))
<1>1. end = "running" /\ top.ip <= Len(fn.code) /\ ins[1] \in {"FieldStore", "IndexStore"}
  BY DEF RecordStore, Executing
<1>2. CASE r[1] # "record"
  BY <1>2, Raised DEF RecordStore
<1>3. CASE r[1] = "record"
  <2>1. /\ code' = code /\ end' = "running" /\ cells' = cells /\ closures' = closures
        /\ global_variables' = global_variables /\ recs' = [recs EXCEPT ![r[2]] = m]
        /\ ContinueAt(Under(n + 1), top.ip + 1)
    BY <1>1, <1>3 DEF RecordStore, Going, Continue
  <2>2. /\ OperandCount(ins) = n + 1 /\ ins[1] \in Popping /\ ins[1] # "AllocClosure"
        /\ n \in 0..OperandCount(ins) - 1 /\ 0 \in 0..OperandCount(ins) - 1 /\ OperandCount(ins) \in Nat
    BY <1>1 DEF OperandCount, Popping
  <2> HIDE DEF key, n
  <2>3. ValueIn(World, r) /\ ValueIn(World, Arg(0))
    BY <1>1, <2>2, OperandIsValue
  <2>4. /\ CellsFit(World) /\ ClosuresFit(World, layout)
        /\ RecsFit(World) /\ GlobalsFit(World, global_variables)
    BY DEF Fits
  <2>5. /\ IsSequence(recs) /\ DOMAIN recs = 1..Len(recs)
        /\ \A i \in 1..Len(recs) : \A k \in DOMAIN recs[i] : ValueIn(World, recs[i][k])
    BY <2>4, SequenceFacts DEF RecsFit, World
  <2>6. r[2] \in DOMAIN recs
    BY <1>3, <2>3 DEF ValueIn, World
  <2>7. \A k \in DOMAIN m : ValueIn(World, m[k])
    BY <2>3, <2>5, <2>6 DEF Entered
  <2> DEFINE i == r[2]
  <2> HIDE DEF m, r, i
  <2>8. /\ IsSequence(recs') /\ Len(recs') = Len(recs)
        /\ \A k \in 1..Len(recs) : recs'[k] = IF k = i THEN m ELSE recs[k]
    <3>1. Replaces([recs EXCEPT ![i] = m], recs, i, m)
      BY <2>5, <2>6, SequenceExcept DEF i
    <3> QED BY <2>1, <3>1 DEF Replaces, i
  <2>9. DOMAIN recs' = DOMAIN recs
    BY <2>5, <2>8, SequenceFacts
  <2>10. Extends(World', World)
    BY <2>1, <2>9 DEF Extends, World
  <2>11. RecsFit(World')
    <3>1. ASSUME NEW j \in 1..Len(recs'), NEW k \in DOMAIN recs'[j]
          PROVE  ValueIn(World', recs'[j][k])
      <4>1. ValueIn(World, recs'[j][k])
        BY <2>5, <2>7, <2>8
      <4> QED BY <2>10, <4>1, ValueKept
    <3> QED BY <2>8, <3>1 DEF RecsFit, World
  <2>12. CellsFit(World') /\ ClosuresFit(World', layout) /\ GlobalsFit(World', global_variables')
    <3>1. World'.cells = World.cells /\ World'.closures = World.closures
      BY <2>1 DEF World
    <3> QED BY <2>1, <2>4, <2>10, <3>1, HeapKept
  <2>13. top.ip + 1 \in Targets(fn, top.ip)
    BY <1>1, NextTarget
  <2>14. StackFits(World', top.path, Under(n + 1), SlotsAfter(fn, top.ip, Slots(layout)))
    <3>1. StackFits(World', top.path, Under(OperandCount(ins)), SlotsAfter(fn, top.ip, Slots(layout)))
      BY <1>1, <2>2, <2>10, Popped
    <3> QED BY <2>2, <3>1
  <2>15. FramesFit(World', layout, frames') /\ frames' # <<>>
    BY <1>1, <2>1, <2>10, <2>13, <2>14, ContinuedAt
  <2> QED BY <2>1, <2>11, <2>12, <2>15, FitsAgain
<1> QED BY <1>2, <1>3

\* The end of a function: its result goes onto the stack of the caller, None
\* where it has no return.
LEMMA LeaveFits ==
  ASSUME NEW layout, Fits(layout), Leave
  PROVE  Fits(layout)'
<1> DEFINE v == IF top.ip <= Len(fn.code) THEN Arg(0) ELSE None
           n == Len(frames)
<1>1. end = "running" /\ (top.ip <= Len(fn.code) => ins[1] = "Return")
  BY DEF Leave
<1>2. code' = code /\ World' = World /\ global_variables' = global_variables
  BY WorldSame DEF Leave, heap
<1>3. /\ FramesFit(World, layout, frames) /\ CellsFit(World) /\ ClosuresFit(World, layout)
      /\ RecsFit(World) /\ GlobalsFit(World, global_variables)
  BY DEF Fits
<1>4. n \in Nat /\ n >= 1
  BY <1>1, TopFits
<1>5. CASE n = 1
  <2>1. frames' = <<>> /\ end' = "ok"
    BY <1>5 DEF Leave
  <2>2. FramesFit(World, layout, <<>>)
    BY SequenceEmpty DEF FramesFit
  <2> QED BY <1>2, <1>3, <2>1, <2>2, FitsAgain
<1>6. CASE n # 1
  <2>1. frames' = [Front(frames) EXCEPT ![n - 1].stack = Append(@, v)] /\ end' = "running"
    BY <1>1, <1>6 DEF Leave
  <2>2. ValueIn(World, v)
    <3>1. CASE top.ip <= Len(fn.code)
      <4>1. OperandCount(ins) = 1 /\ ins[1] # "AllocClosure"
        BY <1>1, <3>1 DEF OperandCount
      <4>2. ValueIn(World, Arg(0))
        BY <1>1, <3>1, <4>1, OperandIsValue
      <4> QED BY <3>1, <4>2
    <3>2. CASE ~(top.ip <= Len(fn.code))
      BY <3>2 DEF ValueIn, None
    <3> QED BY <3>1, <3>2
  <2> HIDE DEF v
  <2>3. n > 1
    <3> HIDE DEF n
    <3> QED BY <1>4, <1>6
  <2>4. FramesFit(World, layout, frames')
    BY <1>3, <2>1, <2>2, <2>3, FramesPopped
  <2>5. frames' # <<>>
    <3>1. IsSequence(frames) /\ n - 1 \in Nat /\ n - 1 <= n /\ n - 1 >= 1
      BY <1>3, <1>4, <2>3 DEF FramesFit
    <3>2. IsSequence(SubSeq(frames, 1, n - 1)) /\ Len(SubSeq(frames, 1, n - 1)) = n - 1
      BY <3>1, SequencePrefix
    <3>3. DOMAIN SubSeq(frames, 1, n - 1) = 1..n - 1
      BY <3>2, SequenceFacts
    <3>4. DOMAIN frames' = DOMAIN SubSeq(frames, 1, n - 1)
      BY <2>1 DEF Front
    <3>5. 1 \in DOMAIN frames'
      BY <3>1, <3>3, <3>4
    <3> QED BY <3>5, SequenceEmpty
  <2> QED BY <1>2, <1>3, <2>1, <2>4, <2>5, FitsAgain
<1> QED BY <1>5, <1>6

\* What the function at path sees is handed down to the function at Append(path, j).
LEMMA SeesDeeper ==
  ASSUME NEW w, NEW r, NEW path, NEW x, NEW j, IsSequence(path), Sees(w, r, path, x),
         x \in Range(FunctionAt(w, Append(path, j)).free_vars)
  PROVE  /\ Sees(w, r, Append(path, j), x)
         /\ Len(w.cells[r].path) < Len(Append(path, j))
<1> DEFINE p == Append(path, j)
           l == Len(path)
           d == Len(w.cells[r].path)
<1>1. /\ IsSequence(p) /\ Len(p) = l + 1 /\ l \in Nat /\ \A k \in 1..l : p[k] = path[k]
  BY SequenceAppend, SequenceFacts
<1>2. /\ r \in DOMAIN w.cells /\ w.cells[r].name = x /\ d \in 0..l
      /\ w.cells[r].path = SubSeq(path, 1, d)
      /\ x \in FunctionAt(w, w.cells[r].path).local_vars
      /\ \A m \in d + 1..l : x \in Range(FunctionAt(w, SubSeq(path, 1, m)).free_vars)
  BY DEF Sees
<1>3. x \in Range(FunctionAt(w, p).free_vars)
  OBVIOUS
<1> HIDE DEF p, l, d
<1>4. ASSUME NEW m \in 0..l
      PROVE  SubSeq(p, 1, m) = SubSeq(path, 1, m)
  <2>1. m \in Nat /\ m <= l /\ m <= Len(p) /\ l = Len(path)
    BY <1>1 DEF l
  <2>2. /\ IsSequence(SubSeq(p, 1, m)) /\ Len(SubSeq(p, 1, m)) = m
        /\ \A k \in 1..m : SubSeq(p, 1, m)[k] = p[k]
    BY <1>1, <2>1, SequencePrefix
  <2>3. /\ IsSequence(SubSeq(path, 1, m)) /\ Len(SubSeq(path, 1, m)) = m
        /\ \A k \in 1..m : SubSeq(path, 1, m)[k] = path[k]
    BY <1>1, <2>1, SequencePrefix
  <2>4. \A k \in 1..m : p[k] = path[k]
    BY <1>1, <2>1
  <2> QED BY <2>2, <2>3, <2>4, SequenceEqual
<1>5. SubSeq(p, 1, l + 1) = p
  <2>1. l + 1 \in Nat /\ l + 1 <= Len(p)
    BY <1>1
  <2>2. /\ IsSequence(SubSeq(p, 1, l + 1)) /\ Len(SubSeq(p, 1, l + 1)) = l + 1
        /\ \A k \in 1..l + 1 : SubSeq(p, 1, l + 1)[k] = p[k]
    BY <1>1, <2>1, SequencePrefix
  <2> QED BY <1>1, <2>2, SequenceEqual
<1>6. d \in 0..l + 1 /\ d < l + 1
  BY <1>1, <1>2
<1>7. ASSUME NEW m \in d + 1..l + 1
      PROVE  x \in Range(FunctionAt(w, SubSeq(p, 1, m)).free_vars)
  <2>1. CASE m = l + 1
    BY <1>3, <1>5, <2>1
  <2>2. CASE m # l + 1
    <3>1. m \in 0..l /\ m \in d + 1..l
      BY <1>1, <1>2, <2>2
    <3> QED BY <1>2, <1>4, <3>1
  <2> QED BY <2>1, <2>2
<1>8. w.cells[r].path = SubSeq(p, 1, d)
  BY <1>2, <1>4
<1>9. Sees(w, r, p, x)
  BY <1>1, <1>2, <1>6, <1>7, <1>8 DEF Sees, d
<1> QED BY <1>1, <1>6, <1>9 DEF p, d

\* The operands of AllocClosure: a function that some LoadFunc names, and a
\* reference to each of its free variables.
LEMMA ClosureOperands ==
  ASSUME NEW layout, Fits(layout), end = "running", top.ip <= Len(fn.code),
         ins[1] = "AllocClosure"
  PROVE  /\ ins[2] \in Nat /\ OperandCount(ins) = ins[2] + 1
         /\ \E j \in DOMAIN fn.code :
               /\ fn.code[j][2] \in DOMAIN layout
               /\ Arg(0)[2] = Append(top.path, j)
               /\ ins[2] = Len(fn.code[j][2].free_vars)
               /\ \A k \in 1..ins[2] : Sees(World, Arg(k)[2], top.path, fn.code[j][2].free_vars[k])
<1>1. ins[2] \in Nat
  BY InstructionFits DEF OperandKnown, ins
<1>2. OperandCount(ins) = ins[2] + 1
  BY DEF OperandCount
<1>3. OperandCount(ins) <= Depth /\ Depth \in Nat /\ Depth = Len(Slots(layout))
  BY InstructionFits, FunctionFits
<1>4. OperandsFit(fn, top.ip, Slots(layout))
  BY InstructionFits
<1>5. PICK j \in DOMAIN fn.code :
         /\ fn.code[j][1] = "LoadFunc" /\ Slots(layout)[Len(Slots(layout))] = BareSlot(j)
         /\ ins[2] = Len(fn.code[j][2].free_vars)
         /\ \A k \in 1..ins[2] :
               Slots(layout)[Len(Slots(layout)) - k] = ReferenceSlot(fn.code[j][2].free_vars[k])
  BY <1>4 DEF OperandsFit, ins
<1>6. fn.code[j][2] \in DOMAIN layout
  BY <1>5, FunctionFits
<1>7. Arg(0)[2] = Append(top.path, j)
  <2>1. 0 \in 0..Depth - 1 /\ Len(Slots(layout)) - 0 = Len(Slots(layout))
    BY <1>1, <1>2, <1>3
  <2>2. SlotHolds(World, top.path, Arg(0), BareSlot(j))
    BY <1>5, <2>1, SlotOfOperand
  <2> QED BY <2>2 DEF SlotHolds, BareSlot, ReferenceSlot, ValueSlot
<1>8. ASSUME NEW k \in 1..ins[2]
      PROVE  Sees(World, Arg(k)[2], top.path, fn.code[j][2].free_vars[k])
  <2>1. k \in 0..Depth - 1
    BY <1>1, <1>2, <1>3
  <2>2. SlotHolds(World, top.path, Arg(k), ReferenceSlot(fn.code[j][2].free_vars[k]))
    BY <1>5, <2>1, SlotOfOperand
  <2> QED BY <2>2 DEF SlotHolds, BareSlot, ReferenceSlot, ValueSlot
<1> QED BY <1>1, <1>2, <1>5, <1>6, <1>7, <1>8

\* AllocClosure makes a closure whose references are the free variables of its
\* function, in their order.
LEMMA AllocClosureFits ==
  ASSUME NEW layout, Fits(layout), AllocClosure
  PROVE  Fits(layout)'
<1> DEFINE n == ins[2]
           refs == [i \in 1..n |-> Arg(i)[2]]
           c == [path |-> Arg(0)[2], refs |-> refs]
           v == <<"function", Len(closures) + 1>>
<1>1. end = "running" /\ top.ip <= Len(fn.code) /\ ins[1] = "AllocClosure"
  BY DEF AllocClosure, Executing
<1>2. /\ code' = code /\ end' = "running" /\ cells' = cells /\ recs' = recs
      /\ global_variables' = global_variables /\ closures' = Append(closures, c)
      /\ ContinueAt(Append(Under(n + 1), v), top.ip + 1)
  BY <1>1 DEF AllocClosure, Going, Continue
<1>3. /\ CellsFit(World) /\ ClosuresFit(World, layout)
      /\ RecsFit(World) /\ GlobalsFit(World, global_variables)
  BY DEF Fits
<1>4. /\ IsSequence(closures) /\ Len(closures) \in Nat /\ DOMAIN closures = 1..Len(closures)
      /\ \A i \in 1..Len(closures) : ClosureFits(World, layout, closures[i])
  BY <1>3, SequenceFacts DEF ClosuresFit, World
<1>5. n \in Nat /\ OperandCount(ins) = n + 1
  BY <1>1, ClosureOperands
<1>6. PICK j \in DOMAIN fn.code :
               /\ fn.code[j][2] \in DOMAIN layout
               /\ Arg(0)[2] = Append(top.path, j)
               /\ n = Len(fn.code[j][2].free_vars)
               /\ \A k \in 1..n : Sees(World, Arg(k)[2], top.path, fn.code[j][2].free_vars[k])
  BY <1>1, ClosureOperands
<1> DEFINE p == Append(top.path, j)
           g == fn.code[j][2]
<1>7. c.path = p /\ c.refs = refs
  BY <1>6
<1> HIDE DEF c
<1>8. /\ IsSequence(closures') /\ Len(closures') = Len(closures) + 1
      /\ (\A i \in 1..Len(closures) : closures'[i] = closures[i]) /\ closures'[Len(closures) + 1] = c
  BY <1>2, <1>4, SequenceAppend
<1>9. DOMAIN closures' = 1..Len(closures) + 1
  BY <1>8, SequenceFacts
<1>10. Extends(World', World)
  BY <1>2, <1>4, <1>9 DEF Extends, World
<1>11. ClosureFits(World, layout, c)
  <2>1. IsSequence(top.path) /\ fn = FunctionAt(World, top.path)
    BY <1>1, TopFits DEF FrameFits, Known
  <2>2. FunctionAt(World, p) = g
    <3>1. FunctionFrom(code, Append(top.path, j)) = FunctionFrom(code, top.path).code[j][2]
      BY <2>1, FunctionOfAppend
    <3>2. FunctionFrom(code, top.path) = fn
      BY <2>1 DEF FunctionAt, World
    <3> QED BY <3>1, <3>2 DEF FunctionAt, World
  <2>3. IsSequence(p)
    BY <2>1, SequenceAppend
  <2>4. IsSequence(g.free_vars)
    BY <1>6 DEF Fits, Verified, ScopeAgrees
  <2>5. refs = [k \in 1..n |-> refs[k]] /\ \A k \in 1..n : refs[k] = Arg(k)[2]
    OBVIOUS
  <2> HIDE DEF refs
  <2>6. IsSequence(refs) /\ Len(refs) = n
    BY <1>5, <2>5, SequenceFunction
  <2>7. ASSUME NEW k \in 1..n
        PROVE  Sees(World, refs[k], p, g.free_vars[k]) /\ Len(World.cells[refs[k]].path) < Len(p)
    <3>1. g.free_vars[k] \in Range(FunctionAt(World, p).free_vars)
      BY <1>6, <2>2, <2>4, SequenceFacts
    <3>2. Sees(World, refs[k], top.path, g.free_vars[k])
      BY <1>6, <2>5
    <3> QED BY <2>1, <3>1, <3>2, SeesDeeper
  <2> HIDE DEF p, g, n
  <2>8. n = Len(g.free_vars)
    BY <1>6 DEF g
  <2>9. AllSeen(World, refs, p, g.free_vars)
    BY <2>4, <2>6, <2>7, <2>8 DEF AllSeen
  <2>10. Known(World, layout, p)
    BY <1>6, <2>2, <2>3 DEF Known, g
  <2> QED BY <1>7, <2>2, <2>6, <2>7, <2>9, <2>10 DEF ClosureFits
<1>12. ClosuresFit(World', layout)
  <2>1. ASSUME NEW i \in 1..Len(closures')
        PROVE  ClosureFits(World', layout, closures'[i])
    <3>1. ClosureFits(World, layout, closures'[i])
      BY <1>4, <1>8, <1>11
    <3> QED BY <1>10, <3>1, ClosureKept
  <2> QED BY <1>8, <2>1 DEF ClosuresFit, World
<1>13. ValueIn(World', v)
  <2>1. Len(closures) + 1 \in DOMAIN closures' /\ World'.closures = closures'
    BY <1>4, <1>9 DEF World
  <2> QED BY <2>1 DEF ValueIn
<1>14. CellsFit(World') /\ RecsFit(World') /\ GlobalsFit(World', global_variables')
  <2>1. World'.cells = World.cells /\ World'.recs = World.recs
    BY <1>2 DEF World
  <2> QED BY <1>2, <1>3, <1>10, <2>1, HeapKept
<1>15. top.ip + 1 \in Targets(fn, top.ip)
  BY <1>1, NextTarget
<1> HIDE DEF v
<1>16. StackFits(World', top.path, Append(Under(n + 1), v), SlotsAfter(fn, top.ip, Slots(layout)))
  <2>1. ins[1] \in Pushing /\ OperandCount(ins) \in Nat
    BY <1>1, <1>5 DEF Pushing
  <2>2. StackFits(World', top.path, Append(Under(OperandCount(ins)), v),
                  SlotsAfter(fn, top.ip, Slots(layout)))
    BY <1>1, <1>10, <1>13, <2>1, ValuePushed
  <2> QED BY <1>5, <2>2
<1>17. FramesFit(World', layout, frames') /\ frames' # <<>>
  BY <1>1, <1>2, <1>10, <1>15, <1>16, ContinuedAt
<1> QED BY <1>2, <1>12, <1>14, <1>17, FitsAgain

-----------------------------------------------------------------------------
(* ClosureFunctionValue::call, with the arguments args for the closure clo. *)

\* A parameter has a value when the numbers of arguments agree (call throws
\* before that when they do not).
LEMMA ArgumentValue ==
  ASSUME NEW w, NEW f, NEW args, NEW x, IsSequence(f.params),
         \A i \in 1..Len(f.params) : ValueIn(w, args[i])
  PROVE  ValueIn(w, ArgumentOf(f, args, x)) /\ ValueIn(w, None)
<1>1. ValueIn(w, None)
  BY DEF ValueIn, None
<1>2. CASE Contains(f.params, x)
  <2>1. \E i \in DOMAIN f.params : f.params[i] = x
    BY <1>2, SequenceFacts DEF Contains
  <2>2. IndexIn(f.params, x) \in DOMAIN f.params
    BY <2>1 DEF IndexIn
  <2>3. IndexIn(f.params, x) \in 1..Len(f.params)
    BY <2>2, SequenceFacts
  <2> QED BY <1>1, <1>2, <2>3 DEF ArgumentOf
<1>3. CASE ~Contains(f.params, x)
  BY <1>1, <1>3 DEF ArgumentOf
<1> QED BY <1>2, <1>3

\* The cells of the call hold values, and are the variables of its function.
LEMMA CellsAdded ==
  ASSUME NEW layout, Fits(layout), NEW clo, ClosureFits(World, layout, clo), NEW args,
         \A i \in 1..Len(Function(clo.path).params) : ValueIn(World, args[i]),
         cells' = cells \o NewCells(clo, args), UNCHANGED <<code, closures, recs>>
  PROVE  /\ Extends(World', World) /\ CellsFit(World')
         /\ \A i \in 1..Len(Function(clo.path).local_reference_vars) :
               Sees(World', Len(cells) + i, clo.path, Function(clo.path).local_reference_vars[i])
<1> DEFINE f   == Function(clo.path)
           own == f.local_reference_vars
           new == NewCells(clo, args)
<1>1. f = FunctionAt(World, clo.path)
  BY DEF Function, FunctionAt, World
<1>2. f \in DOMAIN layout /\ IsSequence(clo.path)
  BY <1>1 DEF ClosureFits, Known
<1>3. IsSequence(f.params) /\ IsSequence(own) /\ Range(own) \subseteq f.local_vars
  BY <1>2 DEF Fits, Verified, ScopeAgrees
<1>4. DOMAIN own = 1..Len(own) /\ Len(own) \in Nat /\ \A i \in 1..Len(own) : own[i] \in Range(own)
  BY <1>3, SequenceFacts
<1>5. \A i \in 1..Len(f.params) : ValueIn(World, args[i])
  OBVIOUS
<1>6. \A x : ValueIn(World, ArgumentOf(f, args, x)) /\ ValueIn(World, None)
  <2> HIDE DEF f
  <2> QED BY <1>3, <1>5, ArgumentValue
<1>7. new = [i \in DOMAIN own |->
               [name |-> own[i], path |-> clo.path,
                value |-> IF InCell(f, own[i]) THEN ArgumentOf(f, args, own[i]) ELSE None]]
  BY DEF NewCells
<1>8. cells' = cells \o new
  OBVIOUS
<1> HIDE DEF f, own, new
<1>9. ASSUME NEW i \in 1..Len(own)
      PROVE  /\ IsCell(new[i]) /\ new[i].name = own[i] /\ new[i].path = clo.path
             /\ ValueIn(World, new[i].value)
  <2> DEFINE y == IF InCell(f, own[i]) THEN ArgumentOf(f, args, own[i]) ELSE None
  <2>1. ValueIn(World, y)
    BY <1>6
  <2> HIDE DEF y
  <2>2. new[i] = [name |-> own[i], path |-> clo.path, value |-> y]
    BY <1>4, <1>7 DEF y
  <2> QED BY <2>1, <2>2 DEF IsCell
<1>10. IsSequence(new) /\ Len(new) = Len(own)
  <2>1. new = [i \in 1..Len(own) |-> new[i]]
    BY <1>4, <1>7
  <2> QED BY <1>4, <2>1, SequenceFunction
<1>11. /\ IsSequence(cells) /\ Len(cells) \in Nat /\ DOMAIN cells = 1..Len(cells)
       /\ \A r \in 1..Len(cells) : IsCell(cells[r]) /\ ValueIn(World, cells[r].value)
  <2>1. IsSequence(cells) /\ \A r \in 1..Len(cells) : IsCell(cells[r]) /\ ValueIn(World, cells[r].value)
    BY DEF Fits, CellsFit, World
  <2> QED BY <2>1, SequenceFacts
<1>12. /\ IsSequence(cells') /\ Len(cells') = Len(cells) + Len(own)
       /\ \A r \in 1..Len(cells) : cells'[r] = cells[r]
       /\ \A i \in 1..Len(own) : cells'[Len(cells) + i] = new[i]
  <2>1. Joins(cells \o new, cells, new)
    BY <1>10, <1>11, SequenceConcat
  <2> QED BY <1>8, <1>10, <2>1 DEF Joins
<1>13. DOMAIN cells' = 1..Len(cells) + Len(own)
  BY <1>12, SequenceFacts
<1>14. Extends(World', World)
  <2>1. ASSUME NEW r \in DOMAIN cells
        PROVE  r \in DOMAIN cells' /\ cells'[r] = cells[r]
    BY <1>4, <1>11, <1>12, <1>13
  <2> QED BY <2>1 DEF Extends, World
<1>15. CellsFit(World')
  <2>1. ASSUME NEW r \in 1..Len(cells')
        PROVE  IsCell(cells'[r]) /\ ValueIn(World', cells'[r].value)
    <3>1. IsCell(cells'[r]) /\ ValueIn(World, cells'[r].value)
      <4>1. CASE r \in 1..Len(cells)
        BY <1>11, <1>12, <4>1
      <4>2. CASE r \notin 1..Len(cells)
        <5>1. r - Len(cells) \in 1..Len(own) /\ Len(cells) + (r - Len(cells)) = r
          BY <1>4, <1>11, <1>12, <4>2
        <5> QED BY <1>9, <1>12, <5>1
      <4> QED BY <4>1, <4>2
    <3> QED BY <1>14, <3>1, ValueKept
  <2> QED BY <1>12, <2>1 DEF CellsFit, World
<1>16. ASSUME NEW i \in 1..Len(own)
       PROVE  Sees(World', Len(cells) + i, clo.path, own[i])
  <2> DEFINE r == Len(cells) + i
  <2>1. r \in DOMAIN cells' /\ cells'[r].name = own[i] /\ cells'[r].path = clo.path
    <3>1. Len(cells) + i \in 1..Len(cells) + Len(own)
      BY <1>4, <1>11
    <3> QED BY <1>9, <1>12, <1>13, <3>1
  <2> HIDE DEF r
  <2>2. World'.cells = cells'
    BY DEF World
  <2>3. Len(clo.path) \in Nat /\ Len(clo.path) \in 0..Len(clo.path)
    BY <1>2, SequenceFacts
  <2>4. clo.path = SubSeq(clo.path, 1, Len(clo.path))
    <3>1. /\ IsSequence(SubSeq(clo.path, 1, Len(clo.path)))
          /\ Len(SubSeq(clo.path, 1, Len(clo.path))) = Len(clo.path)
          /\ \A k \in 1..Len(clo.path) : SubSeq(clo.path, 1, Len(clo.path))[k] = clo.path[k]
      BY <1>2, <2>3, SequencePrefix
    <3> QED BY <1>2, <3>1, SequenceEqual
  <2>5. own[i] \in FunctionAt(World', clo.path).local_vars
    <3>1. FunctionAt(World', clo.path) = f
      BY <1>1 DEF FunctionAt, World
    <3> QED BY <1>3, <1>4, <3>1
  <2>6. \A m \in Len(clo.path) + 1..Len(clo.path) : FALSE
    BY <2>3
  <2>7. Sees(World', r, clo.path, own[i])
    BY <2>1, <2>2, <2>3, <2>4, <2>5, <2>6 DEF Sees
  <2> QED BY <2>7 DEF r
<1> QED BY <1>14, <1>15, <1>16 DEF own, f

\* The references of the activation: its own, then those of the closure.
LEMMA NewRefsSeen ==
  ASSUME NEW layout, Fits(layout), NEW clo, ClosureFits(World, layout, clo),
         Extends(World', World),
         \A i \in 1..Len(Function(clo.path).local_reference_vars) :
               Sees(World', Len(cells) + i, clo.path, Function(clo.path).local_reference_vars[i])
  PROVE  AllSeen(World', NewRefs(clo), clo.path, RefNames(Function(clo.path)))
<1> DEFINE f    == Function(clo.path)
           own  == f.local_reference_vars
           free == f.free_vars
           a    == [i \in DOMAIN own |-> Len(cells) + i]
           b    == SubSeq(clo.refs, 1, Len(free))
           names == own \o free
           refs  == a \o b
<1>1. f = FunctionAt(World, clo.path)
  BY DEF Function, FunctionAt, World
<1>2. f \in DOMAIN layout /\ AllSeen(World, clo.refs, clo.path, free)
  BY <1>1 DEF ClosureFits, Known
<1>3. IsSequence(own) /\ IsSequence(free)
  BY <1>2 DEF Fits, Verified, ScopeAgrees
<1>4. NewRefs(clo) = refs /\ RefNames(f) = names
  BY DEF NewRefs, RefNames
<1>5. \A i \in 1..Len(own) : Sees(World', Len(cells) + i, clo.path, own[i])
  OBVIOUS
<1> HIDE DEF f, own, free
<1>6. DOMAIN own = 1..Len(own) /\ Len(own) \in Nat /\ Len(free) \in Nat
  BY <1>3, SequenceFacts
<1>7. IsSequence(a) /\ Len(a) = Len(own) /\ \A i \in 1..Len(own) : a[i] = Len(cells) + i
  <2>1. a = [i \in 1..Len(own) |-> a[i]] /\ \A i \in 1..Len(own) : a[i] = Len(cells) + i
    BY <1>6
  <2> HIDE DEF a
  <2> QED BY <1>6, <2>1, SequenceFunction
<1>8. /\ IsSequence(clo.refs) /\ Len(clo.refs) = Len(free)
      /\ \A k \in 1..Len(free) : Sees(World, clo.refs[k], clo.path, free[k])
  BY <1>2 DEF AllSeen
<1>9. /\ IsSequence(b) /\ Len(b) = Len(free)
      /\ \A k \in 1..Len(free) : b[k] = clo.refs[k]
  BY <1>6, <1>8, SequencePrefix
<1> HIDE DEF a, b
<1>10. /\ IsSequence(refs) /\ Len(refs) = Len(own) + Len(free)
       /\ \A k \in 1..Len(own) : refs[k] = a[k]
       /\ \A k \in 1..Len(free) : refs[Len(own) + k] = b[k]
  <2>1. Joins(a \o b, a, b)
    BY <1>7, <1>9, SequenceConcat
  <2> QED BY <1>7, <1>9, <2>1 DEF Joins
<1>11. /\ IsSequence(names) /\ Len(names) = Len(own) + Len(free)
       /\ \A k \in 1..Len(own) : names[k] = own[k]
       /\ \A k \in 1..Len(free) : names[Len(own) + k] = free[k]
  <2>1. Joins(own \o free, own, free)
    BY <1>3, SequenceConcat
  <2> QED BY <2>1 DEF Joins
<1> HIDE DEF refs, names
<1>12. ASSUME NEW k \in 1..Len(names)
       PROVE  Sees(World', refs[k], clo.path, names[k])
  <2>1. CASE k \in 1..Len(own)
    BY <1>5, <1>7, <1>10, <1>11, <2>1
  <2>2. CASE k \notin 1..Len(own)
    <3> DEFINE i == k - Len(own)
    <3>1. i \in 1..Len(free) /\ Len(own) + i = k
      BY <1>6, <1>11, <2>2
    <3> HIDE DEF i
    <3>2. Sees(World, clo.refs[i], clo.path, free[i])
      BY <1>8, <3>1
    <3>3. Sees(World', clo.refs[i], clo.path, free[i])
      BY <3>2, SeesKept
    <3>4. refs[k] = clo.refs[i] /\ names[k] = free[i]
      BY <1>9, <1>10, <1>11, <3>1
    <3> QED BY <3>3, <3>4
  <2> QED BY <2>1, <2>2
<1>13. AllSeen(World', refs, clo.path, names)
  BY <1>10, <1>11, <1>12 DEF AllSeen
<1> QED BY <1>4, <1>13 DEF f

\* The activation of the function that is called, at its first instruction.
LEMMA Entering ==
  ASSUME NEW layout, Fits(layout), NEW clo, ClosureFits(World, layout, clo), NEW args,
         \A i \in 1..Len(Function(clo.path).params) : ValueIn(World, args[i]),
         Extends(World', World), code' = code,
         AllSeen(World', NewRefs(clo), clo.path, RefNames(Function(clo.path)))
  PROVE  LET f == Activation(clo.path, NewLocals(clo, args), NewRefs(clo))
         IN  IsSequence(f.stack) /\ FrameFits(World', layout, f, f.stack)
<1> DEFINE g == Function(clo.path)
           l == NewLocals(clo, args)
           r == NewRefs(clo)
           f == Activation(clo.path, l, r)
<1>1. g = FunctionAt(World', clo.path) /\ g = FunctionAt(World, clo.path)
  BY DEF Function, FunctionAt, World
<1>2. g \in DOMAIN layout /\ IsSequence(clo.path)
  BY <1>1 DEF ClosureFits, Known
<1>3. IsSequence(g.params) /\ IsSequence(g.code) /\ layout[g][1] = <<>>
  BY <1>2 DEF Fits, Verified, ScopeAgrees, SlotsAgree
<1>4. l = [x \in g.local_vars |-> IF InCell(g, x) THEN None ELSE ArgumentOf(g, args, x)]
  BY DEF NewLocals
<1>5. \A i \in 1..Len(g.params) : ValueIn(World, args[i])
  OBVIOUS
<1>6. AllSeen(World', r, clo.path, RefNames(g))
  OBVIOUS
<1> HIDE DEF g, l, r
<1>7. \A x : ValueIn(World, ArgumentOf(g, args, x)) /\ ValueIn(World, None)
  BY <1>3, <1>5, ArgumentValue
<1>8. DOMAIN l = g.local_vars /\ \A x \in g.local_vars : ValueIn(World, l[x])
  BY <1>4, <1>7
<1>9. \A x \in g.local_vars : ValueIn(World', l[x])
  BY <1>8, ValueKept
<1>10. /\ f.path = clo.path /\ f.ip = 1 /\ f.locals = l /\ f.refs = r /\ f.stack = <<>>
       /\ IsFrame(f)
  BY DEF Activation, IsFrame
<1> HIDE DEF f
<1>11. StackFits(World', clo.path, <<>>, <<>>)
  BY SequenceEmpty DEF StackFits
<1>12. 1 \in 1..Len(g.code) + 1
  BY <1>3, SequenceFacts
<1>13. Known(World', layout, clo.path)
  BY <1>1, <1>2 DEF Known
<1>14. FrameFits(World', layout, f, f.stack)
  BY <1>1, <1>3, <1>6, <1>8, <1>9, <1>10, <1>11, <1>12, <1>13 DEF FrameFits
<1> QED BY <1>10, <1>14, SequenceEmpty DEF f, l, r

\* The frame of the caller: it waits for the result in place of the operands.
LEMMA Calling ==
  ASSUME NEW layout, Fits(layout), end = "running", top.ip <= Len(fn.code), ins[1] = "Call",
         ins[2] \in Nat, Extends(World', World), code' = code
  PROVE  LET c == [top EXCEPT !.stack = Under(ins[2] + 1), !.ip = top.ip + 1]
         IN  IsSequence(c.stack) /\ FrameFits(World', layout, c, Append(c.stack, None))
<1> DEFINE s == Under(ins[2] + 1)
           j == top.ip + 1
           c == [top EXCEPT !.stack = s, !.ip = j]
           t == SlotsAfter(fn, top.ip, Slots(layout))
<1>1. fn = FunctionAt(World, top.path) /\ FrameFits(World, layout, top, S)
  BY TopFits
<1>2. /\ IsFrame(top) /\ Known(World, layout, top.path) /\ DOMAIN top.locals = fn.local_vars
      /\ \A x \in fn.local_vars : ValueIn(World, top.locals[x])
      /\ AllSeen(World, top.refs, top.path, RefNames(fn))
  BY <1>1 DEF FrameFits
<1>3. FunctionAt(World', top.path) = fn
  BY <1>1 DEF FunctionAt, World
<1>4. j \in 1..Len(fn.code) + 1 /\ layout[fn][j] = t
  <2>1. j \in Targets(fn, top.ip)
    BY NextTarget
  <2> HIDE DEF j, t
  <2> QED BY <2>1, InstructionFits DEF t
<1>5. OperandCount(ins) = ins[2] + 1 /\ OperandCount(ins) \in Nat /\ ins[1] \in Pushing
  BY DEF OperandCount, Pushing
<1>6. ValueIn(World', None)
  BY DEF ValueIn, None
<1>7. StackFits(World', top.path, Append(s, None), t)
  <2>1. StackFits(World', top.path, Append(Under(OperandCount(ins)), None),
                  SlotsAfter(fn, top.ip, Slots(layout)))
    BY <1>5, <1>6, ValuePushed
  <2> QED BY <1>5, <2>1
<1>8. IsSequence(s)
  <2>1. StackFits(World, top.path, Under(OperandCount(ins)),
             SubSeq(Slots(layout), 1, Len(Slots(layout)) - OperandCount(ins)))
    BY <1>5, UnderFits
  <2> QED BY <1>5, <2>1 DEF StackFits
<1> HIDE DEF s, j, t
<1>9. /\ IsFrame(c)
      /\ c = [path |-> top.path, ip |-> j, locals |-> top.locals, refs |-> top.refs, stack |-> s]
  <2>1. \A s1, i1 : /\ IsFrame([top EXCEPT !.stack = s1, !.ip = i1])
                    /\ [top EXCEPT !.stack = s1, !.ip = i1] =
                          [path |-> top.path, ip |-> i1, locals |-> top.locals,
                           refs |-> top.refs, stack |-> s1]
    <3>1. IsFrame(top)
      BY <1>2
    <3> QED BY <3>1, FrameMoved, Zenon
  <2> QED BY <2>1, Zenon
<1> HIDE DEF c
<1>10. c.path = top.path /\ c.ip = j /\ c.locals = top.locals /\ c.refs = top.refs /\ c.stack = s
  BY <1>9
<1>11. Known(World', layout, c.path)
  BY <1>1, <1>2, <1>3, <1>10 DEF Known
<1>12. AllSeen(World', c.refs, c.path, RefNames(fn))
  BY <1>2, <1>10, AllSeenKept
<1>13. DOMAIN c.locals = fn.local_vars /\ \A x \in fn.local_vars : ValueIn(World', c.locals[x])
  BY <1>2, <1>10, ValueKept
<1>14. FrameFits(World', layout, c, Append(c.stack, None))
  BY <1>3, <1>4, <1>7, <1>9, <1>10, <1>11, <1>12, <1>13 DEF FrameFits
<1> QED BY <1>8, <1>10, <1>14 DEF c, s, j

\* The call of a closure: the caller waits, and the activation on top has the
\* cells, the variables and the references of its function.
LEMMA CallFunctionFits ==
  ASSUME NEW layout, Fits(layout), CallFunction
  PROVE  Fits(layout)'
<1> DEFINE clo  == closures[Arg(0)[2]]
           args == [i \in 1..ins[2] |-> Arg(ins[2] + 1 - i)]
           g    == Function(clo.path)
<1>1. end = "running" /\ top.ip <= Len(fn.code) /\ ins[1] = "Call" /\ Arg(0)[1] = "function"
  BY DEF CallFunction, Executing
<1>2. CASE Len(g.params) # ins[2]
  BY <1>2, Raised DEF CallFunction
<1>3. CASE Len(g.params) = ins[2]
  <2>1. /\ Enter(clo, args) /\ code' = code /\ end' = "running" /\ closures' = closures
        /\ recs' = recs /\ global_variables' = global_variables
    BY <1>1, <1>3 DEF CallFunction, Going
  <2>2. ins[2] \in Nat
    BY <1>1, InstructionFits DEF OperandKnown, ins
  <2>3. OperandCount(ins) = ins[2] + 1 /\ OperandCount(ins) \in Nat
        /\ 0 \in 0..OperandCount(ins) - 1 /\ ins[1] # "AllocClosure"
    BY <1>1, <2>2 DEF OperandCount
  <2>4. \A i \in 1..Len(g.params) : ValueIn(World, args[i])
    <3>1. ASSUME NEW i \in 1..ins[2]
          PROVE  ValueIn(World, args[i])
      <4>1. ins[2] + 1 - i \in 0..OperandCount(ins) - 1
        BY <2>2, <2>3
      <4>2. ValueIn(World, Arg(ins[2] + 1 - i))
        BY <1>1, <2>3, <4>1, OperandIsValue
      <4> QED BY <4>2
    <3> QED BY <1>3, <3>1
  <2>5. ClosureFits(World, layout, clo)
    <3>1. ValueIn(World, Arg(0))
      BY <1>1, <2>3, OperandIsValue
    <3>2. Arg(0)[2] \in DOMAIN closures
      BY <1>1, <3>1 DEF ValueIn, World
    <3>3. IsSequence(closures) /\ \A i \in 1..Len(closures) : ClosureFits(World, layout, closures[i])
      BY DEF Fits, ClosuresFit, World
    <3>4. Arg(0)[2] \in 1..Len(closures)
      BY <3>2, <3>3, SequenceFacts
    <3> QED BY <3>3, <3>4
  <2> HIDE DEF clo, args
  <2>6. cells' = cells \o NewCells(clo, args)
    BY <2>1 DEF Enter
  <2>7. /\ Extends(World', World) /\ CellsFit(World')
        /\ \A i \in 1..Len(g.local_reference_vars) :
               Sees(World', Len(cells) + i, clo.path, g.local_reference_vars[i])
    BY <2>1, <2>4, <2>5, <2>6, CellsAdded
  <2>8. AllSeen(World', NewRefs(clo), clo.path, RefNames(g))
    BY <2>5, <2>7, NewRefsSeen
  <2> DEFINE f == Activation(clo.path, NewLocals(clo, args), NewRefs(clo))
             c == [top EXCEPT !.stack = Under(ins[2] + 1), !.ip = top.ip + 1]
  <2>9. IsSequence(f.stack) /\ FrameFits(World', layout, f, f.stack)
    BY <2>1, <2>4, <2>5, <2>7, <2>8, Entering
  <2>10. IsSequence(c.stack) /\ FrameFits(World', layout, c, Append(c.stack, None))
    BY <1>1, <2>1, <2>2, <2>7, Calling
  <2>11. frames' = Append([frames EXCEPT ![Len(frames)] = c], f)
    BY <2>1 DEF Enter
  <2> HIDE DEF f, c, g
  <2>12. FramesFit(World, layout, frames) /\ frames # <<>>
    BY <1>1 DEF Fits
  <2>13. FramesFit(World', layout, frames')
    BY <2>7, <2>9, <2>10, <2>11, <2>12, FramesPushed
  <2>14. frames' # <<>>
    <3>1. IsSequence(frames) /\ Len(frames) \in DOMAIN frames
      BY <1>1, <2>12, TopFits DEF FramesFit
    <3>2. Replaces([frames EXCEPT ![Len(frames)] = c], frames, Len(frames), c)
      BY <3>1, SequenceExcept
    <3>3. Len(frames') = Len(frames) + 1
      BY <2>11, <3>2, SequenceAppend DEF Replaces
    <3>4. Len(frames) \in Nat
      BY <3>1, SequenceFacts
    <3>5. Len(frames') # 0
      BY <3>3, <3>4
    <3> QED BY <3>5, SequenceEmpty
  <2>15. ClosuresFit(World', layout) /\ RecsFit(World') /\ GlobalsFit(World', global_variables')
    <3>1. World'.closures = World.closures /\ World'.recs = World.recs
      BY <2>1 DEF World
    <3>2. ClosuresFit(World, layout) /\ RecsFit(World) /\ GlobalsFit(World, global_variables)
      BY DEF Fits
    <3> QED BY <2>1, <2>7, <3>1, <3>2, HeapKept
  <2> QED BY <2>1, <2>7, <2>13, <2>14, <2>15, FitsAgain
<1> QED BY <1>2, <1>3

-----------------------------------------------------------------------------
(* The invariant of the loop, and what follows from it.                    *)

\* One layout fits as long as the loop runs; which one does not matter.
IInv == \E layout : Fits(layout)

\* The top-level function starts without variables, references or operands.
LEMMA StartFits == (\E layout : Verified(layout)) /\ Start => IInv
<1> SUFFICES ASSUME NEW layout, Verified(layout), Start
             PROVE  Fits(layout)
  BY DEF IInv
<1> DEFINE f == Activation(<<>>, <<>>, <<>>)
<1>1. /\ frames = <<f>> /\ cells = <<>> /\ closures = <<>> /\ recs = <<>>
      /\ global_variables = <<>> /\ end = "running"
  BY DEF Start
<1>2. code \in DOMAIN layout /\ code.local_vars = {} /\ RefNames(code) = <<>>
  BY DEF Verified
<1>3. ScopeAgrees(code) /\ layout[code][1] = <<>>
  BY <1>2 DEF Verified, SlotsAgree
<1>4. /\ IsFrame(f) /\ f.path = <<>> /\ f.ip = 1 /\ f.locals = <<>> /\ f.refs = <<>> /\ f.stack = <<>>
  BY DEF Activation, IsFrame
<1> HIDE DEF f
<1>5. FunctionAt(World, <<>>) = code
  BY FunctionOfRoot DEF FunctionAt, World
<1>6. FrameFits(World, layout, f, f.stack)
  <2>1. 1 \in 1..Len(code.code) + 1
    BY <1>3, SequenceFacts DEF ScopeAgrees
  <2>2. AllSeen(World, <<>>, <<>>, <<>>) /\ StackFits(World, <<>>, <<>>, <<>>)
    BY SequenceEmpty DEF AllSeen, StackFits
  <2>3. Known(World, layout, <<>>)
    BY <1>2, <1>5, SequenceEmpty DEF Known
  <2>4. DOMAIN f.locals = code.local_vars /\ \A x \in code.local_vars : ValueIn(World, f.locals[x])
    BY <1>2, <1>4, SequenceEmpty
  <2> QED BY <1>2, <1>3, <1>4, <1>5, <2>1, <2>2, <2>3, <2>4 DEF FrameFits
<1>7. IsSequence(frames) /\ Len(frames) = 1 /\ frames[1] = f /\ frames # <<>>
  <2>1. <<f>> \in Seq({f}) /\ Len(<<f>>) = 1 /\ <<f>>[1] = f
    OBVIOUS
  <2>2. IsSequence(<<f>>)
    BY <2>1, InSeq
  <2> QED BY <1>1, <2>1, <2>2, SequenceEmpty
<1>8. FramesFit(World, layout, frames)
  <2>1. ASSUME NEW i \in 1..Len(frames)
        PROVE  i = Len(frames) /\ frames[i] = f
    BY <1>7
  <2>2. IsSequence(f.stack)
    BY <1>4, SequenceEmpty
  <2> QED BY <1>6, <1>7, <2>1, <2>2 DEF FramesFit
<1>9. CellsFit(World) /\ ClosuresFit(World, layout) /\ RecsFit(World) /\ GlobalsFit(World, global_variables)
  <2>1. \A i \in 1..Len(<<>>) : FALSE
    BY SequenceEmpty
  <2> QED BY <1>1, <2>1, SequenceEmpty DEF CellsFit, ClosuresFit, RecsFit, GlobalsFit, World
<1> QED BY <1>1, <1>7, <1>8, <1>9 DEF Fits

\* Every instruction leaves a state of which the same layout is true.
LEMMA StepFits ==
  ASSUME NEW layout, Fits(layout), [Execute]_loop
  PROVE  Fits(layout)'
<1>1. CASE Load              BY <1>1, LoadFits
<1>2. CASE LoadFunc          BY <1>2, LoadFuncFits
<1>3. CASE LoadGlobal        BY <1>3, LoadGlobalFits
<1>4. CASE Store             BY <1>4, StoreFits
<1>5. CASE PushReference     BY <1>5, PushReferenceFits
<1>6. CASE AllocClosure      BY <1>6, AllocClosureFits
<1>7. CASE CallFunction      BY <1>7, CallFunctionFits
<1>8. CASE CallNative        BY <1>8, CallNativeFits
<1>9. CASE Leave             BY <1>9, LeaveFits
<1>10. CASE Binary           BY <1>10, BinaryFits
<1>11. CASE Unary            BY <1>11, UnaryFits
<1>12. CASE Jump             BY <1>12, JumpFits
<1>13. CASE StackShuffle     BY <1>13, StackShuffleFits
<1>14. CASE AllocRecord      BY <1>14, AllocRecordFits
<1>15. CASE RecordLoad       BY <1>15, RecordLoadFits
<1>16. CASE RecordStore      BY <1>16, RecordStoreFits
<1>17. CASE ThrowUninitialized BY <1>17, ThrowFits
<1>18. CASE UNCHANGED loop
  <2>1. /\ code' = code /\ end' = end /\ frames' = frames /\ global_variables' = global_variables
        /\ World' = World
    BY <1>18 DEF loop, World
  <2>2. /\ end \in {"running", "ok", "uninitialized", "cast", "runtime", "arithmetic"}
        /\ end = "running" => frames # <<>>
        /\ FramesFit(World, layout, frames) /\ CellsFit(World) /\ ClosuresFit(World, layout)
        /\ RecsFit(World) /\ GlobalsFit(World, global_variables)
    BY DEF Fits
  <2> QED BY <2>1, <2>2, FitsAgain
<1> QED BY <1>1, <1>2, <1>3, <1>4, <1>5, <1>6, <1>7, <1>8, <1>9, <1>10, <1>11, <1>12,
           <1>13, <1>14, <1>15, <1>16, <1>17, <1>18 DEF Execute

\* So the invariant is inductive.
LEMMA InvariantKept == IInv /\ [Execute]_loop => IInv'
<1> SUFFICES ASSUME NEW layout, Fits(layout), [Execute]_loop
             PROVE  IInv'
  BY DEF IInv
<1>1. Fits(layout)'
  BY StepFits
<1> QED BY <1>1 DEF IInv

\* It holds in every state of the loop that executes verified code.
LEMMA InvariantHolds == LoopSpec => []IInv
BY StartFits, InvariantKept, PTL DEF LoopSpec

\* What fits as a value is a valid one.
LEMMA ValueIsValid ==
  ASSUME NEW v, ValueIn(World, v)
  PROVE  Valid(v)
BY DEF ValueIn, Valid, World

\* An activation that fits has the variables and references of its function.
LEMMA FrameIsTyped ==
  ASSUME NEW layout, Fits(layout), NEW i \in DOMAIN frames
  PROVE  LET f == Function(frames[i].path) IN
         /\ frames[i].ip \in 1..Len(f.code) + 1
         /\ DOMAIN frames[i].locals = f.local_vars
         /\ Len(frames[i].refs) = Len(f.local_reference_vars) + Len(f.free_vars)
         /\ Range(frames[i].refs) \subseteq DOMAIN cells
         /\ \A x \in f.local_vars : Valid(frames[i].locals[x])
<1> DEFINE f == Function(frames[i].path)
           refs == frames[i].refs
<1>1. f = FunctionAt(World, frames[i].path)
  BY DEF Function, FunctionAt, World
<1>2. IsSequence(frames)
  BY DEF Fits, FramesFit
<1>3. i \in 1..Len(frames)
  BY <1>2, SequenceFacts
<1>4. PICK s : FrameFits(World, layout, frames[i], s)
  BY <1>3 DEF Fits, FramesFit
<1>5. /\ frames[i].ip \in 1..Len(f.code) + 1 /\ DOMAIN frames[i].locals = f.local_vars
      /\ \A x \in f.local_vars : ValueIn(World, frames[i].locals[x])
      /\ AllSeen(World, refs, frames[i].path, RefNames(f)) /\ f \in DOMAIN layout
  BY <1>1, <1>4 DEF FrameFits, Known
<1>6. IsSequence(f.local_reference_vars) /\ IsSequence(f.free_vars)
  BY <1>5 DEF Fits, Verified, ScopeAgrees
<1> HIDE DEF f, refs
<1>7. Len(RefNames(f)) = Len(f.local_reference_vars) + Len(f.free_vars)
  BY <1>6, SequenceConcat DEF Joins, RefNames
<1>8. /\ IsSequence(refs) /\ Len(refs) = Len(RefNames(f))
      /\ \A k \in 1..Len(RefNames(f)) : refs[k] \in DOMAIN cells
  BY <1>5 DEF AllSeen, Sees, World
<1>9. \A k \in DOMAIN refs : refs[k] \in DOMAIN cells
  BY <1>8, SequenceFacts
<1>10. Range(refs) \subseteq DOMAIN cells
  BY <1>9 DEF Range
<1> QED BY <1>5, <1>7, <1>8, <1>10, ValueIsValid DEF f, refs

\* The invariant says what the machine works on.
LEMMA FitsIsTyped == IInv => TypeOK
<1> SUFFICES ASSUME NEW layout, Fits(layout) PROVE TypeOK
  BY DEF IInv
<1>1. /\ CellsFit(World) /\ RecsFit(World) /\ GlobalsFit(World, global_variables)
      /\ end \in {"running", "ok", "uninitialized", "cast", "runtime", "arithmetic"}
  BY DEF Fits
<1>2. \A r \in DOMAIN cells : Valid(cells[r].value)
  <2>1. IsSequence(cells) /\ \A r \in 1..Len(cells) : ValueIn(World, cells[r].value)
    BY <1>1 DEF CellsFit, World
  <2> QED BY <2>1, SequenceFacts, ValueIsValid
<1>3. \A x \in DOMAIN global_variables : Valid(global_variables[x])
  BY <1>1, ValueIsValid DEF GlobalsFit
<1>4. \A r \in DOMAIN recs : \A k \in DOMAIN recs[r] : Valid(recs[r][k])
  <2>1. IsSequence(recs) /\ \A r \in 1..Len(recs) : \A k \in DOMAIN recs[r] : ValueIn(World, recs[r][k])
    BY <1>1 DEF RecsFit, World
  <2> QED BY <2>1, SequenceFacts, ValueIsValid
<1>5. AtInstruction => OperandCount(ins) <= Depth
  BY InstructionFits DEF AtInstruction
<1> QED BY <1>1, <1>2, <1>3, <1>4, <1>5, FrameIsTyped DEF TypeOK

\* It says what is on the stack where statements begin and end.
LEMMA FitsLeavesNothing == IInv => StatementsLeaveNothing
<1> SUFFICES ASSUME NEW layout, Fits(layout), AtInstruction
             PROVE  /\ ins[1] \in {"Label", "GarbageCollect"} => S = <<>>
                    /\ ins[1] = "Return" => Depth = 1
  BY DEF IInv, StatementsLeaveNothing
<1>1. end = "running" /\ top.ip <= Len(fn.code)
  BY DEF AtInstruction
<1>2. /\ ins[1] \in {"Label", "GarbageCollect"} => Slots(layout) = <<>>
      /\ ins[1] = "Return" => Depth = 1
  BY <1>1, InstructionFits
<1>3. IsSequence(S) /\ Depth = Len(S) /\ Depth = Len(Slots(layout))
  BY <1>1, TopFits, FunctionFits DEF Depth
<1>4. Slots(layout) = <<>> => S = <<>>
  <2>1. Len(S) = 0 => \A k \in 1..Len(S) : S[k] = <<>>[k]
    OBVIOUS
  <2> QED BY <1>3, <2>1, SequenceEmpty, SequenceEqual
<1> QED BY <1>2, <1>4

\* It says which variables closures captured: the ones handed down along the
\* path, which no function in between has itself.
LEMMA FitsIsLexical == IInv => CapturesAreLexical
<1> SUFFICES ASSUME NEW layout, Fits(layout), NEW i \in DOMAIN closures,
                    ScopesDisjoint(closures[i].path)
    PROVE  LET c == closures[i]
               f == Function(c.path)
               declares(k, x) == x \in Function(SubSeq(c.path, 1, k)).local_vars
           IN /\ Len(c.refs) = Len(f.free_vars)
              /\ \A j \in DOMAIN c.refs :
                  LET cell == cells[c.refs[j]]
                      k    == Len(cell.path)
                  IN  /\ cell.name = f.free_vars[j]
                      /\ cell.path = SubSeq(c.path, 1, k)
                      /\ k < Len(c.path)
                      /\ declares(k, cell.name)
                      /\ \A m \in k+1..Len(c.path) : ~declares(m, cell.name)
  BY DEF IInv, CapturesAreLexical
<1> DEFINE c == closures[i]
           f == Function(c.path)
<1>1. IsSequence(closures) /\ \A n \in 1..Len(closures) : ClosureFits(World, layout, closures[n])
  BY DEF Fits, ClosuresFit, World
<1>2. ClosureFits(World, layout, c)
  BY <1>1, SequenceFacts
<1>3. \A p : FunctionAt(World, p) = Function(p)
  BY DEF Function, FunctionAt, World
<1>4. ScopesDisjoint(c.path)
  OBVIOUS
<1> HIDE DEF c
<1>5. /\ AllSeen(World, c.refs, c.path, f.free_vars) /\ IsSequence(c.path)
      /\ \A k \in 1..Len(c.refs) : Len(cells[c.refs[k]].path) < Len(c.path)
  BY <1>2, <1>3 DEF ClosureFits, Known, World
<1>6. IsSequence(c.refs) /\ Len(c.refs) = Len(f.free_vars)
  BY <1>5 DEF AllSeen
<1>7. ASSUME NEW j \in DOMAIN c.refs
      PROVE  LET cell == cells[c.refs[j]]
                 k    == Len(cell.path)
             IN  /\ cell.name = f.free_vars[j]
                 /\ cell.path = SubSeq(c.path, 1, k)
                 /\ k < Len(c.path)
                 /\ cell.name \in Function(SubSeq(c.path, 1, k)).local_vars
                 /\ \A m \in k+1..Len(c.path) :
                       cell.name \notin Function(SubSeq(c.path, 1, m)).local_vars
  <2> DEFINE cell == cells[c.refs[j]]
             k    == Len(cell.path)
             x    == f.free_vars[j]
  <2>1. j \in 1..Len(f.free_vars) /\ j \in 1..Len(c.refs)
    BY <1>6, SequenceFacts
  <2>2. Sees(World, c.refs[j], c.path, x)
    BY <1>5, <2>1 DEF AllSeen
  <2>3. /\ cell.name = x /\ k \in 0..Len(c.path) /\ cell.path = SubSeq(c.path, 1, k)
        /\ x \in Function(cell.path).local_vars
        /\ \A m \in k + 1..Len(c.path) : x \in Range(Function(SubSeq(c.path, 1, m)).free_vars)
    BY <1>3, <2>2 DEF Sees, World
  <2>4. k < Len(c.path)
    BY <1>5, <2>1
  <2> HIDE DEF k, x, cell
  <2>5. ASSUME NEW m \in k + 1..Len(c.path)
        PROVE  x \notin Function(SubSeq(c.path, 1, m)).local_vars
    <3>1. m \in 0..Len(c.path)
      BY <2>3
    <3>2. LET g == Function(SubSeq(c.path, 1, m)) IN Range(g.free_vars) \cap g.local_vars = {}
      BY <1>4, <3>1 DEF ScopesDisjoint
    <3>3. x \in Range(Function(SubSeq(c.path, 1, m)).free_vars)
      BY <2>3
    <3> QED BY <3>2, <3>3
  <2> QED BY <2>3, <2>4, <2>5 DEF k, x, cell
<1> QED BY <1>6, <1>7 DEF c

-----------------------------------------------------------------------------
\* Whatever verified code the loop of Interpreter.cpp executes, every instruction
\* finds its operands on the stack (safe_pop throws no
\* InsufficentStackException), every variable and reference it indexes is there,
\* and variables, cells and records hold values, never bare functions or
\* references.
THEOREM OperandsAreTyped == LoopSpec => []TypeOK
BY InvariantHolds, FitsIsTyped, PTL

\* Whatever verified code the loop executes, the operand stack is empty at every
\* label and before every collection, and a return finds its value alone.
THEOREM StacksAreEmptied == LoopSpec => []StatementsLeaveNothing
BY InvariantHolds, FitsLeavesNothing, PTL

\* Whatever verified code the loop executes, in whatever order closures are made
\* and called, each reference of a closure is the variable of that name in the
\* nearest function around it that has one.
THEOREM CapturesAreOfScope == LoopSpec => []CapturesAreLexical
BY InvariantHolds, FitsIsLexical, PTL
=============================================================================
