---------------------------------- MODULE IR ----------------------------------
(***************************************************************************)
(* The compiler from bytecode to the intermediate representation and the   *)
(* passes of OptimizingCompiler (ir/).                                     *)
(*                                                                         *)
(* c is the state of IR::Compiler: the instructions ir, the temporaries    *)
(* temps and variables vars with their type hints, live ranges and         *)
(* registers, the stack operands, the set obsolete, and statics, the hints *)
(* of the Glob and Deref operands, which get_operand keeps for all         *)
(* functions in one static map.  An instruction has an operation, an       *)
(* operand of it that is no temporary, the temporaries it defines and the  *)
(* ones it uses.  Instructions are counted from 0, as in the code; a label *)
(* is named by its index in the bytecode, func.labels[label].              *)
(***************************************************************************)
EXTENDS BytecodeCompiler, FiniteSets

CONSTANTS
    IntBits,     \* bits of a C++ int
    CalleeRegs,  \* r12 to r15
    CallerRegs   \* r8 to r11

\* The registers linear_scan_allocate distributes, in its order.
reg_pool == CalleeRegs \o CallerRegs

INT_MAX == 1000
NoReg == ""

NoHint == [types |-> {}, const |-> <<>>, var |-> ""]
Temp(h) == [hint |-> h, live_start |-> -1, live_end |-> INT_MAX, reg |-> NoReg, shared_reg |-> FALSE]
Var == [types |-> {}, live_start |-> -1, live_end |-> INT_MAX, reg |-> NoReg, last_reg |-> NoReg]

I(op, of, defs, uses) == [op |-> op, of |-> of, defs |-> defs, uses |-> uses]
Noop == I("Noop", <<>>, <<>>, <<>>)
Is(i, op, kind) == i.op = op /\ i.of[1] = kind

\* The hints an operand passes on.  A temporary that is also stored in a
\* variable is both const and var in the code, with one src_val; nothing reads
\* the constant of such a temporary.
HintOf(c, o) ==
    CASE o[1] = "Var"   -> [NoHint EXCEPT !.types = c.vars[o[2]].types, !.var = o[2]]
      [] o[1] = "Const" -> [NoHint EXCEPT !.types = {o[2][1]}, !.const = o[2]]
      [] o[1] \in {"Glob", "Deref"} /\ o \in DOMAIN c.statics ->
            [NoHint EXCEPT !.types = c.statics[o]]
      [] OTHER -> NoHint

\* Store::Store and PropagateTypes: transferHint of a temporary to its target.
TransferHint(c, o, types) ==
    IF o[1] = "Var" THEN [c EXCEPT !.vars[o[2]].types = @ \cup types]
    ELSE [c EXCEPT !.statics =
            (o :> types \cup (IF o \in DOMAIN @ THEN @[o] ELSE {})) @@ @]

-----------------------------------------------------------------------------
(* compile: the operand stack of the bytecode becomes temporaries.         *)

Emit(c, is) == [c EXCEPT !.ir = @ \o is]
Drop(c, n) == [c EXCEPT !.operands = SubSeq(@, 1, Len(@) - n)]

\* An instruction that defines the next temporary, with this hint.
Define(c, op, of, uses, hint) ==
    LET t == Len(c.temps) + 1
    IN  [c EXCEPT !.ir = Append(@, I(op, of, <<t>>, uses)),
                  !.temps = Append(@, Temp(hint)),
                  !.operands = Append(@, t)]

AssignFrom(c, o) == Define(c, "Assign", o, <<>>, HintOf(c, o))
RetVal == <<"RetVal">>
StoreTemp(c, o, t) ==
    TransferHint(Emit(c, << I("Store", o, <<>>, <<t>>) >>), o, c.temps[t].hint.types)

BinOpName == [o \in {"+", "-", "*", "/", ">", ">=", "==", "&", "|"} |->
    CASE o = "+" -> "Add" [] o = "-" -> "Sub" [] o = "*" -> "Mul" [] o = "/" -> "Div"
      [] o = ">" -> "Gt"  [] o = ">=" -> "Geq" [] o = "==" -> "Eq"
      [] o = "&" -> "And" [] o = "|" -> "Or"]

ResultTypes(op) ==
    CASE op = "Add" -> {}
      [] op \in {"IntAdd", "Sub", "Mul", "Div", "Neg"} -> {"int"}
      [] OTHER -> {"bool"}

Check(assertion, t) == I("CallAssert", <<assertion>>, <<>>, <<t>>)

\* l and r are the left and the right operand.
BinOp(c, op, l, r) ==
    LET asserts ==
            CASE op \in {"Add", "Eq"} -> <<>>
              [] op \in {"And", "Or"} -> <<Check("AssertBool", r), Check("AssertBool", l)>>
              [] op = "Div" -> <<Check("AssertInt", r), Check("AssertInt", l), Check("AssertNotZero", r)>>
              [] OTHER -> <<Check("AssertInt", r), Check("AssertInt", l)>>
    IN  Define(Emit(c, asserts), op, <<>>, IF op \in {"Add", "Eq", "Div"} THEN <<l, r>> ELSE <<r, l>>,
               [NoHint EXCEPT !.types = ResultTypes(op)])

\* The instruction at index i of function f.
CompileInstruction(c, f, i) ==
    LET ins    == f.code[i]
        n      == Len(c.operands)
        top(k) == c.operands[n - k]           \* k operands below the top
        label  == i + ins[2] - 1
        helper(h, of, uses) == Emit(Drop(c, Len(uses)), << I("CallHelper", <<h, of>>, <<>>, uses) >>)
    IN
    CASE ins[1] = "LoadConst"      -> AssignFrom(c, <<"Const", ins[2]>>)
      [] ins[1] = "LoadLocal"      -> AssignFrom(c, <<"Var", ins[2]>>)
      [] ins[1] = "LoadReference"  -> AssignFrom(c, <<"Deref", ins[2]>>)
      [] ins[1] = "PushReference"  -> AssignFrom(c, <<"Ref", ins[2]>>)
      [] ins[1] = "LoadGlobal"     -> AssignFrom(c, <<"Glob", IndexIn(f.names, ins[2])>>)
      [] ins[1] = "LoadFunc"       -> AssignFrom(c, <<"Function", i>>)
      [] ins[1] = "LoadNative"     -> AssignFrom(c, <<"Function", 0>>)
      [] ins[1] = "StoreLocal"     -> StoreTemp(Drop(c, 1), <<"Var", ins[2]>>, top(0))
      [] ins[1] = "StoreReference" -> StoreTemp(Drop(c, 1), <<"Deref", ins[2]>>, top(0))
      [] ins[1] = "StoreGlobal"    -> StoreTemp(Drop(c, 1), <<"Glob", IndexIn(f.names, ins[2])>>, top(0))
      [] ins[1] = "Bin" -> BinOp(Drop(c, 2), BinOpName[ins[2]], top(1), top(0))
      [] ins[1] = "Un"  ->
            LET neg == ins[2] # "!"
                chk == Check(IF neg THEN "AssertInt" ELSE "AssertBool", top(0))
            IN  Define(Emit(Drop(c, 1), <<chk>>), IF neg THEN "Neg" ELSE "Not", <<>>, <<top(0)>>,
                       [NoHint EXCEPT !.types = {IF neg THEN "int" ELSE "bool"}])
      [] ins[1] = "Call" ->
            LET uses == <<top(0)>> \o [k \in 1..ins[2] |-> top(ins[2] + 1 - k)]
            IN  AssignFrom(Emit(Drop(c, ins[2] + 1), << I("Call", <<>>, <<>>, uses) >>), RetVal)
      [] ins[1] = "AllocClosure" ->
            LET uses == [k \in 1..ins[2] + 1 |-> top(k - 1)]
            IN  AssignFrom(Emit(Drop(c, ins[2] + 1), << I("AllocClosure", <<>>, <<>>, uses) >>), RetVal)
      [] ins[1] = "Return"         -> Emit(Drop(c, 1), << I("Return", <<>>, <<>>, <<top(0)>>) >>)
      [] ins[1] = "GarbageCollect" -> helper("GarbageCollect", "", <<>>)
      [] ins[1] = "AllocRecord"    -> AssignFrom(helper("AllocRecord", "", <<>>), RetVal)
      [] ins[1] = "FieldLoad"      -> AssignFrom(helper("FieldLoad", ins[2], <<top(0)>>), RetVal)
      [] ins[1] = "FieldStore"     -> helper("FieldStore", ins[2], <<top(1), top(0)>>)
      [] ins[1] = "IndexLoad"      -> AssignFrom(helper("IndexLoad", "", <<top(1), top(0)>>), RetVal)
      [] ins[1] = "IndexStore"     -> helper("IndexStore", "", <<top(2), top(1), top(0)>>)
      [] ins[1] = "ThrowUninitialized" -> helper("ThrowUninitialized", ins[2], <<>>)
      [] ins[1] = "Label"          -> Emit(c, << I("OutputLabel", <<i - 1>>, <<>>, <<>>) >>)
      [] ins[1] = "Goto"           -> Emit(c, << I("Jump", <<label>>, <<>>, <<>>) >>)
      [] ins[1] = "If"             ->
            Emit(Drop(c, 1), << Check("AssertBool", top(0)), I("CondJump", <<label>>, <<>>, <<top(0)>>) >>)
      [] ins[1] = "Dup"            ->
            LET t == Len(c.temps)
                copy == Temp(c.temps[top(0)].hint)
            IN  [c EXCEPT !.ir = Append(@, I("Fork", <<>>, <<t + 1, t + 2>>, <<top(0)>>)),
                          !.temps = @ \o <<copy, copy>>,
                          !.operands = SubSeq(@, 1, n - 1) \o <<t + 1, t + 2>>]
      [] ins[1] = "Swap"           -> [c EXCEPT !.operands = SubSeq(@, 1, n - 2) \o <<top(0), top(1)>>]
      [] ins[1] = "Pop"            -> Drop(c, 1)

Positions(seq) == [i \in DOMAIN seq |-> i]

\* The variables in the order of their numbers, those the code uses.
UsedVars(f) ==
    LET used == {f.code[i][2] : i \in {j \in DOMAIN f.code : f.code[j][1] \in {"LoadLocal", "StoreLocal"}}}
    IN  SelectSeq(f.params \o Sorted(f.local_vars \ Range(f.params)), LAMBDA x : x \in used)

CompileIR(f, statics) ==
    FoldLeft(LAMBDA c, i : CompileInstruction(c, f, i),
             [ir |-> <<>>, temps |-> <<>>, vars |-> [x \in Range(UsedVars(f)) |-> Var],
              operands |-> <<>>, obsolete |-> {}, statics |-> statics, error |-> ""],
             Positions(f.code))

-----------------------------------------------------------------------------
(* The passes.                                                             *)

\* step(c, k) for the index k of every instruction, in order.
ForEach(c, step(_, _)) == FoldLeft(LAMBDA a, k : step(a, k - 1), c, Positions(c.ir))
At0(c, k) == c.ir[k + 1]
Replaced(c, k, i) == [c EXCEPT !.ir[k + 1] = i]

LoadParams(c, f) ==
    LET used == SelectSeq(f.params, LAMBDA x : x \in DOMAIN c.vars)
    IN  [c EXCEPT !.ir = [i \in DOMAIN used |-> I("ForceLoad", <<"Var", used[i]>>, <<>>, <<>>)] \o @,
                  !.vars = [x \in DOMAIN @ |->
                      IF Contains(used, x) THEN [@[x] EXCEPT !.live_start = 0] ELSE @[x]]]

PropagateTypes(c) ==
    ForEach(c, LAMBDA a, k :
        LET i == At0(a, k) IN
        CASE i.op = "Assign" /\ i.of[1] \in {"Var", "Const", "Deref", "Glob"} ->
                [a EXCEPT !.temps[i.defs[1]].hint = HintOf(a, i.of)]
          [] i.op = "Store" ->
                LET t == i.uses[1]
                    b == IF i.of[1] = "Var" THEN [a EXCEPT !.temps[t].hint.var = i.of[2]] ELSE a
                IN  TransferHint(b, i.of, b.temps[t].hint.types)
          [] OTHER -> a)

TypesOf(c, t) == c.temps[t].hint.types
ConstOf(c, t) == c.temps[t].hint.const
AllOf(c, i, type) == \A k \in DOMAIN i.uses : TypesOf(c, i.uses[k]) = {type}
AllConst(c, i) == \A k \in DOMAIN i.uses : ConstOf(c, i.uses[k]) # <<>>

\* The lambdas that fold integers compute in int.
Wrap(i) == ((i + 2^(IntBits - 1)) % 2^IntBits) - 2^(IntBits - 1)
\* Mutant: the operands of Sub are not swapped.
FoldIntsInOrder(op, a, b) ==
    CASE op \in {"Add", "IntAdd"} -> a + b
      [] op = "Sub" -> a - b
      [] op = "Mul" -> a * b
      [] op = "Div" -> Quotient(a, b)

FoldInts(op, a, b) ==
    CASE op \in {"Add", "IntAdd"} -> a + b
      [] op = "Sub" -> b - a
      [] op = "Mul" -> a * b
      [] op = "Div" -> Quotient(a, b)

\* The value of instruction i, whose operands are constants of the right types.
Folded(c, i) ==
    LET v(k) == ConstOf(c, i.uses[k])[2] IN
    CASE i.op = "Add" /\ AllOf(c, i, "str") -> <<"str", v(1) \o v(2)>>
      [] i.op \in {"Add", "IntAdd", "Sub", "Mul", "Div"} -> Num(Wrap(FoldInts(i.op, v(1), v(2))))
      [] i.op = "FastEq" -> Bool(v(1) = v(2))
      [] i.op = "And"    -> Bool(v(1) /\ v(2))
      [] i.op = "Or"     -> Bool(v(1) \/ v(2))
      [] i.op = "Neg"    -> Num(-v(1))
      [] i.op = "Not"    -> Bool(~v(1))

Foldable(c, i) ==
    /\ AllConst(c, i)
    /\ CASE i.op = "Add" -> AllOf(c, i, "str") \/ AllOf(c, i, "int")
         [] i.op \in {"IntAdd", "Sub", "Mul", "Neg"} -> AllOf(c, i, "int")
         [] i.op = "Div"    -> AllOf(c, i, "int") /\ ConstOf(c, i.uses[2])[2] # 0
         [] i.op = "FastEq" -> AllOf(c, i, "bool") \/ AllOf(c, i, "int")
         [] i.op \in {"And", "Or", "Not"} -> AllOf(c, i, "bool")
         [] OTHER -> FALSE

\* getInteger throws out of the compiler when a constant divisor is no integer.
ConstantFolding(c) ==
    ForEach(c, LAMBDA a, k :
        LET i == At0(a, k) IN
        IF a.error # "" THEN a
        ELSE IF i.op = "Div" /\ AllConst(a, i) /\ ConstOf(a, i.uses[2])[1] # "int"
             THEN [a EXCEPT !.error = "cast"]
        ELSE IF Foldable(a, i)
             THEN LET o == <<"Const", Folded(a, i)>>
                  IN  [Replaced(a, k, I("Assign", o, i.defs, <<>>)) EXCEPT
                          !.temps[i.defs[1]].hint = HintOf(a, o),
                          !.obsolete = @ \cup Range(i.uses)]
        ELSE a)

\* all(a, i, type): the operands of i are taken to be of this type.
SpecializeIf(c, all(_, _, _)) ==
    ForEach(c, LAMBDA a, k :
        LET i == At0(a, k)
            to(op) == [Replaced(a, k, [i EXCEPT !.op = op]) EXCEPT
                          !.temps[i.defs[1]].hint.types = @ \cup ResultTypes(op)]
        IN  CASE i.op = "Add" /\ all(a, i, "int") -> to("IntAdd")
              [] i.op = "Eq" /\ (all(a, i, "int") \/ all(a, i, "bool")) -> to("FastEq")
              [] OTHER -> a)

\* Mutant: one operand decides.
SpecializationByOne(c) == SpecializeIf(c, LAMBDA a, i, type : TypesOf(a, i.uses[1]) = {type})
TypeSpecialization(c) == SpecializeIf(c, AllOf)

\* removeObsolete: assignments to and checks of obsolete temporaries go, and
\* so do the checks whose outcome is known.
Removable(c, i) ==
    \/ i.op = "Assign" /\ i.defs[1] \in c.obsolete
    \/ /\ i.op = "CallAssert"
       /\ LET t == i.uses[1] IN
          \/ t \in c.obsolete
          \/ i.of[1] = "AssertInt" /\ TypesOf(c, t) = {"int"}
          \/ i.of[1] = "AssertBool" /\ TypesOf(c, t) = {"bool"}
          \/ /\ i.of[1] = "AssertNotZero" /\ TypesOf(c, t) = {"int"}
             /\ ConstOf(c, t) # <<>> /\ ConstOf(c, t)[2] # 0

RemoveObsolete(c) ==
    [c EXCEPT !.ir = [k \in DOMAIN @ |-> IF Removable(c, @[k]) THEN Noop ELSE @[k]],
              !.obsolete = {}]

RemoveNoop(c) == [c EXCEPT !.ir = SelectSeq(@, LAMBDA i : i.op # "Noop")]

AdjustLiveEndsNever(c, label, count) == c     \* a mutant

\* adjust_live_ends: from the label's index in the bytecode to here.
AdjustLiveEnds(c, label, count) ==
    LET read == {c.ir[i + 1].of[2] : i \in {j \in label..count : Is(c.ir[j + 1], "Assign", "Var")}}
    IN  [c EXCEPT !.vars = [x \in DOMAIN @ |->
            IF x \in read /\ @[x].live_end < count THEN [@[x] EXCEPT !.live_end = count] ELSE @[x]]]

Started(v, count) == IF v.live_start = -1 \/ v.live_start > count THEN count ELSE v.live_start

\* jumps: the operations at which live ends are adjusted.
LivenessAt(c, jumps) ==
    ForEach(c, LAMBDA a, k :
        LET i == At0(a, k) IN
        CASE Is(i, "Assign", "Var") ->
                [a EXCEPT !.vars[i.of[2]] = [@ EXCEPT !.live_start = Started(a.vars[i.of[2]], k),
                                                      !.live_end = k]]
          [] Is(i, "Store", "Var") ->
                [a EXCEPT !.vars[i.of[2]] = [@ EXCEPT !.live_start = Started(a.vars[i.of[2]], k),
                                                      !.live_end = IF @ = INT_MAX THEN k ELSE @]]
          [] i.op \in jumps -> AdjustLiveEnds(a, i.of[1], k)
          [] OTHER -> a)

VarLivenessCond(c) == LivenessAt(c, {"CondJump"})      \* a mutant
VarLiveness(c) == LivenessAt(c, {"Jump", "CondJump"})

\* The stores DeadVariableAssignment takes out.
DeadStores(c) ==
    {k \in DOMAIN c.ir : Is(c.ir[k], "Store", "Var") /\ c.vars[c.ir[k].of[2]].live_end <= k - 1}

DeadVariableAssignment(c) ==
    [c EXCEPT !.ir = [k \in DOMAIN @ |-> IF k \in DeadStores(c) THEN Noop ELSE @[k]],
              !.obsolete = @ \cup {c.ir[k].uses[1] : k \in DeadStores(c)}]

TempLiveness(c) ==
    LET dead(a, t, k) ==
            LET b == [a EXCEPT !.temps[t].live_end = k]
                x == a.temps[t].hint.var
            IN  IF x # "" /\ a.vars[x].live_end < k THEN [b EXCEPT !.vars[x].live_end = k] ELSE b
    IN  ForEach(c, LAMBDA a, k :
            LET i == At0(a, k) IN
            FoldLeft(LAMBDA b, t : [b EXCEPT !.temps[t].live_start = k],
                     FoldLeft(LAMBDA b, t : dead(b, t, k), a, i.uses), i.defs))

DeadTemp(c) ==
    [c EXCEPT !.obsolete = @ \cup {t \in DOMAIN c.temps :
        /\ c.temps[t].live_end = INT_MAX
        /\ \E k \in DOMAIN c.ir : Contains(c.ir[k].defs, t)}]

SHORT_JUMP_MAX == 1
ShortJump(c) ==
    [c EXCEPT !.ir = [k \in DOMAIN @ |->
        IF @[k].op = "Jump" /\ @[k].of[1] - (k - 1) \in -SHORT_JUMP_MAX..SHORT_JUMP_MAX
        THEN [@[k] EXCEPT !.op = "ShortJump"] ELSE @[k]]]

-----------------------------------------------------------------------------
(* RegisterAllocation.  An operand is <<"Var", x>> or <<"Temp", t>>; r is  *)
(* the compiler with the registers in_use and the multiset active, as the  *)
(* sequence it iterates over.                                              *)

Operand(c, o) == IF o[1] = "Var" THEN c.vars[o[2]] ELSE c.temps[o[2]]

\* Insertion into a multiset: after the elements that are not greater.
InsertBy(seq, o, key(_)) ==
    LET before == SelectSeq(seq, LAMBDA p : key(p) <= key(o))
    IN  before \o <<o>> \o SubSeq(seq, Len(before) + 1, Len(seq))

SetReg(c, o, reg) ==
    IF o[1] = "Var" THEN [c EXCEPT !.vars[o[2]].reg = reg] ELSE [c EXCEPT !.temps[o[2]].reg = reg]

\* expire_old_intervals and deallocate_reg
ExpireOldIntervals(r, o) ==
    LET old == SelectSeq(r.active, LAMBDA p : Operand(r.c, p).live_end <= Operand(r.c, o).live_start)
        expire(q, p) ==
            LET reg == Operand(q.c, p).reg
                x   == IF p[1] = "Temp" THEN q.c.temps[p[2]].hint.var ELSE ""
                out == [q EXCEPT !.in_use = @ \ {reg}, !.active = Tail(@)]
            IN  IF x = "" THEN out
                ELSE [out EXCEPT !.c.temps[p[2]].shared_reg = TRUE, !.c.vars[x].last_reg = reg]
    IN  FoldLeft(expire, r, old)

AllocateReg(r, o) ==
    LET last == IF o[1] = "Var" THEN r.c.vars[o[2]].last_reg ELSE NoReg
        free == SelectSeq(reg_pool, LAMBDA p : p \notin r.in_use)
    IN  IF last # NoReg /\ last \notin r.in_use THEN last ELSE Head(free)

\* active.erase(spill) erases every operand that ends where spill does.
SpillAtInterval(r, o) ==
    LET spill == Last(r.active)
        end(p) == Operand(r.c, p).live_end
        rest  == SelectSeq(r.active, LAMBDA p : end(p) # end(spill))
    IN  IF end(spill) > end(o)
        THEN [r EXCEPT !.c = SetReg(SetReg(r.c, o, Operand(r.c, spill).reg), spill, NoReg),
                       !.active = InsertBy(rest, o, end)]
        ELSE r

AllocateOne(r0, o) ==
    LET r   == ExpireOldIntervals(r0, o)
        x   == IF o[1] = "Temp" THEN r.c.temps[o[2]].hint.var ELSE ""
        reg == AllocateReg(r, o)
    IN  IF x # "" /\ r.c.vars[x].reg # NoReg
        THEN [r EXCEPT !.c.temps[o[2]].reg = r.c.vars[x].reg, !.c.temps[o[2]].shared_reg = TRUE]
        ELSE IF Cardinality(r.in_use) >= Len(reg_pool) THEN SpillAtInterval(r, o)
        ELSE [r EXCEPT !.c = SetReg(r.c, o, reg),
                       !.in_use = @ \cup {reg},
                       !.active = InsertBy(@, o, LAMBDA p : Operand(r.c, p).live_end)]

RegisterAllocation(c, f) ==
    LET vars_ == [i \in DOMAIN UsedVars(f) |-> <<"Var", UsedVars(f)[i]>>]
        all   == vars_ \o [t \in DOMAIN c.temps |-> <<"Temp", t>>]
        operands == FoldLeft(LAMBDA s, o : InsertBy(s, o, LAMBDA p : Operand(c, p).live_start), <<>>, all)
    IN  FoldLeft(AllocateOne, [c |-> c, in_use |-> {}, active |-> <<>>], operands).c

-----------------------------------------------------------------------------
\* runAllPasses
OnePass == <<"PropagateTypes", "ConstantFolding", "TypeSpecialization", "PropagateTypes",
             "RemoveObsolete", "RemoveNoop",
             "VarLiveness", "DeadVariableAssignment", "RemoveObsolete",
             "TempLiveness", "DeadTemp", "RemoveObsolete", "RemoveNoop">>
AllPasses == <<"LoadParams">> \o OnePass \o OnePass
             \o <<"ShortJump", "VarLiveness", "TempLiveness", "RegisterAllocation">>

RunPass(p, c, f) ==
    CASE p = "LoadParams"             -> LoadParams(c, f)
      [] p = "PropagateTypes"         -> PropagateTypes(c)
      [] p = "ConstantFolding"        -> ConstantFolding(c)
      [] p = "TypeSpecialization"     -> TypeSpecialization(c)
      [] p = "RemoveObsolete"         -> RemoveObsolete(c)
      [] p = "RemoveNoop"             -> RemoveNoop(c)
      [] p = "VarLiveness"            -> VarLiveness(c)
      [] p = "DeadVariableAssignment" -> DeadVariableAssignment(c)
      [] p = "TempLiveness"           -> TempLiveness(c)
      [] p = "DeadTemp"               -> DeadTemp(c)
      [] p = "ShortJump"              -> ShortJump(c)
      [] p = "RegisterAllocation"     -> RegisterAllocation(c, f)
=============================================================================
