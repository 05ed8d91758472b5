------------------------------ MODULE MachineCode ------------------------------
(***************************************************************************)
(* The compiler from the intermediate representation to machine code       *)
(* (asm/Compiler.cpp), without the encoding of instructions.               *)
(*                                                                         *)
(* a is the state of ASM::Compiler: the operands of the IR with the        *)
(* registers they still have, the code so far, the registers that are live *)
(* and shared, the variables that are in their register (reg_vars) and the *)
(* index ir_count of the IR instruction.  broken collects the registers    *)
(* for which an assertion of the compiler fails.  Places in memory are     *)
(* <<"temp", t>>, <<"local", x>> and <<"ref", i>>.  Arguments of helpers   *)
(* that are no values of the program (the closure, indexes) are part of    *)
(* the call; their registers are reserved all the same.                    *)
(***************************************************************************)
EXTENDS IR

arg_regs          == <<"rdi", "rsi", "rdx", "rcx">>
caller_saved_regs == <<"rcx", "rdx", "rsi", "rdi">> \o CallerRegs
asm_reg_pool      == <<"rax", "rcx", "rdx", "rsi", "rdi">> \o CallerRegs \o CalleeRegs

Junk == <<"junk">>     \* bits that are no value of the program

StartAsm(c) ==
    c @@ [code |-> <<>>, live |-> {}, shared |-> {}, reg_vars |-> {}, ir_count |-> 0, broken |-> {}]

Code(a, is) == [a EXCEPT !.code = @ \o is]
RegMove(a, d, s) == IF d = s THEN a ELSE Code(a, << <<"mov", d, s>> >>)

-----------------------------------------------------------------------------
(* Which registers are live.                                               *)

AliveReg(a, r, is_shared) ==
    [a EXCEPT !.broken = IF r \in a.live THEN @ \cup {r} ELSE @,
              !.live = @ \cup {r},
              !.shared = IF is_shared THEN @ \cup {r} ELSE @]

IsAllocated(a, r) == r \in a.live \ a.shared

\* A register something else is in is lost to the operand for good.
AliveTemp(a, t) ==
    LET r == a.temps[t].reg IN
    IF r = NoReg THEN a
    ELSE IF IsAllocated(a, r) THEN [a EXCEPT !.temps[t].reg = NoReg]
    ELSE IF r \notin a.live THEN AliveReg(a, r, a.temps[t].shared_reg)
    ELSE a

AliveVar(a, x, load) ==
    LET r == a.vars[x].reg
        b == Code([a EXCEPT !.reg_vars = @ \cup {x}],
                  IF load THEN << <<"load", r, <<"local", x>> >> >> ELSE <<>>)
    IN  IF r = NoReg \/ x \in a.reg_vars THEN a
        ELSE IF IsAllocated(a, r) THEN [a EXCEPT !.vars[x].reg = NoReg]
        ELSE IF r \notin a.live THEN AliveReg(b, r, TRUE)
        ELSE b

Dead(a, r) == IF r \in a.shared THEN a ELSE [a EXCEPT !.live = @ \ {r}]

VarEnds(a, x) == a.vars[x].reg # NoReg /\ a.ir_count >= a.vars[x].live_end
DeadVar(a, x) ==
    IF VarEnds(a, x)
    THEN [a EXCEPT !.live = @ \ {a.vars[x].reg}, !.shared = @ \ {a.vars[x].reg}]
    ELSE a

CheckVars(a) ==
    LET ended == {x \in a.reg_vars : VarEnds(a, x)}
    IN  [FoldLeft(DeadVar, a, Sorted(ended)) EXCEPT !.reg_vars = @ \ ended]

Reserve(a, r) == AliveReg(a, r, FALSE)
\* alloc_reg: at most seven registers are reserved at a time.
FreeReg(a) == Head(SelectSeq(asm_reg_pool, LAMBDA r : r \notin a.live))

-----------------------------------------------------------------------------
(* Reading and writing temporaries.                                        *)

\* read_temp: the register t is in, or the one it is moved to.  A register
\* taken by the hint is not reserved.
ReadTemp(a, t, reg_hint, scratch, force) ==
    LET own    == a.temps[t].reg
        hinted == reg_hint # NoReg /\ (force \/ reg_hint \notin a.live)
        r      == IF hinted THEN reg_hint ELSE FreeReg(a)
        b      == IF hinted THEN a ELSE Reserve(a, r)
    IN  IF own # NoReg /\ ~(scratch /\ a.temps[t].shared_reg) THEN [a |-> a, reg |-> own]
        ELSE [a |-> Code(b, << IF own # NoReg THEN <<"mov", r, own>> ELSE <<"load", r, <<"temp", t>> >> >>),
              reg |-> r]
Read(a, t) == ReadTemp(a, t, NoReg, FALSE, FALSE)

WriteTemp(a, t, r) ==
    LET b == AliveTemp(a, t)
        own == b.temps[t].reg
    IN  IF own # NoReg THEN RegMove(b, own, r) ELSE Code(b, << <<"store", <<"temp", t>>, r>> >>)

\* A temporary from a constant or a place in memory; get(r) puts it into r.
FillTemp(a, t, get(_)) ==
    LET b == AliveTemp(a, t)
        own == b.temps[t].reg
        r == FreeReg(b)
    IN  IF own # NoReg THEN Code(b, <<get(own)>>)
        ELSE Code(b, << get(r), <<"store", <<"temp", t>>, r>> >>)

AssignLocal(a, x, t) ==
    LET b == AliveVar(a, x, TRUE) IN
    IF b.vars[x].reg # NoReg THEN WriteTemp(b, t, b.vars[x].reg)
    ELSE FillTemp(b, t, LAMBDA r : <<"load", r, <<"local", x>> >>)

StoreLocal(a, t, x) ==
    LET b == IF x \in a.reg_vars THEN DeadVar(a, x) ELSE AliveVar(a, x, FALSE)
        s == Read(b, t)
    IN  Dead(IF b.vars[x].reg # NoReg THEN RegMove(s.a, b.vars[x].reg, s.reg)
             ELSE Code(s.a, << <<"store", <<"local", x>>, s.reg>> >>), s.reg)

FlushVars(a) ==
    LET xs == Sorted(a.reg_vars)
    IN  Code(a, [i \in DOMAIN xs |-> <<"store", <<"local", xs[i]>>, a.vars[xs[i]].reg>>])

-----------------------------------------------------------------------------
(* Calls of helpers.                                                       *)

PrepareCallHelper(a, argc) == FoldLeft(Reserve, a, SubSeq(arg_regs, 1, argc))

\* Live registers that are not the callee's to keep are saved around the call;
\* the ones the arguments are read from no longer count as live.
CallHelperWith(a, helper, args) ==
    LET scratch == FreeReg(a)
        pass(b, i) ==
            LET c == [b EXCEPT !.broken = IF arg_regs[i] \in b.live THEN @ ELSE @ \cup {arg_regs[i]}]
            IN  Dead(Dead(RegMove(c, arg_regs[i], args[i]), arg_regs[i]), args[i])
        ready == Dead(Code(FoldLeft(pass, Reserve(a, scratch), Positions(args)),
                           << <<"const", scratch, Junk>> >>), scratch)
        saved == SelectSeq(caller_saved_regs, LAMBDA r : r \in ready.live)
    IN  Code(ready, [i \in DOMAIN saved |-> <<"push", saved[i]>>]
                    \o << <<"call", helper>> >>
                    \o Reverse([i \in DOMAIN saved |-> <<"pop", saved[i]>>]))

\* A call with these operands: a temporary, or 0 for what is no value.
Helper(a, helper, operands) ==
    LET read == FoldLeft(LAMBDA s, i :
                    LET q == ReadTemp(s.a, operands[i], arg_regs[i], FALSE, TRUE)
                    IN  IF operands[i] = 0 THEN [s EXCEPT !.regs = Append(@, arg_regs[i])]
                        ELSE [a |-> q.a, regs |-> Append(s.regs, q.reg)],
                    [a |-> PrepareCallHelper(a, Len(operands)), regs |-> <<>>], Positions(operands))
    IN  FoldLeft(Dead, CallHelperWith(read.a, helper, read.regs), read.regs)

-----------------------------------------------------------------------------
(* One IR instruction.                                                     *)

\* s2 = s2 op s1; src2 may be read into the destination's register.
TwoOperands(a, i, scratch1, instruction(_, _)) ==
    LET s1 == ReadTemp(a, i.uses[1], NoReg, scratch1, FALSE)
        s2 == ReadTemp(s1.a, i.uses[2], a.temps[i.defs[1]].reg, TRUE, FALSE)
        b  == Code(s2.a, << instruction(s2.reg, s1.reg) >>)
    IN  WriteTemp(Dead(Dead(b, s1.reg), s2.reg), i.defs[1], s2.reg)

OneOperand(a, i, op) ==
    LET s == ReadTemp(a, i.uses[1], a.temps[i.defs[1]].reg, TRUE, FALSE)
    IN  WriteTemp(Dead(Code(s.a, << <<op, s.reg>> >>), s.reg), i.defs[1], s.reg)

\* Mutant: rdx is not given back.
DivCodeKeepsRdx(a, i) ==
    LET s1 == Read(Reserve(Reserve(a, "rdx"), "rax"), i.uses[1])
        s2 == Read(s1.a, i.uses[2])
        b  == Code(Dead(RegMove(s2.a, "rax", s1.reg), s1.reg), << <<"div", s2.reg>> >>)
    IN  WriteTemp(Dead(Dead(b, s2.reg), "rax"), i.defs[1], "rax")

DivCode(a, i) ==
    LET s1 == Read(Reserve(Reserve(a, "rdx"), "rax"), i.uses[1])
        s2 == Read(s1.a, i.uses[2])
        b  == Code(Dead(RegMove(s2.a, "rax", s1.reg), s1.reg), << <<"div", s2.reg>> >>)
    IN  WriteTemp(Dead(Dead(Dead(b, s2.reg), "rdx"), "rax"), i.defs[1], "rax")

\* The arguments are pushed in the order of pushed, popped of them taken off.
CallWith(a, i, pushed, popped) ==
    LET push(b, t) == LET s == Read(b, t) IN Dead(Code(s.a, << <<"push", s.reg>> >>), s.reg)
        s1    == ReadTemp(FoldLeft(push, PrepareCallHelper(a, 3), pushed), i.uses[1], "rdi", FALSE, TRUE)
        s2    == FreeReg(s1.a)
        ready == FlushVars(Code(Reserve(s1.a, s2), << <<"movsp", s2>> >>))
        called == CallHelperWith(ready, <<"call_function", Len(pushed)>>, <<s1.reg, s2, "rdx">>)
    IN  Code(FoldLeft(Dead, called, <<s1.reg, s2, "rdx">>), << <<"popargs", popped>> >>)

CallForwards(a, i) == CallWith(a, i, Tail(i.uses), Len(i.uses) - 1)                 \* a mutant
CallKeepsArguments(a, i) == CallWith(a, i, Reverse(Tail(i.uses)), 0)                 \* a mutant
CallCode(a, i) == CallWith(a, i, Reverse(Tail(i.uses)), Len(i.uses) - 1)

GarbageCollectCode(a) ==
    LET asked == CallHelperWith(a, <<"will_garbage_collect">>, <<>>)
        then  == CallHelperWith(FlushVars([asked EXCEPT !.code = <<>>]), <<"garbage_collect">>, <<>>)
    IN  [then EXCEPT !.code = asked.code \o << <<"skip", Len(@) + 1>> >> \o @]

\* The check of AssertNotZero reads its operand into reg only when it is in
\* memory; otherwise reg stays live.
AssertCode(a, i) ==
    LET t   == i.uses[1]
        reg == FreeReg(a)
        b   == Reserve(a, reg)
        s   == ReadTemp(b, t, reg, FALSE, TRUE)
        own == a.temps[t].reg
    IN  IF i.of[1] = "AssertNotZero"
        THEN Dead(Code(s.a, << <<"check", i.of[1], s.reg>> >>), s.reg)
        ELSE Dead(Code(b, IF own # NoReg
                          THEN << <<"const", reg, Junk>>, <<"check", i.of[1], own>> >>
                          ELSE << <<"load", reg, <<"temp", t>> >>, <<"check", i.of[1], reg>>,
                                  <<"const", reg, Junk>> >>), reg)

AllocClosureCode(a, i) ==
    LET add(b, t) ==
            LET s == ReadTemp(RegMove(PrepareCallHelper(b, 2), "rdi", "rax"), t, "rsi", FALSE, TRUE)
            IN  Dead(CallHelperWith(s.a, <<"add_reference_to_closure">>, <<"rdi", s.reg>>), s.reg)
        made == Helper(Reserve(a, "rax"), <<"convert_to_closure">>, <<i.uses[1]>>)
    IN  Dead(FoldLeft(add, made, Tail(i.uses)), "rax")

ForkCode(a, i) ==
    LET s == Read(a, i.uses[1])
    IN  Dead(WriteTemp(WriteTemp(s.a, i.defs[1], s.reg), i.defs[2], s.reg), s.reg)

AssignCode(a, i) ==
    LET t == i.defs[1]
        x == i.of[2]
    IN
    CASE i.of[1] = "Var"      -> AssignLocal(a, x, t)
      [] i.of[1] = "Const"    -> FillTemp(a, t, LAMBDA r : <<"const", r, x>>)
      [] i.of[1] = "Ref"      -> FillTemp(a, t, LAMBDA r : <<"load", r, <<"ref", x>> >>)
      [] i.of[1] = "RetVal"   -> WriteTemp(a, t, "rax")
      [] i.of[1] = "Deref"    -> WriteTemp(Helper(a, <<"read_reference", x>>, <<0>>), t, "rax")
      [] i.of[1] = "Glob"     -> WriteTemp(Helper(a, <<"read_global", x>>, <<0, 0>>), t, "rax")
      [] i.of[1] = "Function" -> WriteTemp(Helper(a, <<"read_function", x>>, <<0, 0>>), t, "rax")

StoreCode(a, i) ==
    LET t == i.uses[1]
        x == i.of[2]
    IN
    CASE i.of[1] = "Var"   -> StoreLocal(a, t, x)
      [] i.of[1] = "Deref" -> Helper(a, <<"write_reference", x>>, <<0, t>>)
      [] i.of[1] = "Glob"  -> Helper(a, <<"write_global", x>>, <<0, 0, t>>)

CallHelperCode(a, i) ==
    LET h == i.of[1] IN
    CASE h = "GarbageCollect"     -> GarbageCollectCode(a)
      [] h = "AllocRecord"        -> Helper(a, <<"alloc_record">>, <<>>)
      [] h = "FieldLoad"          -> Helper(a, <<"field_load", i.of[2]>>, <<0, i.uses[1], 0>>)
      [] h = "FieldStore"         -> Helper(a, <<"field_store", i.of[2]>>, <<0, i.uses[1], 0, i.uses[2]>>)
      [] h = "IndexLoad"          -> Helper(a, <<"index_load">>, i.uses)
      [] h = "IndexStore"         -> Helper(a, <<"index_store">>, i.uses)
      [] h = "ThrowUninitialized" -> Helper(a, <<"throw_uninitialized">>, <<0, 0>>)

InstructionCode(a, i) ==
    CASE i.op = "ForceLoad"   -> AliveVar(a, i.of[2], TRUE)
      [] i.op = "Noop"        -> a
      [] i.op = "OutputLabel" -> Code(a, << <<"label", i.of[1]>> >>)
      [] i.op = "Assign"      -> AssignCode(a, i)
      [] i.op = "Store"       -> StoreCode(a, i)
      [] i.op = "Add"         -> WriteTemp(Helper(a, <<"add">>, i.uses), i.defs[1], "rax")
      [] i.op = "Eq"          -> WriteTemp(Helper(a, <<"equals">>, i.uses), i.defs[1], "rax")
      [] i.op \in {"IntAdd", "Sub", "Mul", "And", "Or"} ->
            TwoOperands(a, i, FALSE, LAMBDA d, s : <<"alu", i.op, d, s>>)
      [] i.op \in {"Gt", "Geq", "FastEq"} ->
            TwoOperands(a, i, TRUE, LAMBDA d, s : <<"compare", i.op, d, s>>)
      [] i.op = "Div"         -> DivCode(a, i)
      [] i.op = "Neg"         -> OneOperand(a, i, "neg")
      [] i.op = "Not"         -> OneOperand(a, i, "not")
      [] i.op \in {"Jump", "ShortJump"} -> Code(a, << <<"jmp", i.of[1]>> >>)
      [] i.op = "CondJump"    ->
            LET s == Read(a, i.uses[1]) IN Dead(Code(s.a, << <<"je", s.reg, i.of[1]>> >>), s.reg)
      [] i.op = "Call"        -> CallCode(a, i)
      [] i.op = "Return"      ->
            LET s == Read(a, i.uses[1]) IN Dead(Code(s.a, << <<"ret", s.reg>> >>), s.reg)
      [] i.op = "CallHelper"  -> CallHelperCode(a, i)
      [] i.op = "CallAssert"  -> AssertCode(a, i)
      [] i.op = "AllocClosure" -> AllocClosureCode(a, i)
      [] i.op = "Fork"        -> ForkCode(a, i)

\* The body of the loop over the IR.
AsmStep(a) ==
    [CheckVars(InstructionCode(a, a.ir[a.ir_count + 1])) EXCEPT !.ir_count = @ + 1]
=============================================================================
