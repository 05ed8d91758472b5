-------------------------------- MODULE BackEnd --------------------------------
(***************************************************************************)
(* A program run by the interpreter loop and then, in a second process, as *)
(* machine code: ClosureFunctionValue::call compiles a function the first  *)
(* time it is called, through the intermediate representation, the passes  *)
(* (with --opt=all) and the machine-code compiler, and jumps into it.      *)
(***************************************************************************)
EXTENDS FrontEnd, MachineCode

VARIABLES
    vm,        \* what the interpreter printed and how it ended, up to a check it left out
    seen,      \* <<kind of variable, name, type>> the interpreter loaded or stored
    opt,       \* OPTIMIZATION_OPTIMIZATION_PASSES
    statics,   \* hints of Glob and Deref operands, kept for the whole process
    compiled,  \* the machine code of the functions called so far
    jit,       \* the compilation under way: the next pass and the compiler
    excuses    \* known miscompilations this run went through

backVars == <<vm, seen, opt, statics, compiled, jit, excuses>>
allVars  == <<vars, backVars>>
given    == <<program, tree, strict>>   \* what the second process leaves alone

NotRun == [out |-> <<>>, end |-> "running", at |-> ""]
Idle   == [pass |-> 0]
Compiling == jit # Idle
Machine   == vm # NotRun

BackEndInit ==
    /\ Init
    /\ vm = NotRun /\ seen = {} /\ opt = FALSE /\ statics = <<>>
    /\ compiled = <<>> /\ jit = Idle /\ excuses = {}

-----------------------------------------------------------------------------
(* The interpreter.                                                        *)

\* The operand of the IR the instruction reads or writes, and the type of its value.
Touched ==
    CASE ins[1] = "LoadLocal"      -> {<<top.path, "Var", ins[2], top.locals[ins[2]][1]>>}
      [] ins[1] = "StoreLocal"     -> {<<top.path, "Var", ins[2], Arg(0)[1]>>}
      [] ins[1] = "LoadReference"  -> {<< <<>>, "Deref", ins[2], cells[top.refs[ins[2]]].value[1]>>}
      [] ins[1] = "StoreReference" -> {<< <<>>, "Deref", ins[2], Arg(0)[1]>>}
      [] ins[1] = "LoadGlobal" /\ ins[2] \in DOMAIN global_variables ->
            {<< <<>>, "Glob", IndexIn(fn.names, ins[2]), global_variables[ins[2]][1]>>}
      [] ins[1] = "StoreGlobal"    -> {<< <<>>, "Glob", IndexIn(fn.names, ins[2]), Arg(0)[1]>>}
      [] OTHER -> {}

Interpret1 ==
    /\ ~Machine
    /\ Next
    /\ seen' = IF strict.end = "running" /\ top.ip <= Len(fn.code)
               THEN seen \cup Touched ELSE seen
    /\ UNCHANGED <<vm, opt, statics, compiled, jit, excuses>>

Frame(path, locals, refs) ==
    [path |-> path, pc |-> 1, regs |-> [r \in Range(asm_reg_pool) |-> Junk],
     temps |-> <<>>, locals |-> locals, refs |-> refs, stack |-> <<>>]

\* The program again, with machine code.
Restart ==
    /\ ~Machine /\ Ended
    /\ vm' = [out |-> Strictly.out, end |-> Strictly.end,
              at |-> CASE strict.end # "running" -> "Bin" [] end = "ok" -> "" [] OTHER -> ins[1]]
    /\ opt' \in BOOLEAN
    /\ frames' = << Frame(<<>>, <<>>, <<>>) >>
    /\ cells' = <<>> /\ closures' = <<>> /\ recs' = <<>> /\ out' = <<>>
    /\ global_variables' = <<>>
    /\ end' = "running"
    /\ UNCHANGED given /\ UNCHANGED <<code, seen, statics, compiled, jit, excuses>>

-----------------------------------------------------------------------------
(* Compilation of the function that is being entered.                      *)

Passes == IF opt THEN AllPasses ELSE <<>>

Reached(pass, c) ==
    /\ jit' = [pass |-> pass, c |-> IF pass > Len(Passes) THEN StartAsm(c) ELSE c]
    /\ statics' = c.statics

CompileFunctionIR ==
    /\ Machine /\ ~Ended /\ ~Compiling
    /\ top.path \notin DOMAIN compiled
    /\ Reached(1, CompileIR(fn, statics))
    /\ UNCHANGED vars /\ UNCHANGED <<vm, seen, opt, compiled, excuses>>

NextPass == IF Compiling /\ jit.pass <= Len(Passes) THEN Passes[jit.pass] ELSE ""

\* Reference: the indexes of the IR from which x is read before it is written.
Successors(ir, k) ==
    LET labelled(l) == {j \in DOMAIN ir : ir[j].op = "OutputLabel" /\ ir[j].of = l} IN
    CASE ir[k].op \in {"Jump", "ShortJump"} -> labelled(ir[k].of)
      [] ir[k].op = "CondJump" -> labelled(ir[k].of) \cup {k + 1}
      [] ir[k].op = "Return" -> {}
      [] OTHER -> {k + 1} \cap DOMAIN ir
RECURSIVE Grow(_, _, _)
Grow(ir, x, known) ==
    LET more == {k \in DOMAIN ir : /\ ~(Is(ir[k], "Store", "Var") /\ ir[k].of[2] = x)
                                   /\ Successors(ir, k) \cap known # {}}
    IN  IF more \subseteq known THEN known ELSE Grow(ir, x, known \cup more)
ReadsAhead(ir, x) == Grow(ir, x, {k \in DOMAIN ir : Is(ir[k], "Assign", "Var") /\ ir[k].of[2] = x})

\* A variable is read again after the end of its live range.
CutShort(c) ==
    \E x \in DOMAIN c.vars : \E k \in ReadsAhead(c.ir, x) : k - 1 > c.vars[x].live_end

\* Stores that are taken out although what they store is read later.
LostStores(c) ==
    {k \in DeadStores(c) : Successors(c.ir, k) \cap ReadsAhead(c.ir, c.ir[k].of[2]) # {}}

\* A fold for which an int is too small.
Overflows(c) ==
    \E k \in DOMAIN c.ir : LET i == c.ir[k] IN
        /\ Foldable(c, i) /\ AllOf(c, i, "int") /\ Len(i.uses) = 2 /\ i.op # "FastEq"
        /\ LET v == FoldInts(i.op, ConstOf(c, i.uses[1])[2], ConstOf(c, i.uses[2])[2]) IN Wrap(v) # v

\* A temporary is left in the register of a variable that lost it to another.
SharesTorn(c) ==
    \E t \in DOMAIN c.temps :
        c.temps[t].shared_reg /\ c.vars[c.temps[t].hint.var].reg # c.temps[t].reg

\* What pass p does to c that is known to be wrong; d is the result.
Mistakes(p, c, d) ==
    {m \in {"lost store", "cut short", "torn", "int"} :
        \/ m = "lost store" /\ p = "DeadVariableAssignment" /\ LostStores(c) # {}
        \/ m = "cut short" /\ p = "RegisterAllocation" /\ CutShort(c)
        \/ m = "torn" /\ p = "RegisterAllocation" /\ SharesTorn(d)
        \/ m = "int" /\ p = "ConstantFolding" /\ Overflows(c)}

OptimizePass ==
    /\ NextPass # ""
    /\ LET c == RunPass(NextPass, jit.c, fn) IN
       IF c.error # ""
       THEN /\ Raise(c.error) /\ UNCHANGED given
            /\ excuses' = excuses \cup {"thrown by the compiler"}
            /\ UNCHANGED <<statics, jit>>
       ELSE /\ Reached(jit.pass + 1, c)
            /\ excuses' = excuses \cup Mistakes(NextPass, jit.c, c)
            /\ UNCHANGED vars
    /\ UNCHANGED <<vm, seen, opt, compiled>>

Emitting == Compiling /\ jit.pass > Len(Passes)

\* A temporary that is still to be read and whose register no call saves: it
\* was written while the register counted as its variable's, which ended there.
Unprotected(a) ==
    {t \in DOMAIN a.temps : LET temp == a.temps[t] IN
        /\ Contains(CallerRegs, temp.reg) /\ temp.reg \notin a.live
        /\ temp.live_start \in 0..a.ir_count - 1
        /\ temp.live_end \in a.ir_count..Len(a.ir)}

EmitCode ==
    /\ Emitting
    /\ jit.c.ir_count < Len(jit.c.ir)
    /\ LET a == AsmStep(jit.c) IN
       /\ jit' = [jit EXCEPT !.c = a]
       /\ excuses' = IF Unprotected(a) # {} THEN excuses \cup {"unprotected"} ELSE excuses
    /\ UNCHANGED vars /\ UNCHANGED <<vm, seen, opt, statics, compiled>>

FinishCode ==
    /\ Emitting
    /\ jit.c.ir_count = Len(jit.c.ir)
    /\ compiled' = (top.path :> jit.c.code) @@ compiled
    /\ jit' = Idle
    /\ UNCHANGED vars /\ UNCHANGED <<vm, seen, opt, statics, excuses>>

-----------------------------------------------------------------------------
(* The machine.                                                            *)

Running == Machine /\ ~Ended /\ ~Compiling /\ top.path \in DOMAIN compiled
mc == compiled[top.path]
op == mc[top.pc]
AtOp(ops) == Running /\ top.pc <= Len(mc) /\ op[1] \in ops
AtHelper(hs) == AtOp({"call"}) /\ op[2][1] \in hs
R(r) == top.regs[r]

\* The top frame becomes f.
Becomes(f) == frames' = [frames EXCEPT ![Len(frames)] = f]
Goes(f) == Becomes([f EXCEPT !.pc = @ + 1])
With(r, v) == [top EXCEPT !.regs[r] = v]
Rest == UNCHANGED given /\ UNCHANGED <<code, end>> /\ UNCHANGED backVars

Stop(kind) == Raise(kind) /\ UNCHANGED given /\ UNCHANGED backVars

\* What is wrong with these operands of an instruction that checks no tags.
Wrong(values, types) ==
    IF Junk \in values THEN "junk"
    ELSE IF \E v \in values : v[1] \notin types THEN "type" ELSE ""

MoveData ==
    /\ AtOp({"mov", "load", "store", "const", "movsp"})
    /\ Goes(CASE op[1] = "mov"   -> With(op[2], R(op[3]))
              [] op[1] = "const" -> With(op[2], op[3])
              [] op[1] = "movsp" -> With(op[2], <<"sp", Len(top.stack)>>)
              [] op[1] = "load"  ->
                    LET m == op[3] IN
                    With(op[2], CASE m[1] = "temp"  -> top.temps[m[2]]
                                  [] m[1] = "local" -> top.locals[m[2]]
                                  [] m[1] = "ref"   -> <<"reference", top.refs[m[2]]>>)
              [] op[1] = "store" ->
                    LET m == op[2] IN
                    IF m[1] = "local" THEN [top EXCEPT !.locals[m[2]] = R(op[3])]
                    ELSE [top EXCEPT !.temps = (m[2] :> R(op[3])) @@ @])
    /\ Rest /\ UNCHANGED heap

Calculate ==
    /\ AtOp({"alu", "compare", "neg", "not", "div"})
    /\ LET d == IF op[1] \in {"alu", "compare"} THEN op[3] ELSE IF op[1] = "div" THEN "rax" ELSE op[2]
           s == IF op[1] \in {"alu", "compare"} THEN op[4] ELSE op[2]
           types == CASE op[1] = "not" \/ (op[1] = "alu" /\ op[2] \in {"And", "Or"}) -> {"bool"}
                      [] op[1] = "compare" /\ op[2] = "FastEq" -> {"int", "bool"}
                      [] OTHER -> {"int"}
           err == Wrong({R(d), R(s)}, types)
           x == R(d)[2]
           y == R(s)[2]
       IN  IF err # "" THEN Stop(err)
           ELSE /\ Goes(CASE op[1] = "neg" -> With(d, Num(-x))
                          [] op[1] = "not" -> With(d, Bool(~x))
                          [] op[1] = "div" -> [With(d, Num(Quotient(x, y))) EXCEPT !.regs["rdx"] = Junk]
                          [] op[1] = "alu" -> With(d,
                                CASE op[2] = "IntAdd" -> Num(x + y)
                                  [] op[2] = "Sub" -> Num(x - y)
                                  [] op[2] = "Mul" -> Num(x * y)
                                  [] op[2] = "And" -> Bool(x /\ y)
                                  [] op[2] = "Or"  -> Bool(x \/ y))
                          [] op[1] = "compare" -> [With(s, Bool(TRUE)) EXCEPT !.regs[d] =
                                CASE op[2] = "Gt"  -> Bool(x > y)
                                  [] op[2] = "Geq" -> Bool(x >= y)
                                  [] op[2] = "FastEq" -> Bool(R(d) = R(s))])
                /\ Rest /\ UNCHANGED heap

\* A check of AssertInt, AssertBool or AssertNotZero and the helper that throws.
CheckTag ==
    /\ AtOp({"check"})
    /\ LET v == R(op[3])
           ok == CASE op[2] = "AssertInt"  -> IsInt(v)
                   [] op[2] = "AssertBool" -> IsBool(v)
                   [] op[2] = "AssertNotZero" -> v # Num(0)
       IN  IF v = Junk THEN Stop("junk")
           ELSE IF ok THEN Goes(top) /\ Rest /\ UNCHANGED heap
           ELSE Stop(IF op[2] = "AssertNotZero" THEN "arithmetic" ELSE "cast")

MoveStack ==
    /\ AtOp({"push", "pop", "popargs", "label"})
    /\ LET n == Len(top.stack) IN
       Goes(CASE op[1] = "push"  -> [top EXCEPT !.stack = Append(@, R(op[2]))]
              [] op[1] = "pop"   -> [With(op[2], Last(top.stack)) EXCEPT !.stack = Front(@)]
              [] op[1] = "popargs" -> [top EXCEPT !.stack = SubSeq(@, 1, n - op[2])]
              [] op[1] = "label" -> top)
    /\ Rest /\ UNCHANGED heap

\* Mutant: a jump goes to the first label.
LabelAtFirst(l) == CHOOSE k \in DOMAIN mc : mc[k][1] = "label" /\ \A j \in 1..k-1 : mc[j][1] # "label"

\* Where bind put a label.
LabelAt(l) == CHOOSE k \in DOMAIN mc : mc[k] = <<"label", l>>

\* "skip" is the branch on what will_garbage_collect answers.
Branch ==
    /\ AtOp({"jmp", "je", "skip"})
    /\ \/ /\ op[1] = "jmp"
          /\ Becomes([top EXCEPT !.pc = LabelAt(op[2])]) /\ Rest /\ UNCHANGED heap
       \/ /\ op[1] = "je"
          /\ LET err == Wrong({R(op[2])}, {"bool"}) IN
             IF err # "" THEN Stop(err)
             ELSE /\ Becomes([top EXCEPT !.pc = IF R(op[2])[2] THEN LabelAt(op[3]) ELSE @ + 1])
                  /\ Rest /\ UNCHANGED heap
       \/ /\ op[1] = "skip"
          /\ \E n \in {1, op[2]} : Becomes([top EXCEPT !.pc = @ + n])
          /\ Rest /\ UNCHANGED heap

-----------------------------------------------------------------------------
(* The helpers.  A call leaves its result in rax and nothing in the other  *)
(* registers the callee may use; the rest are kept, by the C++ frames in   *)
(* between when the callee is compiled code.                               *)

AfterCall(v) ==
    [top EXCEPT !.regs = [r \in DOMAIN @ |->
        IF r = "rax" THEN v ELSE IF Contains(caller_saved_regs, r) THEN Junk ELSE @[r]]]
Answers(v) == Goes(AfterCall(v))
A(k) == R(arg_regs[k])        \* an argument
what == op[2][2]

\* Reading a global that has no value enters one.
HelperVariables ==
    /\ AtHelper({"read_global", "write_global", "read_reference", "write_reference"})
    /\ LET h == op[2][1]
           x == IF h \in {"read_global", "write_global"} THEN fn.names[what] ELSE ""
           v == IF h = "write_global" THEN A(3) ELSE A(2)
           global == IF x \in DOMAIN global_variables THEN global_variables[x] ELSE None
       IN
       IF h \in {"write_global", "write_reference"} /\ v = Junk THEN Stop("junk")
       ELSE /\ Answers(CASE h = "read_global" -> global
                         [] h = "read_reference" -> cells[top.refs[what]].value
                         [] OTHER -> Junk)
            /\ global_variables' = CASE h = "read_global" -> (x :> global) @@ global_variables
                                     [] h = "write_global" -> (x :> v) @@ global_variables
                                     [] OTHER -> global_variables
            /\ cells' = IF h = "write_reference" THEN [cells EXCEPT ![top.refs[what]].value = v] ELSE cells
            /\ Rest /\ UNCHANGED <<closures, recs, out>>

HelperValues ==
    /\ AtHelper({"add", "equals"})
    /\ LET o   == IF op[2][1] = "add" THEN "+" ELSE "=="
           err == IF Junk \in {A(1), A(2)} THEN "junk" ELSE BinError(o, A(1), A(2))
       IN  IF err # "" THEN Stop(err)
           ELSE Answers(BinResult(o, A(1), A(2))) /\ Rest /\ UNCHANGED heap

HelperFunctions ==
    /\ AtHelper({"read_function", "convert_to_closure", "add_reference_to_closure"})
    /\ CASE op[2][1] = "read_function" ->
              /\ Answers(IF what = 0 THEN NativePrint ELSE <<"bare", Append(top.path, what)>>)
              /\ UNCHANGED closures
         [] op[2][1] = "convert_to_closure" ->
              /\ closures' = Append(closures, [path |-> A(1)[2], refs |-> <<>>])
              /\ Answers(<<"function", Len(closures) + 1>>)
         [] op[2][1] = "add_reference_to_closure" ->
              /\ closures' = [closures EXCEPT ![A(1)[2]].refs = Append(@, A(2)[2])]
              /\ Answers(A(1))
    /\ Rest /\ UNCHANGED <<cells, global_variables, recs, out>>

HelperRecords ==
    /\ AtHelper({"alloc_record", "field_load", "field_store", "index_load", "index_store"})
    /\ LET h   == op[2][1]
           field == h \in {"field_load", "field_store"}
           r   == IF field THEN A(2) ELSE A(1)
           key == IF field THEN Show(Lit(what)) ELSE Show(A(2))
           v   == IF field THEN A(4) ELSE A(3)
       IN
       CASE h = "alloc_record" ->
              /\ recs' = Append(recs, <<>>)
              /\ Answers(<<"record", Len(recs) + 1>>)
              /\ Rest /\ UNCHANGED <<cells, closures, global_variables, out>>
         [] OTHER ->
              IF r = Junk \/ (~field /\ A(2) = Junk) THEN Stop("junk")
              ELSE IF r[1] # "record" THEN Stop("cast")
              ELSE /\ recs' = IF h \in {"field_store", "index_store"}
                              THEN [recs EXCEPT ![r[2]] = (key :> v) @@ @] ELSE recs
                   /\ Answers(IF h \in {"field_load", "index_load"} /\ key \in DOMAIN recs[r[2]]
                              THEN recs[r[2]][key]
                              ELSE IF h \in {"field_load", "index_load"} THEN None ELSE Junk)
                   /\ Rest /\ UNCHANGED <<cells, closures, global_variables, out>>

\* Collections are the subject of VM: here they change nothing.
HelperCollect ==
    /\ AtHelper({"will_garbage_collect", "garbage_collect"})
    /\ Answers(Junk) /\ Rest /\ UNCHANGED heap

HelperThrow == AtHelper({"throw_uninitialized"}) /\ Stop("uninitialized")

HelperCall ==
    /\ AtHelper({"call_function"})
    /\ LET f    == A(1)
           args == [i \in 1..what |-> top.stack[A(2)[2] + 1 - i]]
           clo  == closures[f[2]]
       IN
       IF f = Junk \/ Junk \in Range(args) THEN Stop("junk")
       ELSE IF f = NativePrint
            THEN IF what # 1 THEN Stop("runtime")
                 ELSE /\ out' = Append(out, Show(args[1]))
                      /\ Answers(None)
                      /\ Rest /\ UNCHANGED <<cells, closures, global_variables, recs>>
       ELSE IF f[1] # "function" THEN Stop("cast")
       ELSE IF Len(Function(clo.path).params) # what THEN Stop("runtime")
       ELSE /\ cells' = cells \o NewCells(clo, args)
            /\ frames' = Append([frames EXCEPT ![Len(frames)] = [AfterCall(Junk) EXCEPT !.pc = @ + 1]],
                                Frame(clo.path, NewLocals(clo, args), NewRefs(clo)))
            /\ Rest /\ UNCHANGED <<closures, global_variables, recs, out>>

Ret ==
    /\ AtOp({"ret"})
    /\ LET n == Len(frames)
           v == R(op[2])
       IN  IF v = Junk THEN Stop("junk")
           ELSE /\ IF n = 1 THEN frames' = <<>> /\ end' = "ok"
                   ELSE /\ frames' = [Front(frames) EXCEPT ![n - 1].regs["rax"] = v]
                        /\ UNCHANGED end
                /\ UNCHANGED given /\ UNCHANGED code /\ UNCHANGED heap /\ UNCHANGED backVars

\* Behind the last instruction there is no ret.
RunOffTheEnd == Running /\ top.pc > Len(mc) /\ Stop("off the end")

Terminated == Machine /\ Ended /\ UNCHANGED allVars

BackEndNext ==
    \/ Interpret1 \/ Restart
    \/ CompileFunctionIR \/ OptimizePass \/ EmitCode \/ FinishCode
    \/ MoveData \/ Calculate \/ CheckTag \/ MoveStack \/ Branch \/ Ret \/ RunOffTheEnd
    \/ HelperVariables \/ HelperValues \/ HelperFunctions \/ HelperRecords
    \/ HelperCollect \/ HelperThrow \/ HelperCall
    \/ Terminated

\* Weak fairness of BackEndNext, which is enabled until the end: a process
\* that runs keeps executing instructions.
KeepsRunning == <>[](Machine /\ Ended) \/ []<><<TRUE>>_allVars

BackEndSpec == BackEndInit /\ [][BackEndNext]_allVars /\ KeepsRunning

-----------------------------------------------------------------------------
(* Why machine code may differ from the interpreter.                       *)

Finished == Machine /\ Ended

\* The VM throws where compiled code enters None as the global's value.
UnsetGlobal == vm.at = "LoadGlobal"

\* Operands, which have one set of hints, that held values of two types.
MixedTypes ==
    \E a, b \in seen : a[1] = b[1] /\ a[2] = b[2] /\ a[3] = b[3] /\ a[4] # b[4]

\* Where the bytecode may go from index i.
NextIn(bytecode, i) ==
    CASE bytecode[i][1] = "Goto" -> {i + bytecode[i][2]}
      [] bytecode[i][1] = "If" -> {i + 1, i + bytecode[i][2]}
      [] bytecode[i][1] = "Return" -> {}
      [] OTHER -> {i + 1} \cap DOMAIN bytecode
RECURSIVE ReachedWithout(_, _, _)
ReachedWithout(bytecode, i, known) ==
    LET more == known \cup (UNION {NextIn(bytecode, k) : k \in known} \ {i})
    IN  IF more = known THEN known ELSE ReachedWithout(bytecode, i, more)

\* A variable whose first access in the text, where its register is set or
\* loaded, is not on every way to the others.
PartlyAssignedIn(f) ==
    \E x \in Range(UsedVars(f)) \ Range(f.params) :
        LET uses  == {i \in DOMAIN f.code : f.code[i] \in {<<"LoadLocal", x>>, <<"StoreLocal", x>>}}
            first == CHOOSE i \in uses : \A k \in uses : i <= k
        IN  first # 1 /\ (uses \ {first}) \cap ReachedWithout(f.code, first, {1}) # {}
PartlyAssigned == \E p \in DOMAIN compiled : PartlyAssignedIn(Function(p))

\* x = {a: x}: the new record is put into the register of x before the
\* fields are evaluated.
RecordOfItself ==
    \E m \in Subnodes(program) :
        m[1] = "assign" /\ m[3][1] = "rec" /\ m[2] \in Subnodes(m[3])

\* Mistakes in the passes and the code of the functions that put something
\* else into a register that is still in use.
Clobbered == PartlyAssigned \/ excuses \cap {"torn", "cut short", "unprotected"} # {}

Explained == excuses # {} \/ MixedTypes \/ PartlyAssigned \/ RecordOfItself

\* A label's index in the bytecode, which the passes compare with indexes of
\* the IR, lies behind the label in the IR: instructions were removed.
LateLabel(c) == \E k \in DOMAIN c.ir : c.ir[k].op = "OutputLabel" /\ c.ir[k].of[1] > k - 1

-----------------------------------------------------------------------------
\* Three differences are there without any pass: compiled code gives a global
\* without a value the value None and goes on, it runs off the end of a
\* top-level function whose returns were not taken, and it checks both operands
\* of "&", "|" and "/" first, so that it has to stop where the interpreter left
\* out a check (vm).
Agrees ==
    \/ out = vm.out /\ end = vm.end
    \/ UnsetGlobal /\ IsPrefix(vm.out, out)
    \/ end = "off the end" /\ Returns(program) /\ out = vm.out

\* Code that no pass has touched prints what the interpreter loop prints and
\* ends the same way, whatever the helpers, the stack and the registers did in
\* between; at the first check the loop leaves out, it fails as it should.
PlainCodeAgrees == Finished /\ ~opt => Agrees

\* Nor do the passes change what a program does, but for the mistakes above.
OptimizedCodeAgrees == Finished /\ opt => Agrees \/ Explained

\* Machine code checks no tags and no registers: what it computes from bits
\* that are no value, or are a value of another type, is undefined.  Only the
\* passes lead there: to a value of another type by operands that share their
\* hints, to anything else by a register that was lost.
UndefinedIsExplained ==
    /\ end = "junk" => opt /\ Clobbered
    /\ end = "type" => opt /\ (Clobbered \/ MixedTypes)

\* Wherever code is joined, a collection may start or a function returns, the
\* stack is what it was on entry: on every path to this place each register a
\* call saved and each argument it pushed was popped.
StackIsBalanced ==
    AtOp({"label", "jmp", "je", "skip", "ret"}) => top.stack = <<>>

\* The assertions of alive and call_helper hold: no register is reserved while
\* it is live.  One exception: rax, for the zero test of a divisor that is in
\* a register.
ReservedOnce ==
    Emitting /\ jit.c.broken # {} =>
        opt /\ jit.c.broken = {"rax"} /\ \E k \in DOMAIN jit.c.ir : jit.c.ir[k].op = "Div"

\* DeadVariableAssignment takes out no store whose value is read later on some
\* path, unless instructions in front of a label were removed.
LiveStoresAreKept ==
    NextPass = "DeadVariableAssignment" /\ LostStores(jit.c) # {} => LateLabel(jit.c)

\* The live range RegisterAllocation goes by covers every place from which the
\* variable is read later, around loops too, with the same exception.
RangesCoverReads ==
    NextPass = "RegisterAllocation" /\ CutShort(jit.c) => LateLabel(jit.c)

\* Where the interpreter came to an end so does machine code, if no store that
\* the program needs was taken out.
MachineFinishes == Machine ~> (Ended \/ "lost store" \in excuses)

\* README.md, on type specialization: "Once we are certain of the type of a
\* Temp (it only has one option that has been hinted)".  An instruction that
\* checks no tags would then never meet a value of another type.
TypesAreCertain == end # "type"
=============================================================================
