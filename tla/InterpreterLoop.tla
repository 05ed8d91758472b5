--------------------------- MODULE InterpreterLoop ---------------------------
(***************************************************************************)
(* run_function, the interpreter loop of the VM, on compiled code: one     *)
(* instruction per step, with the values, calls and jumps of a program.    *)
(* The second part says which code is verified: code that has, for every   *)
(* index, one layout of the operand stack that all instructions agree on.  *)
(* Whatever code is verified, LoopSpec executes it as TypeOK and the       *)
(* properties after it say (BytecodeProofs); FrontEnd checks that what the *)
(* bytecode compiler emits is verified.                                    *)
(***************************************************************************)
EXTENDS MitScript

VARIABLES
    code,        \* the compiled top-level function
    frames,      \* the activations of run_function, the current one last
    cells,       \* ReferenceValues: the variable each one holds, and its value
    closures,    \* ClosureFunctionValues: the function and its references
    global_variables,
    recs,        \* RecordValues
    out,         \* what the VM printed
    end          \* how the VM ended; "running" before that

loop == <<code, frames, cells, closures, global_variables, recs, out, end>>
heap == <<cells, closures, global_variables, recs, out>>

-----------------------------------------------------------------------------
\* A function is named by the LoadFunc instructions that lead to it, from f.
FunctionFrom(f, path) ==
    LET at[n \in 0..Len(path)] == IF n = 0 THEN f ELSE at[n - 1].code[path[n]][2]
    IN  at[Len(path)]
Function(path) == FunctionFrom(code, path)

Activation(path, locals, refs) ==
    [path |-> path, ip |-> 1, locals |-> locals, refs |-> refs, stack |-> <<>>]

top == Last(frames)
fn  == Function(top.path)
ins == fn.code[top.ip]
S   == top.stack
Depth == Len(S)
Arg(k) == S[Depth - k]           \* k values below the top of the stack
Under(k) == SubSeq(S, 1, Depth - k)

Executing(ops) == /\ end = "running"
                  /\ top.ip <= Len(fn.code)
                  /\ ins[1] \in ops

\* The instruction leaves stack s and goes on at ip.
ContinueAt(s, ip) ==
    frames' = [frames EXCEPT ![Len(frames)] = [top EXCEPT !.stack = s, !.ip = ip]]
Continue(s) == ContinueAt(s, top.ip + 1)
Going == UNCHANGED <<code, end>>

\* An exception ends the program whatever is on the stack of calls.
Raise(kind) == /\ end' = kind
               /\ UNCHANGED <<code, frames>>
               /\ UNCHANGED heap

-----------------------------------------------------------------------------
\* vm.cpp up to the call of the top-level function.
Start == /\ frames = << Activation(<<>>, <<>>, <<>>) >>
         /\ cells = <<>> /\ closures = <<>> /\ recs = <<>> /\ out = <<>>
         /\ global_variables = <<>>
         /\ end = "running"

Load ==
    /\ Executing({"LoadConst", "LoadLocal", "LoadReference"})
    /\ Continue(Append(S, CASE ins[1] = "LoadConst" -> ins[2]
                            [] ins[1] = "LoadLocal" -> top.locals[ins[2]]
                            [] ins[1] = "LoadReference" -> cells[top.refs[ins[2]]].value))
    /\ Going /\ UNCHANGED heap

LoadFunc ==
    /\ Executing({"LoadFunc", "LoadNative"})
    /\ Continue(Append(S, IF ins[1] = "LoadNative" THEN NativePrint
                          ELSE <<"bare", Append(top.path, top.ip)>>))
    /\ Going /\ UNCHANGED heap

LoadGlobal ==
    /\ Executing({"LoadGlobal"})
    /\ IF ins[2] \in DOMAIN global_variables
       THEN Continue(Append(S, global_variables[ins[2]])) /\ Going /\ UNCHANGED heap
       ELSE Raise("uninitialized")

\* Map m with the value v for the key x.
Entered(m, x, v) == [y \in DOMAIN m \cup {x} |-> IF y = x THEN v ELSE m[y]]

Store ==
    /\ Executing({"StoreLocal", "StoreReference", "StoreGlobal"})
    /\ LET f == [top EXCEPT !.stack = Under(1), !.ip = top.ip + 1] IN
       /\ frames' = [frames EXCEPT ![Len(frames)] =
              IF ins[1] = "StoreLocal" THEN [f EXCEPT !.locals[ins[2]] = Arg(0)] ELSE f]
       /\ cells' = IF ins[1] = "StoreReference"
                   THEN [cells EXCEPT ![top.refs[ins[2]]].value = Arg(0)] ELSE cells
       /\ global_variables' = IF ins[1] = "StoreGlobal"
                   THEN Entered(global_variables, ins[2], Arg(0)) ELSE global_variables
    /\ Going /\ UNCHANGED <<closures, recs, out>>

PushReference ==
    /\ Executing({"PushReference"})
    /\ Continue(Append(S, <<"reference", top.refs[ins[2]]>>))
    /\ Going /\ UNCHANGED heap

AllocClosure ==
    /\ Executing({"AllocClosure"})
    /\ closures' = Append(closures,
           [path |-> Arg(0)[2], refs |-> [i \in 1..ins[2] |-> Arg(i)[2]]])
    /\ Continue(Append(Under(ins[2] + 1), <<"function", Len(closures) + 1>>))
    /\ Going /\ UNCHANGED <<cells, global_variables, recs, out>>

\* ClosureFunctionValue::call: a cell for every captured variable, then the
\* arguments, each in its cell or in its local variable.
ArgumentOf(f, args, x) == IF Contains(f.params, x) THEN args[IndexIn(f.params, x)] ELSE None
InCell(f, x) == \E i \in DOMAIN f.params : f.params[i] = x /\ f.arg_mapping[i] # 0

NewCells(clo, args) ==
    LET f   == Function(clo.path)
        own == f.local_reference_vars
    IN  [i \in DOMAIN own |->
            [name |-> own[i], path |-> clo.path,
             value |-> IF InCell(f, own[i]) THEN ArgumentOf(f, args, own[i]) ELSE None]]

NewLocals(clo, args) ==
    LET f == Function(clo.path)
    IN  [x \in f.local_vars |-> IF InCell(f, x) THEN None ELSE ArgumentOf(f, args, x)]

\* Mutant: the references of the closure are forgotten.
NewRefsAlone(clo) ==
    [i \in DOMAIN Function(clo.path).local_reference_vars |-> Len(cells) + i]

NewRefs(clo) ==
    LET f == Function(clo.path)
    IN  [i \in DOMAIN f.local_reference_vars |-> Len(cells) + i]
        \o SubSeq(clo.refs, 1, Len(f.free_vars))

Enter(clo, args) ==
    /\ cells' = cells \o NewCells(clo, args)
    /\ frames' = Append(
          [frames EXCEPT ![Len(frames)] =
              [top EXCEPT !.stack = Under(ins[2] + 1), !.ip = top.ip + 1]],
          Activation(clo.path, NewLocals(clo, args), NewRefs(clo)))

CallFunction ==
    /\ Executing({"Call"})
    /\ Arg(0)[1] = "function"
    /\ LET clo  == closures[Arg(0)[2]]
           args == [i \in 1..ins[2] |-> Arg(ins[2] + 1 - i)]
       IN  IF Len(Function(clo.path).params) # ins[2] THEN Raise("runtime")
           ELSE Enter(clo, args) /\ Going /\ UNCHANGED <<closures, global_variables, recs, out>>

CallNative ==
    /\ Executing({"Call"})
    /\ Arg(0)[1] # "function"
    /\ IF Arg(0) # NativePrint THEN Raise("cast")
       ELSE IF ins[2] # 1 THEN Raise("runtime")
       ELSE /\ out' = Append(out, Show(Arg(1)))
            /\ Continue(Append(Under(2), None))
            /\ Going /\ UNCHANGED <<cells, closures, global_variables, recs>>

\* Return, and running off the end of the code.
Leave ==
    /\ end = "running"
    /\ top.ip <= Len(fn.code) => ins[1] = "Return"
    /\ LET v == IF top.ip <= Len(fn.code) THEN Arg(0) ELSE None
           n == Len(frames)
       IN  IF n = 1 THEN frames' = <<>> /\ end' = "ok"
           ELSE /\ frames' = [Front(frames) EXCEPT ![n - 1].stack = Append(@, v)]
                /\ UNCHANGED end
    /\ UNCHANGED code /\ UNCHANGED heap

\* The operators of run_function.  && and || look at their right operand only
\* when the left one does not decide, and a divisor is compared with zero
\* before the dividend is looked at.
Decides(op, l) == op \in {"&", "|"} /\ IsBool(l) /\ l[2] = (op = "|")

BinResult(op, l, r) ==
    CASE op = "+" /\ (IsStr(l) \/ IsStr(r)) -> <<"str", Show(l) \o Show(r)>>
      [] op = "==" -> Bool(l = r)
      [] op \in {"&", "|"} -> IF Decides(op, l) THEN l ELSE r
      [] OTHER -> IntOp(op, l[2], r[2])

BinError(op, l, r) ==
    CASE op = "==" -> ""
      [] op = "+" /\ (IsStr(l) \/ IsStr(r)) -> ""
      [] op = "/" /\ r = Num(0) -> "arithmetic"
      [] op \in {"&", "|"} ->
            IF Decides(op, l) \/ (IsBool(l) /\ IsBool(r)) THEN "" ELSE "cast"
      [] OTHER -> IF IsInt(l) /\ IsInt(r) THEN "" ELSE "cast"

Binary ==
    /\ Executing({"Bin"})
    /\ LET err == BinError(ins[2], Arg(1), Arg(0)) IN
       IF err # "" THEN Raise(err)
       ELSE /\ Continue(Append(Under(2), BinResult(ins[2], Arg(1), Arg(0))))
            /\ Going /\ UNCHANGED heap

Unary ==
    /\ Executing({"Un"})
    /\ IF Arg(0)[1] # (IF ins[2] = "!" THEN "bool" ELSE "int") THEN Raise("cast")
       ELSE /\ Continue(Append(Under(1),
                   IF ins[2] = "!" THEN Bool(~Arg(0)[2]) ELSE Num(-Arg(0)[2])))
            /\ Going /\ UNCHANGED heap

Jump ==
    /\ Executing({"Goto", "If"})
    /\ CASE ins[1] = "Goto" -> ContinueAt(S, top.ip + ins[2]) /\ Going /\ UNCHANGED heap
         [] ins[1] = "If" /\ ~IsBool(Arg(0)) -> Raise("cast")
         [] ins[1] = "If" /\ IsBool(Arg(0)) ->
              /\ ContinueAt(Under(1), IF Arg(0)[2] THEN top.ip + ins[2] ELSE top.ip + 1)
              /\ Going /\ UNCHANGED heap

StackShuffle ==
    /\ Executing({"Dup", "Swap", "Pop", "Label", "GarbageCollect"})
    /\ Continue(CASE ins[1] = "Dup"  -> Append(S, Arg(0))
                  [] ins[1] = "Swap" -> Under(2) \o <<Arg(0), Arg(1)>>
                  [] ins[1] = "Pop"  -> Under(1)
                  [] OTHER -> S)
    /\ Going /\ UNCHANGED heap

AllocRecord ==
    /\ Executing({"AllocRecord"})
    /\ recs' = Append(recs, <<>>)
    /\ Continue(Append(S, <<"record", Len(recs) + 1>>))
    /\ Going /\ UNCHANGED <<cells, closures, global_variables, out>>

\* FieldLoad and IndexLoad; the key of the latter is its value's string.
RecordLoad ==
    /\ Executing({"FieldLoad", "IndexLoad"})
    /\ LET n   == IF ins[1] = "FieldLoad" THEN 0 ELSE 1
           key == IF n = 0 THEN Show(Lit(ins[2])) ELSE Show(Arg(0))
           r   == Arg(n)
       IN  IF r[1] # "record" THEN Raise("cast")
           ELSE /\ Continue(Append(Under(n + 1),
                       IF key \in DOMAIN recs[r[2]] THEN recs[r[2]][key] ELSE None))
                /\ Going /\ UNCHANGED heap

RecordStore ==
    /\ Executing({"FieldStore", "IndexStore"})
    /\ LET n   == IF ins[1] = "FieldStore" THEN 1 ELSE 2
           key == IF n = 1 THEN Show(Lit(ins[2])) ELSE Show(Arg(1))
           r   == Arg(n)
       IN  IF r[1] # "record" THEN Raise("cast")
           ELSE /\ recs' = [recs EXCEPT ![r[2]] = Entered(recs[r[2]], key, Arg(0))]
                /\ Continue(Under(n + 1))
                /\ Going /\ UNCHANGED <<cells, closures, global_variables, out>>

ThrowUninitialized == Executing({"ThrowUninitialized"}) /\ Raise("uninitialized")

Execute ==
        \/ Load \/ LoadFunc \/ LoadGlobal \/ Store \/ PushReference \/ AllocClosure
        \/ CallFunction \/ CallNative \/ Leave \/ Binary \/ Unary \/ Jump \/ StackShuffle
        \/ AllocRecord \/ RecordLoad \/ RecordStore \/ ThrowUninitialized

-----------------------------------------------------------------------------
(* Verified code.  A layout gives, for a function and an index, the slots  *)
(* of the operand stack: a value, the bare function the LoadFunc at some   *)
(* index pushed, or a reference to a variable.                             *)

ValueSlot        == <<"value">>
BareSlot(i)      == <<"bare", i>>
ReferenceSlot(x) == <<"reference", x>>

\* local_reference_vars: the activation's own references, then those of its closure.
RefNames(f) == f.local_reference_vars \o f.free_vars

OperandCount(i) ==
    CASE i[1] \in {"LoadConst", "LoadLocal", "LoadReference", "LoadGlobal", "LoadFunc",
                   "LoadNative", "PushReference", "AllocRecord", "Label", "GarbageCollect",
                   "Goto", "ThrowUninitialized"} -> 0
      [] i[1] \in {"StoreLocal", "StoreReference", "StoreGlobal", "Un", "If", "FieldLoad",
                   "Dup", "Pop", "Return"} -> 1
      [] i[1] \in {"Bin", "IndexLoad", "FieldStore", "Swap"} -> 2
      [] i[1] = "IndexStore" -> 3
      [] i[1] \in {"Call", "AllocClosure"} -> i[2] + 1

\* The slots after the instruction at index i of f, where they were s before it.
SlotsAfter(f, i, s) ==
    LET op   == f.code[i][1]
        rest == SubSeq(s, 1, Len(s) - OperandCount(f.code[i]))
    IN  CASE op \in {"LoadConst", "LoadLocal", "LoadReference", "LoadGlobal", "LoadNative",
                     "AllocRecord", "Un", "Bin", "FieldLoad", "IndexLoad", "Call",
                     "AllocClosure"} -> Append(rest, ValueSlot)
          [] op = "LoadFunc" -> Append(rest, BareSlot(i))
          [] op = "PushReference" -> Append(rest, ReferenceSlot(RefNames(f)[f.code[i][2]]))
          [] op = "Dup"  -> Append(s, ValueSlot)
          [] op = "Swap" -> s
          [] OTHER -> rest

\* The operands on the stack are values; those of AllocClosure are a bare
\* function and a reference to each of its free variables, the first on top.
OperandsFit(f, i, s) ==
    LET n == OperandCount(f.code[i]) IN
    /\ n <= Len(s)
    /\ f.code[i][1] # "AllocClosure" => \A k \in 0..n - 1 : s[Len(s) - k] = ValueSlot
    /\ f.code[i][1] = "AllocClosure" =>
          \E j \in DOMAIN f.code :
             /\ f.code[j][1] = "LoadFunc" /\ s[Len(s)] = BareSlot(j)
             /\ LET free == f.code[j][2].free_vars IN
                /\ f.code[i][2] = Len(free)
                /\ \A k \in 1..Len(free) : s[Len(s) - k] = ReferenceSlot(free[k])

\* The operand in the instruction names something the function has.
OperandKnown(f, i) ==
    LET op == f.code[i][1] IN
    /\ op = "LoadConst" => f.code[i][2][1] \in {"none", "int", "bool", "str"}
    /\ op \in {"LoadLocal", "StoreLocal"} => f.code[i][2] \in f.local_vars
    /\ op \in {"LoadReference", "StoreReference", "PushReference"} =>
          f.code[i][2] \in DOMAIN RefNames(f)
    /\ op \in {"Call", "AllocClosure"} => f.code[i][2] \in Nat
    /\ op \in {"Goto", "If"} => f.code[i][2] \in Int
    /\ op = "Bin" => f.code[i][2] \in {"+", "==", "&", "|"} \cup IntOps

\* Where the loop may go from index i.
Targets(f, i) ==
    CASE f.code[i][1] = "Goto" -> {i + f.code[i][2]}
      [] f.code[i][1] = "If"   -> {i + 1, i + f.code[i][2]}
      [] f.code[i][1] \in {"Return", "ThrowUninitialized"} -> {}
      [] OTHER -> {i + 1}

IsSequence(s) == s \in Seq(Range(s))

\* Stacks are laid out as slots says, whatever path leads to an index.
SlotsAgree(f, slots) ==
    /\ slots[1] = <<>>
    /\ \A i \in 1..Len(f.code) + 1 : IsSequence(slots[i])
    /\ \A i \in DOMAIN f.code :
          /\ OperandsFit(f, i, slots[i])
          /\ OperandKnown(f, i)
          /\ f.code[i][1] \in {"Label", "GarbageCollect"} => slots[i] = <<>>
          /\ f.code[i][1] = "Return" => Len(slots[i]) = 1
          /\ \A j \in Targets(f, i) :
                j \in 1..Len(f.code) + 1 /\ slots[j] = SlotsAfter(f, i, slots[i])

\* Variables are kept where the function says.
ScopeAgrees(f) ==
    /\ \A s \in {f.params, f.code, f.local_reference_vars, f.free_vars} : IsSequence(s)
    /\ Range(f.local_reference_vars) \subseteq f.local_vars

\* layout is defined on the functions of the program, and each agrees with it.
Verified(layout) ==
    /\ code \in DOMAIN layout
    /\ code.local_vars = {} /\ RefNames(code) = <<>>
    /\ \A f \in DOMAIN layout :
          /\ ScopeAgrees(f)
          /\ SlotsAgree(f, layout[f])
          /\ \A i \in DOMAIN f.code : f.code[i][1] = "LoadFunc" => f.code[i][2] \in DOMAIN layout

LoopSpec == (\E layout : Verified(layout)) /\ Start /\ [][Execute]_loop

-----------------------------------------------------------------------------
Ended == end # "running"
AtInstruction == end = "running" /\ top.ip <= Len(fn.code)

\* A closure or a record that exists, or no object at all; bare functions and
\* references are on operand stacks only.
Valid(v) ==
    /\ v[1] \in {"none", "int", "bool", "str", "native", "function", "record"}
    /\ v[1] = "function" => v[2] \in DOMAIN closures
    /\ v[1] = "record"   => v[2] \in DOMAIN recs

\* What the machine works on: every activation has a value for each local
\* variable of its function and a reference for each captured one, its own
\* first (run_function indexes both without a check); variables and records
\* hold values; and every instruction finds its operands, so safe_pop throws
\* no InsufficentStackException.
TypeOK ==
    /\ end \in {"running", "ok", "uninitialized", "cast", "runtime", "arithmetic"}
    /\ \A i \in DOMAIN frames :
          LET f == Function(frames[i].path) IN
          /\ frames[i].ip \in 1..Len(f.code) + 1
          /\ DOMAIN frames[i].locals = f.local_vars
          /\ Len(frames[i].refs) = Len(f.local_reference_vars) + Len(f.free_vars)
          /\ Range(frames[i].refs) \subseteq DOMAIN cells
          /\ \A x \in f.local_vars : Valid(frames[i].locals[x])
    /\ \A r \in DOMAIN cells : Valid(cells[r].value)
    /\ \A x \in DOMAIN global_variables : Valid(global_variables[x])
    /\ \A r \in DOMAIN recs : \A k \in DOMAIN recs[r] : Valid(recs[r][k])
    /\ AtInstruction => OperandCount(ins) <= Depth

\* Every statement leaves the operand stack as it found it, so the stack is
\* empty wherever code is joined and wherever a collection starts, and a
\* return has its value and nothing below it, whatever path led there.
StatementsLeaveNothing ==
    AtInstruction =>
        /\ ins[1] \in {"Label", "GarbageCollect"} => S = <<>>
        /\ ins[1] = "Return" => Depth = 1

\* Types.h, free_vars_: "List of the names of non-global and non-local
\* variables accessed by the function"; so it is for the functions along path.
ScopesDisjoint(path) ==
    \A m \in 0..Len(path) :
        LET f == Function(SubSeq(path, 1, m)) IN Range(f.free_vars) \cap f.local_vars = {}

\* AllocClosure pops one reference per free variable of the function, in the
\* order of free_vars_, and each refers to the variable of that name in the
\* nearest function around that has one.
CapturesAreLexical ==
    \A i \in DOMAIN closures :
        LET c == closures[i]
            f == Function(c.path)
            declares(k, x) == x \in Function(SubSeq(c.path, 1, k)).local_vars
        IN  ScopesDisjoint(c.path) =>
            /\ Len(c.refs) = Len(f.free_vars)
            /\ \A j \in DOMAIN c.refs :
                  LET cell == cells[c.refs[j]]
                      k    == Len(cell.path)
                  IN  /\ cell.name = f.free_vars[j]
                      /\ cell.path = SubSeq(c.path, 1, k)
                      /\ k < Len(c.path)
                      /\ declares(k, cell.name)
                      /\ \A m \in k+1..Len(c.path) : ~declares(m, cell.name)
=============================================================================
