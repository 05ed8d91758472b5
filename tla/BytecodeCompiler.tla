-------------------------- MODULE BytecodeCompiler --------------------------
(***************************************************************************)
(* The bytecode compiler (bccompiler/): the scanners that decide where     *)
(* each variable of a function lives, and the visitor that emits code.     *)
(*                                                                         *)
(* c is the list of FunctionLinkedList nodes, the root first and the       *)
(* function being compiled last; compiling a node yields its instructions. *)
(* An instruction is a tuple <<operation, operand>>: locals, globals and   *)
(* fields are operands by name, references by index; a label is given as   *)
(* the distance to its Label instruction, which is what func.labels holds  *)
(* once the function is laid out; LoadFunc holds the function itself; a    *)
(* LoadFunc of a negative index is LoadNative.                             *)
(***************************************************************************)
EXTENDS Scopes, TLC

-----------------------------------------------------------------------------
(* The scanners.                                                           *)

RECURSIVE GlobalsOf(_), LocalsOf(_, _), NamesInOrder(_), Refs(_, _, _)

BelowIn(Op(_), n) == UNION {Op(Children(n)[i]) : i \in DOMAIN Children(n)}

\* CompilerGlobalsScanner
GlobalsOf(n) ==
    CASE n[1] = "global" -> {n[2]}
      [] n[1] = "fun"    -> {}
      [] OTHER           -> BelowIn(GlobalsOf, n)

\* CompilerLocalsScanner.  The right-hand side of an assignment is not looked
\* at, but a function anywhere else is: its assignments count as well.
LocalsOf(n, globals) ==
    IF n[1] = "assign" THEN IF IsName(n[2]) THEN {n[2][2]} \ globals ELSE {}
    ELSE UNION {LocalsOf(Children(n)[i], globals) : i \in DOMAIN Children(n)}

\* CompilerDependenciesScanner looks at these names, assigned or read.
NamesInOrder(n) ==
    CASE n[1] = "name" -> <<n[2]>>
      [] n[1] = "fun"  -> <<>>
      [] OTHER -> FlattenSeq([i \in DOMAIN Children(n) |-> NamesInOrder(Children(n)[i])])
NamesOf(n) == Range(NamesInOrder(n))

\* CompilerRefsScanner: sc.refs collects the needles that are read while the
\* innermost function (sc.ignore is the top of the stack of ignored names)
\* has not assigned or declared them so far.
Refs(n, needles, sc) ==
    LET all(s, nodes) == FoldLeft(LAMBDA a, m : Refs(m, needles, a), s, nodes) IN
    CASE n[1] = "name" ->
            IF n[2] \in needles \ sc.ignore THEN [sc EXCEPT !.refs = @ \cup {n[2]}] ELSE sc
      [] n[1] = "global" -> [sc EXCEPT !.ignore = @ \cup {n[2]}]
      [] n[1] = "assign" /\ IsName(n[2]) ->
            Refs(n[3], needles, [sc EXCEPT !.ignore = @ \cup {n[2][2]}])
      [] n[1] = "fun" ->
            [sc EXCEPT !.refs = Refs(n[3], needles, [sc EXCEPT !.ignore = Range(n[2])]).refs]
      [] OTHER -> all(sc, Children(n))

\* Search the descendants of a function for its own variables.
OwnRefs(body, vars) == Refs(body, vars, [ignore |-> vars, refs |-> {}]).refs
\* Search a function and its descendants for variables of the function around it.
OuterRefs(body, ref0s, locals, globals) ==
    Refs(body, ref0s \ (locals \cup globals), [ignore |-> {}, refs |-> {}]).refs

-----------------------------------------------------------------------------
(* The nodes of the list.                                                  *)

NewNode(params) ==
    [params |-> params, local_vars |-> Range(params), local_reference_vars |-> <<>>,
     free_vars |-> <<>>, free_reference_vars |-> {}, globals |-> {}, names |-> <<>>,
     storing |-> "", arg_mapping |-> <<>>, fromLocals |-> <<>>, fromFree |-> <<>>, code |-> <<>>]

IsGlobal(c) == Len(c) = 1

Dedup(seq) == FoldLeft(LAMBDA s, x : IF Contains(s, x) THEN s ELSE Append(s, x), <<>>, seq)

\* Mutant: the variable being assigned at the top level is not known yet.
DependenciesWithoutStoring(names, c) ==
    {x \in names : \E i \in DOMAIN c : x \in c[i].globals}

\* CompilerDependenciesScanner: the names that are globals because a function
\* around takes them for one, or because the top level is assigning them.
Dependencies(names, c) ==
    {x \in names : (\E i \in DOMAIN c : x \in c[i].globals) \/ x = c[1].storing}

\* The node of function fn, defined where c is the list: what the scanners
\* find in its body before the body is compiled.
FunctionNode(fn, c) ==
    LET body    == fn[3]
        P       == Last(c)
        globals == GlobalsOf(body)
        locals  == LocalsOf(body, globals)
        vars_   == Range(fn[2]) \cup locals
        fromLocals == Sorted(OuterRefs(body, Range(P.local_reference_vars), locals, globals))
        fromFree   == Sorted(OuterRefs(body, P.free_reference_vars, locals, globals))
        free    == Dedup(fromLocals \o fromFree)
        refs    == Sorted(OwnRefs(body, vars_))
        depends == Dependencies(NamesOf(body) \ (Range(free) \cup vars_ \cup globals), c)
    IN  [NewNode(fn[2]) EXCEPT
            !.globals = globals \cup depends,
            !.names = Dedup(Sorted(globals)
                \o SelectSeq(NamesInOrder(body), LAMBDA x : x \in depends)),
            !.local_vars = vars_,
            !.local_reference_vars = refs,
            !.free_vars = free,
            !.free_reference_vars = OwnRefs(body, Range(free)),
            !.arg_mapping = [i \in DOMAIN fn[2] |->
                IF Contains(refs, fn[2][i]) THEN IndexIn(refs, fn[2][i]) ELSE 0],
            !.fromLocals = fromLocals,
            !.fromFree = fromFree]

\* Mutant: the references are pushed forwards.
CapturesReversed(node, P) ==
    Reverse([i \in DOMAIN node.fromLocals |-> IndexIn(P.local_reference_vars, node.fromLocals[i])]
    \o [i \in DOMAIN node.fromFree |->
            Len(P.local_reference_vars) + IndexIn(P.free_vars, node.fromFree[i])])

\* Mutant: references of the closure are counted as the activation's own.
CapturesOwnFirst(node, P) ==
    [i \in DOMAIN node.fromLocals |-> IndexIn(P.local_reference_vars, node.fromLocals[i])]
    \o [i \in DOMAIN node.fromFree |-> IndexIn(P.free_vars, node.fromFree[i])]

\* The references that go into a closure, in the order AllocClosure pops them.
Captures(node, P) ==
    [i \in DOMAIN node.fromLocals |-> IndexIn(P.local_reference_vars, node.fromLocals[i])]
    \o [i \in DOMAIN node.fromFree |->
            Len(P.local_reference_vars) + IndexIn(P.free_vars, node.fromFree[i])]

ConstantZero == <<"constant 0">>    \* constants_[0], whatever that is

\* visit(Name): globals first, then captured variables of the functions
\* around, then captured and plain variables of the function itself.
CompileName(x, storing, c) ==
    LET f == Last(c)
        refs == f.local_reference_vars
        access(load, store, place) == << <<IF storing THEN store ELSE load, place>> >>
    IN  IF x \in f.globals THEN access("LoadGlobal", "StoreGlobal", x)
        ELSE IF Contains(f.free_vars, x)
             THEN access("LoadReference", "StoreReference", Len(refs) + IndexIn(f.free_vars, x))
        ELSE IF Contains(refs, x)
             THEN access("LoadReference", "StoreReference", IndexIn(refs, x))
        ELSE IF x \in f.local_vars THEN access("LoadLocal", "StoreLocal", x)
        ELSE IF storing /\ IsGlobal(c) THEN << <<"StoreGlobal", x>> >>
        ELSE << IF storing THEN <<"Pop">> ELSE <<"LoadConst", ConstantZero>>, <<"ThrowUninitialized", x>> >>

\* A name stored at the top level is a global from then on.
After(n, c) == IF IsGlobal(c) THEN [c EXCEPT ![1].globals = @ \cup AssignedNames(n)] ELSE c

\* "<" and "<=" are ">" and ">=" of the operands in the other order.
BinOperation(op) == CASE op = "<" -> ">" [] op = "<=" -> ">=" [] OTHER -> op
OperandsInOrder(n) == <<n[3], n[4]>>      \* a mutant
Operands(n) == IF n[2] \in {"<", "<="} THEN <<n[4], n[3]>> ELSE <<n[3], n[4]>>

\* If and while, from the code of their parts.
IfCode(cond, then, else) ==
    cond \o << <<"If", 2>>, <<"Goto", Len(then) + 3>>, <<"Label">> >>
    \o then \o << <<"Goto", Len(else) + 2>>, <<"Label">> >>
    \o else \o << <<"Label">> >>

\* Mutant: the jump out of the loop goes back to the condition.
WhileCodeNoExit(cond, body) ==
    << <<"Label">>, <<"GarbageCollect">> >>
    \o cond \o << <<"If", 2>>, <<"Goto", -(Len(cond) + 3)>>, <<"Label">> >>
    \o body \o << <<"Goto", -(Len(body) + Len(cond) + 5)>>, <<"Label">> >>

WhileCode(cond, body) ==
    << <<"Label">>, <<"GarbageCollect">> >>
    \o cond \o << <<"If", 2>>, <<"Goto", Len(body) + 3>>, <<"Label">> >>
    \o body \o << <<"Goto", -(Len(body) + Len(cond) + 5)>>, <<"Label">> >>

\* Mutant: the result of the call stays on the stack.
CallStatementCodeNoPop(call) == call \o << <<"GarbageCollect">> >>

\* visit(CallStatement)
CallStatementCode(call) == call \o << <<"Pop">>, <<"GarbageCollect">> >>

RECURSIVE Transpile(_, _, _), CompileBlock(_, _)

CompileBlock(stmts, c) ==
    IF stmts = <<>> THEN <<>>
    ELSE Transpile(Head(stmts), FALSE, c) \o CompileBlock(Tail(stmts), After(Head(stmts), c))

\* The first constant that code mentions is constants_[0]: every function has
\* one, and so has every top level but one that has a return and no constant.
WithConstants(code) ==
    LET zero  == <<"LoadConst", ConstantZero>>
        loads == SelectSeq(code, LAMBDA i : i[1] = "LoadConst" /\ i # zero)
    IN  [k \in DOMAIN code |-> IF code[k] = zero THEN loads[1] ELSE code[k]]

CompileFunction(fn, c) ==
    LET node == FunctionNode(fn, c)
        body == Transpile(fn[3], FALSE, Append(c, node))
        refs == Captures(node, Last(c))
    IN  Reverse([i \in DOMAIN refs |-> <<"PushReference", refs[i]>>])
        \o << <<"LoadFunc",
                [node EXCEPT !.code = WithConstants(body \o << <<"LoadConst", None>>, <<"Return">> >>)]>>,
              <<"AllocClosure", Len(refs)>> >>

Transpile(n, storing, c) ==
    LET T(m) == Transpile(m, FALSE, c)
        all(nodes) == FlattenSeq([i \in DOMAIN nodes |-> T(nodes[i])])
    IN
    CASE n[1] = "block"  -> CompileBlock(n[2], c)
      [] n[1] = "name"   -> CompileName(n[2], storing, c)
      [] n[1] = "const"  -> << <<"LoadConst", n[2]>> >>
      [] n[1] = "index"  ->
            IF storing
            THEN T(n[2]) \o << <<"Swap">> >> \o T(n[3]) \o << <<"Swap">>, <<"IndexStore">> >>
            ELSE T(n[2]) \o T(n[3]) \o << <<"IndexLoad">> >>
      [] n[1] = "field"  ->
            T(n[2]) \o IF storing THEN << <<"Swap">>, <<"FieldStore", n[3]>> >>
                                  ELSE << <<"FieldLoad", n[3]>> >>
      [] n[1] = "assign" ->
            LET told == IF IsName(n[2]) THEN [c EXCEPT ![Len(c)].storing = n[2][2]] ELSE c
            IN  Transpile(n[3], FALSE, told) \o Transpile(n[2], TRUE, c)
      [] n[1] = "call"   -> all(n[3]) \o T(n[2]) \o << <<"Call", Len(n[3])>> >>
      [] n[1] = "do"     -> CallStatementCode(T(n[2]))
      [] n[1] = "global" -> <<>>
      [] n[1] = "if"     -> IfCode(T(n[2]), T(n[3]), Transpile(n[4], FALSE, After(n[3], c)))
      [] n[1] = "while"  -> WhileCode(T(n[2]), T(n[3]))
      [] n[1] = "return" -> T(n[2]) \o << <<"Return">> >>
      [] n[1] = "fun"    -> CompileFunction(n, c)
      [] n[1] = "rec"    ->
            << <<"AllocRecord">> >> \o FlattenSeq([i \in DOMAIN n[2] |->
                << <<"Dup">> >> \o T(n[2][i][2]) \o << <<"FieldStore", n[2][i][1]>> >>])
      [] n[1] = "bin"    -> all(Operands(n)) \o << <<"Bin", BinOperation(n[2])>> >>
      [] n[1] = "un"     -> T(n[3]) \o << <<"Un", n[2]>> >>

\* The statements of the function n is in contain a return.
RECURSIVE Returns(_)
Returns(n) == \/ n[1] = "return"
              \/ /\ n[1] \in {"block", "if", "while"}
                 /\ \E i \in DOMAIN Children(n) : Returns(Children(n)[i])

\* The names the top-level code mentions, in the order they enter names_.
NamesInCode(code) ==
    LET named == SelectSeq(code, LAMBDA i : i[1] \in
            {"LoadGlobal", "StoreGlobal", "FieldLoad", "FieldStore", "ThrowUninitialized"})
    IN  Dedup(<<"print", "input", "intcast">> \o [i \in DOMAIN named |-> named[i][2]])

\* visit(Program), after the constructor stored the natives in globals.  No
\* return is added when there is one anywhere at the top level.
Compile(program) ==
    LET root == [NewNode(<<>>) EXCEPT !.globals = {"print"}]
        code == Transpile(program, FALSE, <<root>>)
    IN  [root EXCEPT
            !.names = NamesInCode(code),
            !.code = WithConstants(
                << <<"LoadNative">>, <<"StoreGlobal", "print">> >> \o code
                \o IF Returns(program) THEN <<>> ELSE << <<"LoadConst", Num(0)>>, <<"Return">> >>)]
=============================================================================
