------------------------------ MODULE FrontEnd ------------------------------
(***************************************************************************)
(* One program, executed in the two ways the repository offers: by the     *)
(* AST interpreter in one go, and by the bytecode compiler and the         *)
(* interpreter loop of the VM, one instruction per step.                   *)
(***************************************************************************)
EXTENDS TreeInterpreter, BytecodeCompiler, InterpreterLoop

CONSTANT Programs    \* the syntax trees to execute

VARIABLES
    program,     \* the tree, as the parser built it
    tree,        \* what the AST interpreter printed and how it ended
    strict       \* not in the code: what the VM had printed when it first left
                 \* out a check of an operand, and how it had to end there;
                 \* "running" as long as it left out none

vars == <<program, tree, strict, loop>>

-----------------------------------------------------------------------------
\* interpret.cpp on the program, and vm.cpp up to the call of the top-level
\* function.
Init == /\ program \in Programs
        /\ tree = Interpret(program)
        /\ strict = [out |-> <<>>, end |-> "running"]
        /\ code = Compile(program)
        /\ Start

\* The loop goes through an operator without the check of the operand that the
\* AST interpreter and machine code make first: a right operand that does not
\* matter is no boolean, or the dividend of zero is no integer.
SkipsACheck ==
    /\ Executing({"Bin"})
    /\ \/ Decides(ins[2], Arg(1)) /\ ~IsBool(Arg(0))
       \/ ins[2] = "/" /\ Arg(0) = Num(0) /\ ~IsInt(Arg(1))

Next ==
    /\ Execute
    /\ strict' = IF strict.end = "running" /\ SkipsACheck
                 THEN [out |-> out, end |-> "cast"] ELSE strict
    /\ UNCHANGED <<program, tree>>

\* What the VM prints and how it ends where no check is left out.
Strictly == IF strict.end = "running" THEN [out |-> out, end |-> end] ELSE strict

Spec == Init /\ [][Next]_vars /\ WF_vars(Next)

-----------------------------------------------------------------------------
(* Programs for which the two ways of executing are known to differ.       *)

RECURSIVE Subnodes(_)
Subnodes(n) == {n} \cup UNION {Subnodes(Children(n)[i]) : i \in DOMAIN Children(n)}
FunctionsIn(n) == {m \in Subnodes(n) : m[1] = "fun"}

Variables(f) == Range(f[2]) \cup (AssignedNames(f[3]) \ DeclaredGlobals(f[3]))

\* A parameter has the name of a variable of a function around, or is also
\* declared global.
ParameterClash ==
    \E f \in FunctionsIn(program) :
        \/ Range(f[2]) \cap DeclaredGlobals(f[3]) # {}
        \/ \E g \in FunctionsIn(f) \ {f} : Range(g[2]) \cap Variables(f) # {}

\* A function that is not the right-hand side of an assignment assigns a
\* variable, which CompilerLocalsScanner takes for one of the function around.
LeakedLocal ==
    \E f \in FunctionsIn(program) :
        LocalsOf(f[3], GlobalsOf(f[3])) # AssignedNames(f[3]) \ GlobalsOf(f[3])

\* A function reads a global that no statement before it, nor its own,
\* assigns at the top level.
LateGlobal ==
    \E i \in DOMAIN program[2] : \E f \in FunctionsIn(program[2][i]) :
        \E x \in NamesOf(f[3]) :
            /\ \A j \in 1..i : x \notin {"print"} \cup AssignedNames(program[2][j])
            /\ \A g \in FunctionsIn(program) :
                   f \in FunctionsIn(g) => x \notin Variables(g) \cup DeclaredGlobals(g[3])

Calls(n) == \E m \in Subnodes(n) : m[1] = "call"

\* Calls among the operands of "+" (evaluated twice by the AST interpreter),
\* of "<", "<=" and "==" (evaluated in another order) or in the condition of
\* a loop that may return (evaluated once more).
OtherOrder ==
    \E m \in Subnodes(program) :
        \/ /\ m[1] = "bin" /\ m[2] \in {"+", "<", "<=", "=="}
           /\ Calls(m[3]) \/ Calls(m[4])
        \/ m[1] = "while" /\ Calls(m[2]) /\ Returns(m[3])

\* A call after the point where the AST interpreter checks a type or a number
\* of arguments, and before the point where the VM does.
CheckedEarlier ==
    \E m \in Subnodes(program) :
        \/ m[1] = "bin" /\ Calls(m[4])
        \/ m[1] = "call" /\ \E i \in DOMAIN m[3] : Calls(m[3][i])

-----------------------------------------------------------------------------
(* The layout of compiled code: the stack is empty at the labels, and what *)
(* the instruction before leaves elsewhere.                                *)

RECURSIVE FunctionsOf(_)
FunctionsOf(f) ==
    {f} \cup UNION {FunctionsOf(f.code[i][2]) :
                      i \in {j \in DOMAIN f.code : f.code[j][1] = "LoadFunc"}}

SlotsOf(f) ==
    LET slots[i \in 1..Len(f.code) + 1] ==
            IF i = 1 \/ (i <= Len(f.code) /\ f.code[i][1] = "Label") THEN <<>>
            ELSE SlotsAfter(f, i - 1, slots[i - 1])
    IN  slots

-----------------------------------------------------------------------------
\* The AST interpreter and the compiled program print the same and end the
\* same way, outside the differences named above; where the VM leaves out a
\* check of an operand, the AST interpreter gets as far and fails there.
SameBehaviour ==
    Ended /\ ~(ParameterClash \/ LeakedLocal \/ LateGlobal \/ OtherOrder \/ tree.null)
          /\ (tree.end # "ok" => ~CheckedEarlier)
    => Strictly = [out |-> tree.out, end |-> tree.end]

\* The order of evaluation may change what is printed but, where every name is
\* resolved as the AST interpreter resolves it, not whether the program fails,
\* unless the VM leaves out a check: then the AST interpreter fails.
SameFailure ==
    Ended /\ ~(ParameterClash \/ LeakedLocal \/ LateGlobal \/ tree.null)
    => (Strictly.end = "ok") = (tree.end = "ok")

\* Unless ParameterClash, what the bytecode compiler emits is verified code in
\* which no variable is both local to a function and free in it: the
\* interpreter loop starts on code that it executes with its operands,
\* variables and references in place, whatever way it takes through it.
CodeIsVerified ==
    Start /\ ~ParameterClash =>
        /\ Verified([f \in FunctionsOf(code) |-> SlotsOf(f)])
        /\ \A f \in FunctionsOf(code) : Range(f.free_vars) \cap f.local_vars = {}

\* The compiled program comes to its end when the loop of run_function keeps
\* executing (the programs' loops and recursions are finite).
Finishes == <>Ended

\* Types.h, free_vars_: "List of the names of non-global and non-local
\* variables accessed by the function".
FreeVariablesAreNotLocal ==
    \A i \in DOMAIN frames :
        LET f == Function(frames[i].path) IN Range(f.free_vars) \cap f.local_vars = {}
=============================================================================
