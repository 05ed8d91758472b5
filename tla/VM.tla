---------------------------------- MODULE VM ----------------------------------
(***************************************************************************)
(* The bytecode VM (src/mitscript/vm/Interpreter.cpp): the frames of the   *)
(* running calls, the operand stacks, the global variables, and the root   *)
(* set it builds from them when a GarbageCollect instruction runs.         *)
(*                                                                         *)
(* A step is one instruction of the function on top of the call stack, run *)
(* by run_function or, when MachineCode holds, by the code the IR and ASM  *)
(* compilers make of it; the instructions the compiler only emits together *)
(* (a function expression) are one step.  Which instruction comes next is  *)
(* left open, so the model runs every program with the functions, globals  *)
(* and field names of its constants.  An instruction that throws ends the  *)
(* process (vm.cpp calls set_terminate) and is not enabled.                *)
(***************************************************************************)
EXTENDS CollectedHeap, Sequences

CONSTANTS
  Functions,              \* the BC::Function objects of the program
  MainFunction,           \* the one of the top level
  NoFunction,             \* the value of an object that is no closure
  functions_,             \* the functions written in the body of a function
  local_vars_,            \* how many local variables a function has
  local_reference_vars_,  \* how many of them a nested function captures
  free_vars_,             \* how many variables it captures itself
  arg_mapping,            \* for each parameter, the captured local that takes
                          \* it, or 0: it goes to the local of that number
  Globals,                \* names of global variables
  Fields,                 \* names of record fields
  Features,               \* what the program uses of "builtins", "records" and
                          \* "strings"; the rest of the language it always may
  StringTrees,            \* has_optimization(OPTIMIZATION_STRING_TREES)
  MachineCode,            \* has_optimization(OPTIMIZATION_MACHINE_CODE)
  NestedCalls,            \* calls inside an expression that has other operands
  MaxFrames, MaxStack     \* bounds on the frames and on an operand stack

ASSUME ProgramAssumption ==
  /\ MainFunction \in Functions
  /\ NoFunction \notin Functions
  /\ functions_ \in [Functions -> SUBSET Functions]
  /\ {local_vars_, local_reference_vars_, free_vars_} \subseteq [Functions -> Nat]
  /\ local_vars_[MainFunction] = 0
  /\ local_reference_vars_[MainFunction] = 0
  /\ free_vars_[MainFunction] = 0
  /\ arg_mapping[MainFunction] = << >>
  /\ \A f \in Functions :
       /\ arg_mapping[f] \in Seq(0 .. local_reference_vars_[f])
       /\ Len(arg_mapping[f]) <= local_vars_[f]
       /\ 1 .. free_vars_[f] \subseteq Slots
  /\ Fields \subseteq Slots
  /\ Features \subseteq {"builtins", "records", "strings"}
  /\ {StringTrees, MachineCode, NestedCalls} \subseteq BOOLEAN

VARIABLES
  heap,              \* the CollectedHeap
  value,             \* ClosureFunctionValue::value
  main_closure,
  global_variables,  \* a map, empty until names are assigned
  frames             \* the running calls, the innermost last

vars == <<heap, value, main_closure, global_variables, frames>>

\* A frame: the entries of local_variable_stack, local_reference_variable_stack
\* and operand_stack_stack, and what run_function holds.  The top of an operand
\* stack is its head.
Frame == [closure : Objs, func : Functions,
          local_variables : Seq(Values), local_reference_vars : Seq(Objs),
          stack : Seq(Values)]

Top   == frames[Len(frames)]
Stack == Top.stack

Init ==
  /\ heap = EmptyHeap
  /\ value = [o \in Objs |-> NoFunction]
  /\ main_closure = NoObj
  /\ global_variables = [g \in {} |-> NoObj]
  /\ frames = << >>

\* The operand stack of the running function becomes s.
SetStack(s) == frames' = [frames EXCEPT ![Len(frames)].stack = s]

Push(v) == Len(Stack) < MaxStack /\ SetStack(<<v>> \o Stack)

\* n operands go and v comes.
Replace(n, v) ==
  Len(Stack) >= n /\ SetStack(<<v>> \o SubSeq(Stack, n + 1, Len(Stack)))

Consume(n) == Len(Stack) >= n /\ SetStack(SubSeq(Stack, n + 1, Len(Stack)))

Kind(v) == IF v = NoObj THEN "none" ELSE heap.kind[v]

-----------------------------------------------------------------------------
(* Instructions that touch neither heap nor globals.                       *)

\* Constants, string constants included, are no heap objects.
LoadConst == Push(NoObj)

LoadLocal == \E i \in DOMAIN Top.local_variables : Push(Top.local_variables[i])

StoreLocal ==
  \E i \in DOMAIN Top.local_variables :
    /\ Stack # << >>
    /\ frames' = [frames EXCEPT
                    ![Len(frames)].local_variables[i] = Head(Stack),
                    ![Len(frames)].stack = Tail(Stack)]

\* Mutant of LoadReference: the ReferenceValue itself is pushed.
LoadReference_itself ==
  \E i \in DOMAIN Top.local_reference_vars : Push(Top.local_reference_vars[i])

\* rv->value
LoadReference ==
  \E i \in DOMAIN Top.local_reference_vars :
    Push(heap.slots[Top.local_reference_vars[i]][ValueSlot])

\* get of an absent key enters None, which is what its slot holds already.
FieldLoad ==
  \E k \in Fields :
    /\ Stack # << >> /\ Kind(Head(Stack)) = "record"
    /\ Replace(1, heap.slots[Head(Stack)][k])

\* The index may be any value: it is converted to the name of a field.
IndexLoad ==
  \E k \in Fields :
    /\ Len(Stack) >= 2 /\ Kind(Stack[2]) = "record"
    /\ Replace(2, heap.slots[Stack[2]][k])

\* Eq, and with other operands Gt, Geq, Sub, Mul, Div, And, Or and Add on integers.
BinaryOperation == Replace(2, NoObj)

\* Pop, and If, which leaves the choice of the next instruction open.
Pop  == Consume(1)
Dup  == Stack # << >> /\ Push(Head(Stack))
Swap ==
  /\ Len(Stack) >= 2
  /\ SetStack(<<Stack[2], Stack[1]>> \o SubSeq(Stack, 3, Len(Stack)))

OperandStep ==
  /\ \/ LoadConst \/ LoadLocal \/ StoreLocal \/ LoadReference
     \/ FieldLoad \/ IndexLoad \/ BinaryOperation \/ Pop \/ Dup \/ Swap
  /\ UNCHANGED <<heap, value, main_closure, global_variables>>

-----------------------------------------------------------------------------
(* Global variables.                                                       *)

Assigned(g, v) ==
  global_variables' =
    [x \in DOMAIN global_variables \cup {g} |->
       IF x = g THEN v ELSE global_variables[x]]

\* run_function throws on a name without a value; helper_read_global enters None.
LoadGlobal ==
  \E g \in Globals :
    /\ IF g \in DOMAIN global_variables
       THEN Push(global_variables[g]) /\ UNCHANGED global_variables
       ELSE MachineCode /\ Push(NoObj) /\ Assigned(g, NoObj)
    /\ UNCHANGED <<heap, value, main_closure>>

StoreGlobal ==
  \E g \in Globals :
    /\ Stack # << >>
    /\ Assigned(g, Head(Stack))
    /\ Consume(1)
    /\ UNCHANGED <<heap, value, main_closure>>

-----------------------------------------------------------------------------
(* Writes into objects.                                                    *)

StoreReference ==
  \E i \in DOMAIN Top.local_reference_vars :
    /\ Stack # << >>
    /\ heap' = write(heap, Top.local_reference_vars[i], Head(Stack))
    /\ Consume(1)
    /\ UNCHANGED <<value, main_closure, global_variables>>

FieldStore ==
  \E k \in Fields :
    /\ Len(Stack) >= 2 /\ Kind(Stack[2]) = "record"
    /\ heap' = insert(heap, Stack[2], k, Head(Stack))
    /\ Consume(2)
    /\ UNCHANGED <<value, main_closure, global_variables>>

IndexStore ==
  \E k \in Fields :
    /\ Len(Stack) >= 3 /\ Kind(Stack[3]) = "record"
    /\ heap' = insert(heap, Stack[3], k, Head(Stack))
    /\ Consume(3)
    /\ UNCHANGED <<value, main_closure, global_variables>>

-----------------------------------------------------------------------------
(* Allocation.                                                             *)

AllocRecord ==
  /\ "records" \in Features
  /\ \E o \in Fresh(heap) : heap' = new_record(heap, o) /\ Push(o)
  /\ UNCHANGED <<value, main_closure, global_variables>>

\* add when an operand is a string, of the heap or constant.
Concatenate ==
  \E o \in Fresh(heap), p \in Objs :
    /\ "strings" \in Features
    /\ Len(Stack) >= 2
    /\ Kind(Stack[1]) \in {"none", "string"} \/ Kind(Stack[2]) \in {"none", "string"}
    /\ IF StringTrees /\ (IsObject(heap, Stack[1]) \/ IsObject(heap, Stack[2]))
       THEN p \in Fresh(heap) \ {o}
       ELSE p = o
    /\ heap' = IF StringTrees
               THEN new_string_tree(heap, o, p, Stack[2], Stack[1])
               ELSE new_string(heap, o)
    /\ Replace(2, o)
    /\ UNCHANGED <<value, main_closure, global_variables>>

\* LoadFunc with a negative operand, which the compiler emits at the start of the
\* program, once for each built-in.
LoadBuiltIn ==
  /\ "builtins" \in Features
  /\ Top.func = MainFunction
  /\ \E o \in Fresh(heap) : heap' = new_function(heap, o) /\ Push(o)
  /\ UNCHANGED <<value, main_closure, global_variables>>

\* A function expression: PushReference for each captured variable, LoadFunc,
\* which allocates a BareFunctionValue nobody keeps, and AllocClosure.
FunctionExpression ==
  \E g \in functions_[Top.func], bare, o \in Fresh(heap) :
    \E captured \in [1 .. free_vars_[g] -> DOMAIN Top.local_reference_vars] :
      /\ bare # o
      /\ heap' = new_closure(new_function(heap, bare), o,
                   [s \in Slots |-> IF s \in 1 .. free_vars_[g]
                                    THEN Top.local_reference_vars[captured[s]]
                                    ELSE NoObj])
      /\ value' = [value EXCEPT ![o] = g]
      /\ Push(o)
      /\ UNCHANGED <<main_closure, global_variables>>

-----------------------------------------------------------------------------
(* Calls.                                                                  *)

\* ClosureFunctionValue::call: a new ReferenceValue for each captured local, the
\* arguments written to their places, a new frame.  fresh are the addresses.
HeapForCall(f, args, fresh) ==
  LET n == local_reference_vars_[f]
      Allocations[i \in 0 .. n] ==
        IF i = 0 THEN heap ELSE new_reference(Allocations[i - 1], fresh[i])
      Writes[j \in 0 .. Len(args)] ==
        IF j = 0 THEN Allocations[n]
        ELSE IF arg_mapping[f][j] = 0 THEN Writes[j - 1]
        ELSE write(Writes[j - 1], fresh[arg_mapping[f][j]], args[j])
  IN  Writes[Len(args)]

\* Mutant of FrameOfCall: the closure's references are counted from the wrong end.
FrameOfCall_shifted(closure, f, args, fresh) ==
  [closure |-> closure,
   func    |-> f,
   local_variables |-> [i \in 1 .. local_vars_[f] |-> NoObj],
   local_reference_vars |->
     [i \in 1 .. local_reference_vars_[f] + free_vars_[f] |->
        IF i <= local_reference_vars_[f]
        THEN fresh[i]
        ELSE heap.slots[closure][i - local_reference_vars_[f] + 1]],
   stack |-> << >>]

FrameOfCall(closure, f, args, fresh) ==
  [closure |-> closure,
   func    |-> f,
   local_variables |->
     [i \in 1 .. local_vars_[f] |->
        IF i <= Len(args) /\ arg_mapping[f][i] = 0 THEN args[i] ELSE NoObj],
   local_reference_vars |->
     [i \in 1 .. local_reference_vars_[f] + free_vars_[f] |->
        IF i <= local_reference_vars_[f]
        THEN fresh[i]
        ELSE heap.slots[closure][i - local_reference_vars_[f]]],
   stack |-> << >>]

\* The Interpreter constructor and interpret: the closure of the top level is
\* allocated and called.
interpret ==
  /\ main_closure = NoObj
  /\ \E o \in Fresh(heap) :
       /\ heap' = new_closure(heap, o, NoPointers)
       /\ value' = [value EXCEPT ![o] = MainFunction]
       /\ main_closure' = o
       /\ frames' = <<FrameOfCall(o, MainFunction, << >>, << >>)>>
  /\ UNCHANGED global_variables

\* The operands go - the closure and, below it, the last argument first - and the
\* caller keeps the rest of its stack while the new frame runs.
Call ==
  /\ Stack # << >> /\ Kind(Head(Stack)) = "closure"
  /\ Len(frames) < MaxFrames
  /\ LET closure == Head(Stack)
         f       == value[closure]
         argc    == Len(arg_mapping[f])
         args    == [i \in 1 .. argc |-> Stack[2 + argc - i]]
         rest    == SubSeq(Stack, 2 + argc, Len(Stack))
     IN  /\ Len(Stack) >= 1 + argc
         /\ NestedCalls \/ rest = << >>
         /\ \E fresh \in [1 .. local_reference_vars_[f] -> Fresh(heap)] :
              /\ \A i, j \in DOMAIN fresh : i # j => fresh[i] # fresh[j]
              /\ heap' = HeapForCall(f, args, fresh)
              /\ frames' = Append([frames EXCEPT ![Len(frames)].stack = rest],
                                  FrameOfCall(closure, f, args, fresh))
  /\ UNCHANGED <<value, main_closure, global_variables>>

\* print and intcast take an argument and return no pointer; input takes none and
\* returns a new string.
CallBuiltIn ==
  /\ Stack # << >> /\ Kind(Head(Stack)) = "function"
  /\ \/ Replace(2, NoObj) /\ UNCHANGED heap
     \/ \E o \in Fresh(heap) : heap' = new_string(heap, o) /\ Replace(1, o)
  /\ UNCHANGED <<value, main_closure, global_variables>>

\* pop_stack and pop_frame; the caller pushes the result.  The last one ends the
\* program.
Return ==
  /\ Stack # << >>
  /\ frames' = IF Len(frames) = 1
               THEN << >>
               ELSE [i \in 1 .. Len(frames) - 1 |->
                       IF i < Len(frames) - 1 THEN frames[i]
                       ELSE [frames[i] EXCEPT !.stack = <<Head(Stack)>> \o @]]
  /\ UNCHANGED <<heap, value, main_closure, global_variables>>

-----------------------------------------------------------------------------
(* Garbage collection.                                                     *)

PointersIn(vs) == {vs[i] : i \in DOMAIN vs} \ {NoObj}

\* Mutants of RootSet: the captured variables are left out; the frames of waiting
\* callers are; the global variables are.
RootSet_without_references ==
  {main_closure}
    \cup (UNION {PointersIn(frames[i].local_variables) : i \in DOMAIN frames})
    \cup (UNION {PointersIn(frames[i].stack) : i \in DOMAIN frames})
    \cup PointersIn(global_variables)
RootSet_of_top ==
  {main_closure} \cup PointersIn(Top.local_variables)
    \cup PointersIn(Top.local_reference_vars) \cup PointersIn(global_variables)
RootSet_without_globals ==
  {main_closure}
    \cup (UNION {PointersIn(frames[i].local_variables) : i \in DOMAIN frames})
    \cup (UNION {PointersIn(frames[i].local_reference_vars) : i \in DOMAIN frames})

\* The roots potentially_garbage_collect gathers.  Compiled code keeps its
\* operands in registers and on the machine stack, and pushes no operand stack.
RootSet ==
  {main_closure}
    \cup (UNION {PointersIn(frames[i].local_variables) : i \in DOMAIN frames})
    \cup (UNION {PointersIn(frames[i].local_reference_vars) : i \in DOMAIN frames})
    \cup (IF MachineCode THEN {}
          ELSE UNION {PointersIn(frames[i].stack) : i \in DOMAIN frames})
    \cup PointersIn(global_variables)

\* The compiler emits GarbageCollect between statements, where the operand stack
\* of the running function is empty.
GarbageCollect ==
  /\ Stack = << >>
  /\ heap.generation + 2 <= MaxGenerations
  /\ heap' \in potentially_garbage_collect(heap, RootSet)
  /\ value' = [o \in Objs |-> IF o \in Allocated(heap') THEN value[o] ELSE NoFunction]
  /\ UNCHANGED <<main_closure, global_variables, frames>>

Running == frames # << >>

Next ==
  \/ interpret
  \/ Running /\ OperandStep
  \/ Running /\ LoadGlobal
  \/ Running /\ StoreGlobal
  \/ Running /\ StoreReference
  \/ Running /\ FieldStore
  \/ Running /\ IndexStore
  \/ Running /\ AllocRecord
  \/ Running /\ Concatenate
  \/ Running /\ LoadBuiltIn
  \/ Running /\ FunctionExpression
  \/ Running /\ Call
  \/ Running /\ CallBuiltIn
  \/ Running /\ Return
  \/ Running /\ GarbageCollect

Spec == Init /\ [][Next]_vars

-----------------------------------------------------------------------------
(* Properties.                                                             *)

\* Every pointer an instruction of the program can still read.
InUse ==
  (({main_closure} \ {NoObj}) \cup PointersIn(global_variables))
    \cup UNION {PointersIn(frames[i].local_variables)
                 \cup PointersIn(frames[i].local_reference_vars)
                 \cup PointersIn(frames[i].stack) : i \in DOMAIN frames}

\* The VM uses the heap the way the client of HeapClient does, its root set being
\* the pointers in use.
Client == INSTANCE HeapClient WITH roots <- InUse

\* Type correctness of the VM's variables.
TypeOK ==
  /\ heap \in HeapType
  /\ value \in [Objs -> Functions \cup {NoFunction}]
  /\ main_closure \in Values
  /\ DOMAIN global_variables \subseteq Globals
  /\ \A g \in DOMAIN global_variables : global_variables[g] \in Values
  /\ frames \in Seq(Frame)

\* No operand, local, captured variable or global of any running call points to a
\* deleted object, whatever was collected while inner calls ran; nor does any
\* object that exists (the root set of potentially_garbage_collect).
NothingInUseDangles == Client!NoDanglingPointer

\* The generational write barrier is complete for the writes the VM makes: the
\* stores, and the arguments a call writes into captured parameters.
BarrierComplete == Client!BarrierComplete

\* ReferenceValues stay out of the program's sight and captured variables are
\* nothing else: a frame and a closure hold references where the compiler put a
\* captured variable, and no local, operand, global, record or reference ever
\* holds one (a stale pointer to an address used again would break this).
CapturedVariablesStayPrivate ==
  /\ \A i \in DOMAIN frames :
        \A r \in PointersIn(frames[i].local_reference_vars) : heap.kind[r] = "reference"
  /\ \A o \in Allocated(heap), s \in Slots :
        Kind(heap.slots[o][s]) = "reference"
          <=> heap.kind[o] = "closure" /\ s \in 1 .. free_vars_[value[o]]
  /\ \A i \in DOMAIN frames :
        \A v \in PointersIn(frames[i].local_variables) \cup PointersIn(frames[i].stack) :
           heap.kind[v] # "reference"
  /\ \A v \in PointersIn(global_variables) : heap.kind[v] # "reference"

\* The heap under the VM keeps the promise of AbstractHeap to the running program:
\* nothing it can still reach is deleted or changed by a collection.
KeepsPromise == Client!KeepsPromise

\* A full collection deletes all that the running program cannot reach: the roots
\* the VM gathers are no more than what it can still use.
CollectionIsPrecise == Client!CollectionIsPrecise

\* The operands of every activation exist, those of callers that wait for a call in
\* the middle of an expression among them.  In interpreted code the root set has
\* the operand stacks; compiled code is documented to need no roots for its own.
TemporariesSurviveCalls ==
  \A i \in DOMAIN frames : PointersIn(frames[i].stack) \subseteq Allocated(heap)

\* LoadFunc reads the function list of the closure that is running, so that
\* closure must exist (allocateFunction).
RunningClosureExists ==
  [][Running /\ FunctionExpression => Top.closure \in Allocated(heap)]_vars
=============================================================================
