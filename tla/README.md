# A formal specification of the MITScript VM

This directory specifies *beaverc*, an implementation of the MITScript language in
C++ (`src/mitscript`). One half is about the run-time system: the generational
garbage collector, the bytecode interpreter that is its client, the byte count that
decides when to collect, and the register allocator. The other half
is about the path of a program: the AST interpreter, the bytecode compiler, the
interpreter loop, the IR compiler, each pass of the optimizer and the machine-code
compiler, executed against each other on the same programs. Every definition is
translated from the source; `PROJECT.json` ("map") names the lines each one stands for.

## 1. Inventory

A program is parsed (flex/bison), compiled to bytecode (`bccompiler`), and run
either by the bytecode interpreter (`vm`) or, function by function on first
call, as x86-64 code produced by an IR compiler, an IR optimizer (`ir`) and a
code generator (`asm`). Both run on the collected heap (`gc`). A separate AST
interpreter (`interpreter`) shares only the parser. Everything is one thread;
what is hard comes from the order of operations, from addresses that are used
again, and from the agreement of data structures kept in parallel.

| Component | State | Operations | Interacts with | What makes it correct |
|---|---|---|---|---|
| Heap (`gc/`) | the lists `recently_allocated_objects`, `old_objects`; `generation`; `cross_generation_pointers`; `marked`, `is_old` of each object; `bytes_current` | `allocate`, `gcFast`, `gcFull`, `increaseSize`, `decreaseSize`, `mark` | values call `increaseSize` and feed the write barrier; the interpreter gives the roots | nothing reachable is deleted or changed; garbage goes; the count is an over-estimate of what exists |
| Values (`vm/Value.*`) | `ReferenceValue::value`, record entries, `left`/`right` of string trees, references of closures | constructors, `write`, `insert`, `get`, `call`, `markChildren`, `size` | heap; interpreter (calls) | the write barrier misses no pointer; sizes charged are the sizes taken back |
| Bytecode interpreter (`vm/Interpreter.*`) | stacks of locals, references, operands; globals; `main_closure`; `old_heap_size` | one per instruction; `push_frame`, `pop_frame`; `potentially_garbage_collect` | heap, values, machine code | the root set holds every pointer still in use |
| Bytecode compiler (`bccompiler/`) | label counter, current function, scopes of each function, `returned` | visits of AST nodes; the scanners | the VM runs what it emits | stack depth at joins; each captured variable is the reference it should be; globals/locals |
| IR compiler and optimizer (`ir/`) | operand stack of temporaries, live ranges, type hints, obsolete sets, register sets | one pass each | bytecode in, machine code out | passes keep the meaning; no two live values share a register |
| Machine code (`asm/`) | registers alive/shared, variables in registers | one per IR instruction; helpers | interpreter (roots, calls), heap | spilled, flushed and reloaded values are the right ones |
| AST interpreter (`interpreter/`) | environment stack, heap of variables, `returned`, `rval` | visits of AST nodes | parser | each subexpression once, scoping |
| Parsers, printers, test generator, bytecode checker, disassembler | none beyond the tree | | | |

Hard behaviours, by theme (each one is a row under "hazards" in `PROJECT.json`,
at its line):

* **what the collector sees against what the program has**: the write barrier,
  slots remembered by address, roots gathered from parallel stacks, temporaries of
  compiled code, a closure nobody holds any more but that is still running;
* **addresses used again** after a deletion, with copies of pointers elsewhere;
* **a fast collection followed by a full one** on one root vector, marks compared
  with a counter that moved twice;
* **counts that must balance** over constructors, writes and destructors, in
  unsigned arithmetic;
* **passes that index one array with another's positions** (live ranges, short
  jumps) and **a register file tracked by ordered sets with equal keys**;
* **four ways to execute one program** (tree, bytecode, plain and optimized
  machine code), whose compilers resolve names, order evaluation and
  check types each on their own.

There is no concurrency, no persistence and no message passing in this program,
so no property is about them. What must eventually happen is that a program ends: a
loop that is compiled to a wrong jump, or whose counter is dropped as dead,
does not. `Finishes` and `MachineFinishes` are about that. Whether a
`GarbageCollect` happens is left open, which is what the byte count makes of it.

## 2. Modules

```
AbstractHeap        what the heap promises
     ^ refinement (KeepsPromise)
CollectedHeap       operators: values, write barrier, marking, gcFast, gcFull
     ^ EXTENDS                         ^ EXTENDS
HeapClient          any client         VM   frames, instructions, root set
     ^ EXTENDS         ^------------------- INSTANCE HeapClient WITH roots <- InUse
HeapProofs          TLAPS              VMProofs   TLAPS
MCHeapClient        TLC                MCVM       TLC

HeapLemmas          TLAPS: the operators of CollectedHeap; EXTENDed by HeapProofs and VMProofs
NumberLemmas        TLAPS: least numbers, counting, remainders; EXTENDed by all proofs but HeapProofs
BytecodeLemmas      TLAPS: sequences, paths of functions, what fits the layout of verified code

HeapAccounting      the byte count; MCHeapAccounting for TLC
     ^ EXTENDS
HeapAccountingProofs   TLAPS

LinearScan          the register allocator; checked by TLC as it is
     ^ EXTENDS
LinearScanProofs    TLAPS

MitScript           syntax trees, values, operators
     ^ EXTENDS                      ^ EXTENDS
InterpreterLoop  run_function    Scopes   two scans of a function body
     ^ EXTENDS        ^             ^ EXTENDS              ^ EXTENDS
BytecodeLemmas        |          TreeInterpreter        BytecodeCompiler <-- IR <-- MachineCode
     ^ EXTENDS        |             ^ EXTENDS              ^ EXTENDS                    ^
BytecodeProofs        +--------- FrontEnd  a program as a tree and as bytecode; MCFrontEnd
  TLAPS                             ^ EXTENDS                                           |
                                 BackEnd   ... and as machine code; MCBackEnd   --------+
```

**CollectedHeap** has no variables. A heap is a record with the fields of
`CollectedHeap` and of each object, and each C++ operation is an operator from
heaps to heaps; that lets one step run several, as
`potentially_garbage_collect` runs `gcFast` and then `gcFull`. Addresses are
the constants `Objs`, and a deleted one is handed out again. A value is an
address or `NoObj`, which stands for every non-pointer. An object is its kind and
its pointer slots: the names of a record's fields, `ValueSlot`, `LeftSlot`,
`RightSlot`, and numbered references of a closure are members of `Slots`. The
recursion `mark -> markChildren -> mark` becomes the least set that holds the
traversable seeds and is closed under traversable children. It is the set of all
objects in every closed set, which needs no recursion and can be reasoned about.
`mark_recent_only` and the early returns of `Collectable::mark` are in
`Traversable`; the modulus of the mark is `MarkModulus`.

**AbstractHeap** is the promise: objects that are created, updated and
followed through pointers the user knows, and reclaimed only when nothing leads to
them from the user's pointers. `Reclaim` deletes *any* set of unreachable objects.

**HeapClient** is the heap under a client that may do anything the language
allows with pointers it holds. Its variable `roots` is both what the client holds
and the root set of a collection: the contract of `gcFast`/`gcFull`.

**VM** is `Interpreter`: variables `frames` (the parallel stacks of locals,
references and operands, joined per call), `global_variables`,
`main_closure`, `value` (the `BC::Function` of a closure) and `heap`. A step is an
instruction. Control flow is open: *which* instruction comes next is any one whose
operands have the right kinds; so one run covers all programs over its functions,
globals and fields. Two facts come from the bytecode compiler: the instructions
of a function expression stand together, and `GarbageCollect` stands between
statements, where the operand stack of the running function is empty. With
`MachineCode` the frame's operands are registers and the machine stack:
`RootSet` leaves them out, and reading an unassigned global enters None
(`helper_read_global`). `NestedCalls` says if the program calls functions while
other operands wait. `InUse` is what the program can still read and `Client`
instantiates HeapClient with it, so `Client!KeepsPromise` says that
the interpreter meets the heap's contract: it is not assumed but checked.

**HeapAccounting** is `bytes_current` with `old_heap_size`: objects are classes
with a `size()`; which of them a collection finds dead is left open (CollectedHeap
has that) and what each operation charges is exact, modulo `WordModulus`. The variable
`drift` is auxiliary: it accumulates the five known reasons for which the count
departs from the footprint, and `CountIsExplained` says there is no sixth. The key that
`insert` is given may have more capacity than the copy that the record keeps and `size()`
looks at: up to `MaxExcess` more.
`setting` is chosen once: the process-wide optimizations of `options.cpp`, and
whether the program reads absent fields.

**LinearScan** is `linear_scan_allocate`. Operands are numbers, variables before
temporaries; a step is one turn of the loop: `expire_old_intervals`, and then the
operand shares the register of the variable it holds, takes a free one, or there
is a spill. The two ordered multisets are sets with their orders (`Before`,
`EndsBefore`), equal keys in order of insertion as `std::multiset` keeps them;
`active.erase(spill)`, which is by key, takes out every operand with the victim's
`live_end`. Live ranges are *any* that VarLivenessOptimization and
TempLivenessOptimization can leave (`LiveRanges`, part of Init), so one run covers
all functions of its size. A range that never ends (`Never`, INT_MAX) belongs to a
temporary whose definition was deleted. How the code generator uses `reg` and
`shared_reg` is in MachineCode; there the ranges are those the passes compute.

**MitScript** has the trees of `AST.h` as tuples, the values both
interpreters know, their strings (`Show`) and the arithmetic. It declares nothing
recursive, so that the interpreter loop can be proved about; **Scopes** has the
two recursive scans that the AST interpreter and the compiler share.

**InterpreterLoop** is `run_function`, one instruction per step, on any code: `frames`
(with locals, references and operand stack), `cells` (ReferenceValues), `closures`, `recs`
and `global_variables` are the VM's state without the collector, which is the subject of
VM. Each cell remembers the variable it was made for, which no action reads:
`CapturesAreLexical` does. The second half of the module says which code is
*verified*: a static condition in the manner of a class-file verifier. A layout gives the
slots of the operand stack at each index of each function (a value, the bare function
that the `LoadFunc` at some index pushed, a reference to a named variable), and every
instruction takes the layout at its index to the layout at each index it may continue at. Nothing
in it is about calls, activations, the heap or the order in which instructions run; that
is what the theorems add. `LoopSpec` is the loop on verified code.

**TreeInterpreter** is `interpreter/`: `Exec` maps a state (the frames,
records, what was printed, the pending value, the exception) to the state after a
tree. It keeps the order of evaluation and its
peculiarities: `+` evaluates its operands again when neither is a string, a loop
looks at its condition after a return, a declared global without a value reads as null, and
null as the value of an assignment turns the store into a read.

**BytecodeCompiler** is `bccompiler/`. `FunctionNode` runs the scanners over a
function body as `visit(Function)` does and yields `local_vars_`,
`local_reference_vars_`, `free_vars_`, `names_`; `Transpile` is the visits. A jump
has a relative target instead of a label's name, and a `LoadFunc` carries its function;
sorted containers are sorted (`Sorted`), because the order of `free_vars_` is
the order in which references are pushed.

**FrontEnd** chooses a program, executes it as a tree in Init (the AST interpreter is
one call) and as bytecode by the steps of InterpreterLoop. `SlotsOf` computes the layout of
compiled code, and `CodeIsVerified` says that it is one: what the compiler emits is
the code the loop is proved for.

**IR** is the IR compiler and the passes of `runAllPasses`, each an operator from
compiler state to compiler state (`c`: the instructions, temporaries and variables
with hints and live ranges, registers, the process-wide operands). Indexes count from 0 as
in the code, and where a pass mixes bytecode and IR positions so does the model.

**MachineCode** is `asm/Compiler.cpp` as a function from a compiler state to the
next: which register holds what (`live`, `shared`, `reg_vars`), and the instructions it emits,
those of an ideal machine whose registers hold values. An assertion that would
fail goes to `broken`. **BackEnd** runs the program by the interpreter loop, restarts it with
or without the passes, compiles each function at its first call (one pass per step,
one IR instruction per step) and executes the result. A register nobody
wrote, or that a call may have changed, holds `Junk`. An instruction that checks
no tags stops with `"junk"` or `"type"` on operands it has no defined result for.

*Named exceptions.* The optimizer has mistakes that its programs meet. They are
not excluded from the models: each is a predicate on the program or on what a pass did, and the
properties say that nothing else goes wrong. In BackEnd: a store removed
although it is read (`"lost store"`), a live range that ends too early (`"cut
short"`), a copy in a register its variable lost (`"torn"`), a constant folded
in too few bits (`"int"`), an error thrown while compiling, a register freed
under a temporary (`"unprotected"`), an operand with two types (`MixedTypes`), a
variable whose first textual access is not on every path (`PartlyAssigned`),
`x = {a: x}` (`RecordOfItself`). And without any pass: a global without a value
(`UnsetGlobal`) and the missing return at the end of the top level. In FrontEnd, for the
two interpreters: `ParameterClash`, `LeakedLocal`, `LateGlobal`, `OtherOrder`, `CheckedEarlier`
and null values.

*Checks the interpreter loop leaves out.* `&&` and `||` of `run_function` look at the right
operand only when the left one does not decide, and a divisor is compared with zero before the
dividend is looked at; the AST interpreter and machine code check both operands first. This
difference excludes no program. The history variable `strict` notes, at the first such operator
(`SkipsACheck`), what was printed so far; `Strictly` is what the VM has to print and how it
has to end if it made the check, and that is what the properties of both runs
compare the AST interpreter and machine code with.

## 3. What the runs check

Every property of a passing run has a mutant: a definition beside the
original (`store_without_barrier`, `RootSet_of_top`, ...) with a plausible bug in it,
under which TLC finds the property violated.

| Run | Question | Bounds |
|---|---|---|
| `heap_generational` | generational heap: types, no dangling pointers, complete barrier, consistent lists, refinement of AbstractHeap, precision | 3 objects, 2 slots, 3 collections |
| `vm_closures` | closures with captured parameters, three frames deep | 5 objects, 3 collections, 2 operands |
| `vm_values` | records, string trees, built-ins, globals at top level, on a heap without generations; full collections are precise | 4 objects, 4 collections, 3 operands |
| `vm_compiled` | compiled code whose calls have no waiting operands: its roots are enough | 4 objects, 2 frames, 3 collections |
| `vm_compiled_nested` | compiled code with calls inside expressions: **violated** | as above |
| `vm_running_closure` | the running closure exists when LoadFunc reads it: **violated** | 4 objects, 2 frames |
| `accounting` | the count is explained in every setting; without string trees and absent reads it is an over-estimate and no collection raises it | 4 objects, sizes 1-3, one unit of excess capacity, count to 110 |
| `scan_any` | clashes come from spilled variables only and are marked; a spill finds a victim; lost registers are explained | 2 variables, 2 temporaries, 2 registers, 4 instructions |
| `front_end` | tree and bytecode print and end alike; captures are lexical; operands are on the stack, which is empty between statements; compiled code is verified; programs end | 2214 programs: 2 or 3 nested functions, 2 names, every operator |
| `front_end_parameters` | free variables are not local: **violated** | as `front_end` |
| `back_end` | machine code agrees with the interpreter, with and without passes; undefined operations, lost stores and short ranges have a named cause; the machine stack and the reserved registers balance; programs end | 275 programs, each twice; 3 registers, 5-bit folds |
| `back_end_types` | a hinted type is certain: **violated** | 12 programs |

Why the bounds are enough to see something. With three objects there are
an old object, a young one it points to and a third that keeps or drops either; a
barrier entry must survive an overwrite and a collection between, hence three
collections (a step of GarbageCollect may use two). Two slots allow an overwrite of
one remembered slot while another stays. In the VM five objects are the main closure,
an outer closure, its captured parameter, an inner closure, and the bare function that
LoadFunc drops; three frames have a waiting caller whose own caller waits as
well. `MaxStack` bounds the operands of a frame, `MaxFrames` the depth of calls,
`MaxGenerations` the number of collections, `MaxBytes` the growth of the count
before allocation stops; all four appear in guards only. Addresses are
symmetric in every model, as are the states: no definition uses an order on them.
The sizes of HeapAccounting are in units of a pointer, with all distinctions that its
formulas make (entries, captured pointers, characters, excess capacity).
In LinearScan two registers and four operands are enough for a register to be
freed, taken, spilled and preferred by a variable whose copy ended in it, and for
two active operands to end together; a horizon of four gives every pair of
ranges each relation the comparisons tell apart.

The programs are the bounded input of the last four runs; they are sets in
MCFrontEnd and MCBackEnd built by combination (every placement of a parameter, local, global
or captured `x` and `y` in two or three functions; every operator on operands that
print; every type of constant). The allocator distributes one callee-saved and two
caller-saved registers (`CalleeRegs`, `CallerRegs`; the code has four and four), so that sharing,
spilling and saving around calls happen in functions of a few statements. `IntBits` is the width of
`int` in ConstantFolding: 5 bits make a fold of small constants overflow.
`INT_MAX` stands for a live range that never ends.

*Fairness.* FrontEnd assumes `WF_vars(Next)`, BackEnd the same of its next-state
relation, written `KeepsRunning`: that relation is enabled until the end, as the
deadlock check of `back_end` shows, so weak fairness means that steps go on.
Both say that a running process executes its next instruction, and no more.

Deadlock is checked in `back_end`, which stutters explicitly at the end
(`Terminated`). It is not checked elsewhere: a program ends (`frames` is empty after the last
Return, or an exception was thrown), a bounded heap may be full, and the scan of LinearScan ends
with the last operand.

### Findings

1. *Temporaries of compiled code are no roots* (`vm_compiled_nested`). A
   collection inside a callee deletes objects that operands of its caller
   hold. The final write-up says of the points where it collects that no
   intermediate values are in registers, which is true of the collecting function
   only. `vm_compiled` shows that this is all that is missing: in programs without such
   calls the roots of compiled code cover whatever the program can still reach.
2. *A running closure can be deleted* (`vm_running_closure`): `Call` pops it and no
   root stands for it; its `functions_` and `names_` are read afterwards.
3. *A parameter can be taken for a captured variable* (`front_end_parameters`).
   `free_vars_` is documented as non-local; a parameter with the name of a captured
   variable of a function around is in it, and the name then means the captured variable.
   `CapturesAreLexical` and `SameBehaviour` hold for every other program.
4. *A hinted type is not certain* (`back_end_types`). Hints are a union over the
   values with a known type; a value of unknown type adds nothing, and the operation is
   specialised. `UndefinedIsExplained` bounds the damage: a value of another type is met only with a
   variable that held two types or a register that was lost.

Three further weaknesses are exact exceptions of passing properties. String trees,
and fields entered by reading them, are discharged but never charged, so the
byte count is an over-estimate only without them (`OverEstimateOfCounted`; `CountIsExplained` gives the
difference). The interpreter loop accepts `false & 1` and `true | 1`, although the comment at
vm/Interpreter.cpp:503 speaks of "a boolean operation on two boolean operands" and the other
three executions fail; `"a" / 0` is an arithmetic error in the loop and an illegal cast in the others
(`SkipsACheck`). And a temporary that holds a variable shares its register without
becoming active: when the variable is spilled, the register goes to another operand while the
temporary is live (`ClashesComeFromSpills`: in no other way).

`LeaksComeFromEqualEnds` states the exact extent of another weakness: when a spill
erases by key, the operands that end where the victim ends leave `active` and their
registers stay in use for the rest of the function. Nothing else loses a register,
and no clash follows from it.

`NothingInUseDangles` does not contain the running closure on purpose: `InUse` holds what
instructions read through frames, globals and objects; finding 2 states the
remaining pointer on its own.

## 4. What is proved

TLAPS checks every theorem and lemma to the last leaf. The results, and the property of a run
that each one states for all values of the constants:

| Module | Theorems |
|---|---|
| `HeapProofs` | `TypeCorrectness`, `NoDangling`, `BarrierIsComplete`, `BookkeepingIsConsistent`: `Spec => []...` for the four invariants of HeapClient; `HeapKeepsPromise`, the refinement of AbstractHeap; `CollectionsArePrecise` |
| `VMProofs` | `TypeCorrectness`, `NothingDangles`, `BarrierIsComplete`, `CapturedVariablesArePrivate`, `TemporariesSurvive`; `VMKeepsPromise`, the refinement of AbstractHeap by the VM; `CollectionsArePrecise` |
| `HeapAccountingProofs` | `TypeCorrectness`, `TheCountIsExplained`, `NeverUnderestimates`, `CollectionsLowerTheCount` |
| `BytecodeProofs` | `OperandsAreTyped`, `StacksAreEmptied`, `CapturesAreOfScope`: `LoopSpec => []...` for `TypeOK`, `StatementsLeaveNothing` and `CapturesAreLexical` of FrontEnd's run |
| `LinearScanProofs` | `ScanTypes`, `SharingIsAlwaysMarked`, `SpillAlwaysFindsVictim`, `LeaksAlwaysExplained`, `ClashesAlwaysExplained` |

With them every property of a passing run on the heap, the VM, the byte count and
the register allocator is a theorem, and so is every invariant of `front_end` about the interpreter
loop by itself.

### The heap

For every set of addresses and slots, either heap mode and every number of
collections below the wrap-around of the marks. *Assumptions*: `HeapAssumption` (the
special slots exist, left and right
differ, `NoObj` is no address, `MaxGenerations < MarkModulus`) and
`ClientAssumption`. Without the last part of HeapAssumption the theorems are
false: `generation` is a `size_t` and marks are `uint32_t`.

*Argument.* No one of the invariants is inductive alone. A fast
collection keeps what it must only if the barrier is complete; the barrier stays
complete only if `is_old` and the lists agree; the sweep deletes what has an old mark,
which is right only if no mark is ahead of the counter; and remembered slots may be read only
if their objects exist. `Healthy`, their conjunction as a predicate of a heap, is inductive.
HeapLemmas treats heap operations before any client: `allocate` of a
fresh object, `store` into a held object, and `gcFast`/`gcFull` with roots that
cover the client each preserve it. The centre is marking: `mark` is
closed (it contains the traversable seeds and children) and least, so in `gcFast` every object
reachable from the roots is old or marked. A young object reachable through an old
one is in a slot that BarrierComplete says is remembered, so it is a seed. That `mark` is
least gives the other direction, `CollectionsArePrecise`: whatever is kept is
reached from the roots or, in a fast collection, from an old object. Refinement
maps `live <- Allocated(heap)`, `edges <- heap.slots`; a collection that runs both
phases maps to one `Reclaim`.

### The VM

For every program (any functions, parameters, captured variables, globals, fields), any depth of
frames and operands. *Assumptions*: those of the heap, `ProgramAssumption`, and in each
theorem `~(MachineCode /\ NestedCalls)`: not both compiled code and calls inside
expressions. In the excluded case the theorems are false; it is finding 1,
which `vm_compiled_nested` shows, and interpreted code with nested calls and compiled
code without them are both included.

*Argument.* The inductive invariant (`Safe`) is `Healthy(heap)` and four
parts on what the VM holds. Values in sight of the program (locals, operands, globals)
exist and are no ReferenceValues; references of frames are ReferenceValues that exist (`FramesOK`,
`GlobalsOK`). A closure has a function, and its slots hold references exactly where
that function captures variables (`ClosuresOK`). The main closure exists while something runs (`MainOK`).
In compiled code a waiting frame has no operands, which is the
part that fails with nested calls. For an instruction there are three
things to show: `Safe` is kept; the heap step is a step of AbstractHeap; and what
the program can use afterwards (`InUse'`) is new or was within reach before, as
AbstractHeap demands. A call is the hard one: it allocates a
ReferenceValue for each captured parameter in a loop and then writes the arguments, with the
write barrier for each; the loops are recursive functions, followed by induction over their
counter (`CountingUp`). For GarbageCollect the proof shows that `RootSet` is `InUse`
when the running function has no operands, and the rest is HeapLemmas.

### The byte count

For all sizes of classes, any number of objects, any mix of collections and every setting.
*Assumptions*: `AccountingAssumption` (sizes and limits are naturals) and
`RoomAssumption`: where allocation goes on, 2^64 leaves room for one more object.
`MaxBytes` bounds the count there; in the program it is the memory of the machine. It is there
for the last two theorems; what the first two say of the count is modulo `WordModulus`.

*Argument.* `Sizes` is a fold over a set, so the sums need induction over finite
sets. The library's induction takes an operator; `PartsInduction` states it over a
set of sets instead, and from it come the facts that are needed: the fold is
well defined (`SumExists`), its value does not depend on the order (`AnyElementFirst`), and it splits
over a set and the rest (`SumSplits`). Then every step is arithmetic on
`Footprint + drift`: an allocation adds what it charges, a sweep takes off what its destructors
take. Adding and subtracting modulo `WordModulus` agrees with the integers
(`RemainderAdd`, `RemainderSubtract`). That the count is an over-estimate is not
inductive. `CountedHasRoom` is: without the two kinds of uncounted bytes the drift is never
negative and the exact count fits in a word, so that it is the count.

### The register allocator

For every number of variables, temporaries, registers and
instructions (`ScanAssumption`: naturals, at least one register).

*Argument.* That two owners never share a register does not follow from the set
`active` alone, because erasing by key drops operands from it that are still
live. The inductive invariant (`ScanInvariant`) says of those (`OwnersAreHeld`)
that as long as an operand still to come may meet them their register is in
`in_use` and no active operand has it. `ActiveAreHeld` makes the registers of active
operands different and in use. So a free register belongs to nothing that is still
live, and the victim's register was its alone. A full pool with nothing active
cannot arise: expiry frees a register for each operand it takes out, and a spill
that drops operands makes the new one active. `LastExists` (a set of operands has a
last element) comes from the least-number principle of the library, without
recursion.

`ClashesAlwaysExplained` needs more, because `shared_reg` is set for two reasons: a temporary
that took its variable's register, and any copy that expires. `ClashInv` separates them:
of two operands that clash one comes after its variable (`Sharers`), since a mark set on
expiry is set when nothing to come meets the temporary. If that one still has its variable's
register, the variable, which lives as long (`LiveRanges`), clashes with the
other too; and two variables never do. This is the only theorem that depends on
`LiveRanges`.

### The interpreter loop

For every verified code: any number of functions, instructions, variables and captures,
nested as deep as one likes, any jumps, calls, recursion and data. *Assumption*: LoopSpec's
`\E layout : Verified(layout)`, which is about the code only. `CodeIsVerified` checks it on
all code the compiler emits for the programs of `front_end`, and it has to be checked and not
assumed: in a program with a `ParameterClash` (finding 3) a name
can be in `free_vars_` twice over or shadow a local, and then it is not claimed. FrontEnd's steps are
those of LoopSpec (`Next == Execute /\ UNCHANGED <<program, tree>>`, with `Start` in
`Init`), so the theorems are about its runs.

*Argument.* None of the three invariants is inductive. That the stack is as long
as an instruction needs says nothing of the next one, which depends on what calls did in
between; that a closure's references are right says nothing of the activation that calls it and makes
closures of its own from them. The inductive invariant (`IInv`) is that some layout
fits (`Fits`): each frame's stack has the slots of the layout at its `ip`, where a value slot
holds a value that exists, a bare slot the function of that very `LoadFunc` *along the path of
the running function*, and a reference slot a cell that the function *sees* under that name.
A waiting frame has the layout that the instruction after its call expects, less
the result. A function sees a cell (`Sees`) when the cell's path is a prefix of its own, the
function there has the variable, and every function in between has the name in `free_vars`: what
is handed from closure to closure is one chain down the nesting. Every local, cell, record
entry and global holds a value, and no bare function or reference escapes the
stack; so `AllocClosure` can only join the function and the references that the code put
there. Objects are only added (`Extends`), so all that fitted goes on fitting when the heap
grows. Two steps are hard. `AllocClosure` extends the path by one function, and each
captured variable is then seen from one level deeper (`SeesDeeper`). A call makes the cells of
a new activation, puts arguments in cells or locals, and the references of the closure after
its own: `NewRefsSeen` shows that index and name agree for all of them.
`FunctionFrom` descends the path by a recursive function, whose existence and equation are proved
by induction on the length (`ChainExists`, `FunctionOfAppend`).

`CapturesAreLexical` then follows where scopes are disjoint: if every function between
has the name in `free_vars` and none has it as its own, the one that has it is the
nearest. `CodeIsVerified` also checks that disjointness.

### Only model-checked

Liveness (`Finishes`, `MachineFinishes`) is out of the provers' reach, and so are recursive
operators. The AST interpreter and the compilers recurse over trees, so Scopes, TreeInterpreter,
BytecodeCompiler, FrontEnd, IR, MachineCode and BackEnd are checked by TLC alone. With
them stay `SameBehaviour`, `SameFailure` and `CodeIsVerified`, which compare what these
operators compute and would need induction over programs, and the invariants of BackEnd, which
depend on what the passes and the code generator compute. The
modules with proofs use none (`HeapForCall` and `FunctionFrom` use recursive functions). That
`vm_compiled_nested` and the three other findings are violations is TLC's result by nature.

## 5. Not modelled

The `components` list in `PROJECT.json` has an entry with a reason for each part.

* *Vendored code.* `src/udis86` and `src/x64asm` are most of the repository's
  C and C++ lines (about 25000 of 35600); they encode and print instructions by tables and keep no
  state of the VM. The map covers the program's own code and not them: about
  half of the lines of `src/mitscript`, which is about a seventh of all.
* *Encoding.* Tag bits and 64-bit words, instruction lengths and with them the reach of a short jump,
  and the frame that `preamble` and `postamble` build.
* *Input and output.* `input`, `intcast`, files, options, measurement of resident memory, the parser's
  grammar, printers, the generator of tests and the bytecode checker.
* *Errors at compile time* (`CompilerErrorsScanner`), an option that is off unless asked for.
* *Text of records and functions*, the depth of the C stack in `mark` and in calls, lifetimes of the
  compilers' own objects, and `CopyOptimization`, which the code disables.
* The models of programs have no collector and the model of the collector has no
  programs: what compiled code does to the root set is in VM for all programs at
  once.

## 6. Plan

Modelled in this order: the heap and its client, the VM, the byte count, the register
allocator; then the two interpreters and the bytecode compiler, then the IR, its passes and
machine code.

The proofs follow the same order. They cover the heap, the VM, the byte count and the register
allocator, and of the path of a program the interpreter loop on verified code. What is
left is on the side of the compilers: that BytecodeCompiler emits verified code for every program,
which needs it stated over addresses in the tree instead of by recursion; a verified machine code
in the same manner, from which `StackIsBalanced` would follow for the loop of BackEnd; and the
lemmas about marks and live ranges that `UndefinedIsExplained` would need.
