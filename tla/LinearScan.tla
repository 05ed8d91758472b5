------------------------------ MODULE LinearScan ------------------------------
(***************************************************************************)
(* The register allocator of the IR optimizer                              *)
(* (src/mitscript/ir/RegisterAllocationOptimization.cpp): one scan over    *)
(* the variables and temporaries of a function in the order in which they  *)
(* become live.  A step is one turn of the loop in linear_scan_allocate.   *)
(*                                                                         *)
(* The live ranges come from VarLivenessOptimization and                   *)
(* TempLivenessOptimization and are any ranges those can leave behind.     *)
(***************************************************************************)
EXTENDS Integers, FiniteSets

CONSTANTS
  NumVars, NumTemps,  \* size of compiler.vars and compiler.temps
  NumRegs,            \* size of reg_pool
  Horizon             \* bound on the number of instructions

ASSUME ScanAssumption ==
  /\ {NumVars, NumTemps, NumRegs, Horizon} \subseteq Nat
  /\ NumRegs > 0

Vars     == 1 .. NumVars
Temps    == NumVars + 1 .. NumVars + NumTemps
Operands == Vars \cup Temps
Regs     == 1 .. NumRegs    \* in the order of reg_pool
NoReg    == 0
NoVar    == 0
Never    == Horizon + 1     \* INT_MAX

VARIABLES
  live_start, live_end,
  var,         \* the variable a temporary holds (hintVar), or NoVar
  reg,
  shared_reg,  \* the temporaries marked as using the register of a variable
  last_reg,    \* for each variable, where a temporary holding it ended
  in_use,
  active,      \* ordered by live_end and, where those are equal, by arrival
  scanned      \* the operands the loop has been through

inputs == <<live_start, live_end, var>>
vars == <<inputs, reg, shared_reg, last_reg, in_use, active, scanned>>

\* Some instruction reads it.
Used(e, o) == e[o] # Never

\* A temporary is defined before it is last used, temporaries in the order of their
\* numbers, one by an instruction but for the two of a Fork; the last use of one
\* that holds a variable extends the range of the variable.  One that is never used
\* has no end: its definition was deleted, but it is still in compiler.temps, with
\* the live_start it had.
LiveRanges(s, e, v) ==
  /\ \A x \in Vars : s[x] <= e[x] /\ Used(e, x)
  /\ \A t \in Temps : s[t] < e[t]
  /\ \A t, u \in Temps : t < u /\ Used(e, t) /\ Used(e, u) =>
        s[t] < s[u] \/ (s[t] = s[u] /\ u = t + 1)
  /\ \A t \in Temps : v[t] # NoVar /\ Used(e, t) => e[v[t]] >= e[t]

Init ==
  /\ live_start \in [Operands -> 0 .. Horizon]
  /\ live_end \in [Operands -> 0 .. Never]
  /\ var \in [Temps -> Vars \cup {NoVar}]
  /\ LiveRanges(live_start, live_end, var)
  /\ reg = [o \in Operands |-> NoReg]
  /\ shared_reg = {}
  /\ last_reg = [x \in Vars |-> NoReg]
  /\ in_use = {}
  /\ active = {}
  /\ scanned = {}

-----------------------------------------------------------------------------
(* The two orders.                                                         *)

\* Of the multiset operands: by live_start; among equals, as they were inserted,
\* variables first.
Before(a, b) ==
  live_start[a] < live_start[b] \/ (live_start[a] = live_start[b] /\ a < b)

IsNext(o) ==
  /\ o \in Operands \ scanned
  /\ \A p \in Operands \ scanned : p = o \/ Before(o, p)

\* Of the multiset active: an operand arrives when it is scanned.
EndsBefore(a, b) ==
  live_end[a] < live_end[b] \/ (live_end[a] = live_end[b] /\ Before(a, b))

LastOf(S) == CHOOSE a \in S : \A b \in S : b = a \/ EndsBefore(b, a)

HoldsVar(o, x) == o \in Temps /\ var[o] = x

-----------------------------------------------------------------------------
(* expire_old_intervals, which starts every turn.                          *)

Expired(o) == {a \in active : live_end[a] <= live_start[o]}
StillActive(o) == active \ Expired(o)

\* Mutant of StillInUse: a range that ends where the next one starts overlaps it
\* in the set of registers only.
StillInUse_one_late(o) ==
  in_use \ {reg[a] : a \in {b \in active : live_end[b] < live_start[o]}}

\* deallocate_reg of each expired operand.
StillInUse(o) == in_use \ {reg[a] : a \in Expired(o)}

\* Mutant of LastRegs: the temporary is kept instead of its register.
LastRegs_temp(o) ==
  [x \in Vars |->
     LET copies == {a \in Expired(o) : HoldsVar(a, x)}
     IN  IF copies = {} THEN last_reg[x] ELSE LastOf(copies)]

LastRegs(o) ==
  [x \in Vars |->
     LET copies == {a \in Expired(o) : HoldsVar(a, x)}
     IN  IF copies = {} THEN last_reg[x] ELSE reg[LastOf(copies)]]

Marked(o) == {a \in Expired(o) : a \in Temps /\ var[a] # NoVar}

\* What every turn does besides deciding about o.
Turn(o) ==
  /\ IsNext(o)
  /\ scanned' = scanned \cup {o}
  /\ last_reg' = LastRegs(o)
  /\ UNCHANGED inputs

-----------------------------------------------------------------------------
(* The ways a turn can end.                                                *)

TakesVarRegister(o) ==
  o \in Temps /\ var[o] # NoVar /\ reg[var[o]] # NoReg

\* Mutant of ShareRegister: the sharing is not marked.
ShareRegister_unmarked(o) ==
  /\ Turn(o)
  /\ TakesVarRegister(o)
  /\ reg' = [reg EXCEPT ![o] = reg[var[o]]]
  /\ shared_reg' = shared_reg \cup Marked(o)
  /\ in_use' = StillInUse(o)
  /\ active' = StillActive(o)

\* A temporary that holds a variable uses the variable's register, unrecorded.
ShareRegister(o) ==
  /\ Turn(o)
  /\ TakesVarRegister(o)
  /\ reg' = [reg EXCEPT ![o] = reg[var[o]]]
  /\ shared_reg' = shared_reg \cup Marked(o) \cup {o}
  /\ in_use' = StillInUse(o)
  /\ active' = StillActive(o)

has_free_reg(o) == Cardinality(StillInUse(o)) < NumRegs

\* Mutant of allocate_reg: the register a variable ended in is taken without a
\* look at in_use.
allocate_reg_last(o) ==
  IF o \in Vars /\ LastRegs(o)[o] # NoReg
  THEN LastRegs(o)[o]
  ELSE CHOOSE r \in Regs \ StillInUse(o) : \A q \in Regs \ StillInUse(o) : r <= q

\* The register in which a copy of the variable ended, if it is free, or the
\* first free one.
allocate_reg(o) ==
  IF o \in Vars /\ LastRegs(o)[o] # NoReg /\ LastRegs(o)[o] \notin StillInUse(o)
  THEN LastRegs(o)[o]
  ELSE CHOOSE r \in Regs \ StillInUse(o) : \A q \in Regs \ StillInUse(o) : r <= q

TakeFreeRegister(o) ==
  /\ Turn(o)
  /\ ~TakesVarRegister(o)
  /\ has_free_reg(o)
  /\ reg' = [reg EXCEPT ![o] = allocate_reg(o)]
  /\ in_use' = StillInUse(o) \cup {allocate_reg(o)}
  /\ active' = StillActive(o) \cup {o}
  /\ shared_reg' = shared_reg \cup Marked(o)

\* Mutant of spill_at_interval: the operand does not become active.
spill_at_interval_inactive(o) ==
  LET spill == LastOf(StillActive(o))
  IN  IF live_end[spill] > live_end[o]
      THEN /\ reg' = [reg EXCEPT ![o] = reg[spill], ![spill] = NoReg]
           /\ active' = StillActive(o) \ {spill}
      ELSE /\ active' = StillActive(o)
           /\ UNCHANGED reg

\* The operand or the one that is live longest goes without a register.
\* active.erase(spill) is by key: whatever ends where spill ends goes with it.
spill_at_interval(o) ==
  LET spill == LastOf(StillActive(o))
  IN  IF live_end[spill] > live_end[o]
      THEN /\ reg' = [reg EXCEPT ![o] = reg[spill], ![spill] = NoReg]
           /\ active' = {a \in StillActive(o) : live_end[a] # live_end[spill]} \cup {o}
      ELSE /\ active' = StillActive(o)
           /\ UNCHANGED reg

\* *(active.rbegin()) is read whether active is empty or not.
Spill(o) ==
  /\ Turn(o)
  /\ ~TakesVarRegister(o)
  /\ ~has_free_reg(o)
  /\ spill_at_interval(o)
  /\ in_use' = StillInUse(o)
  /\ shared_reg' = shared_reg \cup Marked(o)

Next == \E o \in Operands : ShareRegister(o) \/ TakeFreeRegister(o) \/ Spill(o)

Spec == Init /\ [][Next]_vars

-----------------------------------------------------------------------------
(* Properties.                                                             *)

\* Type correctness.
TypeOK ==
  /\ live_start \in [Operands -> 0 .. Horizon]
  /\ live_end \in [Operands -> 0 .. Never]
  /\ var \in [Temps -> Vars \cup {NoVar}]
  /\ reg \in [Operands -> Regs \cup {NoReg}]
  /\ last_reg \in [Vars -> Regs \cup {NoReg}]
  /\ shared_reg \subseteq Temps
  /\ in_use \subseteq Regs
  /\ active \subseteq scanned /\ scanned \subseteq Operands

Overlap(a, b) == live_start[a] < live_end[b] /\ live_start[b] < live_end[a]

\* What a and b stand for has one value while both are live: they are one
\* variable and its copies.
OneVariable(a, b) ==
  \/ HoldsVar(a, b) \/ HoldsVar(b, a)
  \/ a \in Temps /\ b \in Temps /\ var[a] # NoVar /\ var[a] = var[b]

SameRegister(a, b) == a # b /\ reg[a] # NoReg /\ reg[a] = reg[b] /\ Overlap(a, b)

\* Neither is a leftover of deleted code.
BothUsed(a, b) == Used(live_end, a) /\ Used(live_end, b)

\* Two operands that are live at the same time and are not a variable and its
\* copies are in one register only if one is a copy that outlived its variable's
\* stay there: the variable was spilled after the copy had taken its register
\* (spill_at_interval takes the register from the variable alone).
ClashesComeFromSpills ==
  \A a, b \in Operands :
    SameRegister(a, b) /\ BothUsed(a, b) /\ ~OneVariable(a, b)
      => \E c \in {a, b} \cap shared_reg : reg[var[c]] # reg[c]

\* Of two operands that are live at the same time in one register, one is a
\* temporary marked shared_reg: no two owners of registers ever clash, however
\* registers were freed, spilled and preferred, and the code generator does not free
\* or overwrite the register under the other one (dead and read_temp in
\* asm/Compiler.cpp go by that mark).
SharingIsMarked ==
  \A a, b \in Operands : SameRegister(a, b) => {a, b} \cap shared_reg # {}

\* While all registers are in use some operand is active: spill_at_interval, which
\* reads the last element of active unasked, always finds one, whatever erase by
\* key dropped before.
SpillFindsVictim == Cardinality(in_use) = NumRegs => active # {}

\* A register in use is held for an active operand, unless the operand it belongs
\* to was dropped by key with a spilled one that ends in the same place: only then
\* is a register lost to the rest of the function and more spilled than the pool
\* asks for (in_use and active, kept in parallel by four functions).
LeaksComeFromEqualEnds ==
  \A r \in in_use \ {reg[a] : a \in active} :
    \E b, c \in scanned :
      b # c /\ live_end[b] = live_end[c] /\ reg[b] = r /\ reg[c] = NoReg

-----------------------------------------------------------------------------
(* The inductive invariant.  Active operands own different registers, all  *)
(* in use.  An operand that owns one and is no longer active, because it   *)
(* was dropped by key, still has it to itself for as long as it is live.   *)

\* Nothing that is still to be scanned is live together with b.
Past(b) == \A o \in Operands \ scanned : live_end[b] <= live_start[o]

ActiveAreHeld ==
  /\ \A a \in active : reg[a] \in in_use
  /\ \A a, b \in active : a # b => reg[a] # reg[b]
  /\ active \cap shared_reg = {}

OwnersAreHeld ==
  /\ shared_reg \subseteq scanned
  /\ \A o \in Operands \ scanned : reg[o] = NoReg
  /\ \A b \in scanned \ shared_reg :
        reg[b] # NoReg /\ ~Past(b)
          => reg[b] \in in_use /\ \A a \in active : a # b => reg[a] # reg[b]

IInv ==
  TypeOK /\ ActiveAreHeld /\ OwnersAreHeld /\ SharingIsMarked /\ SpillFindsVictim
=============================================================================
