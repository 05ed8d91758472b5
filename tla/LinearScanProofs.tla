--------------------------- MODULE LinearScanProofs ---------------------------
(* What linear_scan_allocate keeps true for any number of operands,        *)
(* registers and instructions.                                             *)
EXTENDS LinearScan, NumberLemmas, FiniteSetTheorems, TLAPS

-----------------------------------------------------------------------------
(* The last element of active.                                             *)

\* Operands are numbered, and positions in the code are numbers, INT_MAX among them.
LEMMA OperandsAreIntegers ==
  /\ Operands \subseteq 1 .. NumVars + NumTemps
  /\ Never \in Nat /\ Horizon \in Nat /\ NumVars + NumTemps \in Nat
BY ScanAssumption DEF ScanAssumption, Operands, Vars, Temps, Never

\* EndsBefore, the order of active, has a last element in every set of operands
\* that is not empty (*(active.rbegin()) in spill_at_interval).
LEMMA LastExists ==
  ASSUME TypeOK, NEW S \in SUBSET Operands, S # {}
  PROVE  LastOf(S) \in S
<1>1. /\ live_start \in [Operands -> 0 .. Horizon]
      /\ live_end \in [Operands -> 0 .. Never]
  BY DEF TypeOK
<1>r. \A x \in S : /\ live_end[x] \in Nat /\ live_end[x] <= Never
                   /\ live_start[x] \in Nat /\ live_start[x] <= Horizon
                   /\ x \in Nat /\ x <= NumVars + NumTemps
  BY <1>1, OperandsAreIntegers
<1>n. \A m, n \in Nat : n <= m => m - n \in Nat
  OBVIOUS
<1>2. PICK a \in S : \A x \in S : live_end[x] <= live_end[a]
  <2> DEFINE T == {Never - live_end[x] : x \in S}
  <2>1. T \in SUBSET Nat /\ T # {}
    BY <1>r, <1>n, OperandsAreIntegers
  <2>2. PICK m \in T : \A n \in T : m <= n
    <3> HIDE DEF T
    <3> QED BY <2>1, LeastNatural
  <2>3. PICK a \in S : m = Never - live_end[a]
    BY <2>2
  <2>4. \A x \in S : Never - live_end[a] <= Never - live_end[x]
    BY <2>2, <2>3
  <2> QED BY <2>4, <1>r, OperandsAreIntegers
<1> DEFINE S1 == {x \in S : live_end[x] = live_end[a]}
<1>3. PICK b \in S1 : \A x \in S1 : live_start[x] <= live_start[b]
  <2> DEFINE T == {Horizon - live_start[x] : x \in S1}
  <2>1. T \in SUBSET Nat /\ T # {}
    BY <1>r, <1>n, OperandsAreIntegers
  <2>2. PICK m \in T : \A n \in T : m <= n
    <3> HIDE DEF T
    <3> QED BY <2>1, LeastNatural
  <2>3. PICK b \in S1 : m = Horizon - live_start[b]
    BY <2>2
  <2>4. \A x \in S1 : Horizon - live_start[b] <= Horizon - live_start[x]
    BY <2>2, <2>3
  <2> QED BY <2>4, <1>r, OperandsAreIntegers
<1> DEFINE S2 == {x \in S1 : live_start[x] = live_start[b]}
<1>4. PICK c \in S2 : \A x \in S2 : x <= c
  <2> DEFINE N == NumVars + NumTemps
             T == {N - x : x \in S2}
  <2>1. T \in SUBSET Nat /\ T # {}
    BY <1>r, <1>n, OperandsAreIntegers
  <2>2. PICK m \in T : \A n \in T : m <= n
    <3> HIDE DEF T
    <3> QED BY <2>1, LeastNatural
  <2>3. PICK c \in S2 : m = N - c
    BY <2>2
  <2>4. \A x \in S2 : N - c <= N - x
    BY <2>2, <2>3
  <2> QED BY <2>4, <1>r, OperandsAreIntegers
<1>5. \A x \in S : x = c \/ EndsBefore(x, c)
  <2> SUFFICES ASSUME NEW x \in S, x # c
               PROVE  EndsBefore(x, c)
    OBVIOUS
  <2>1. /\ live_end[x] \in Int /\ live_end[c] \in Int
        /\ live_start[x] \in Int /\ live_start[c] \in Int
        /\ x \in Int /\ c \in Int
    BY <1>r
  <2>2. live_end[x] <= live_end[c]
    BY <1>2
  <2>3. live_end[x] = live_end[c] => live_start[x] <= live_start[c]
    BY <1>3
  <2>4. live_end[x] = live_end[c] /\ live_start[x] = live_start[c] => x <= c
    BY <1>4
  <2> QED BY <2>1, <2>2, <2>3, <2>4 DEF EndsBefore, Before
<1> QED BY <1>5 DEF LastOf

-----------------------------------------------------------------------------
(* Expiry.                                                                 *)

\* in_use.size() < reg_pool.size() says that some register is free.
LEMMA FullMeansAll ==
  ASSUME NEW S \in SUBSET Regs
  PROVE  /\ Cardinality(S) = NumRegs <=> S = Regs
         /\ Cardinality(S) < NumRegs <=> S # Regs
<1>1. IsFiniteSet(Regs) /\ Cardinality(Regs) = NumRegs
  BY FS_Interval, ScanAssumption DEF ScanAssumption, Regs
<1>2. /\ Cardinality(S) <= Cardinality(Regs)
      /\ Cardinality(Regs) = Cardinality(S) => S = Regs
  BY <1>1, FS_Subset
<1>3. Cardinality(S) \in Nat /\ NumRegs \in Nat
  BY <1>1, FS_Subset, FS_CardinalityType, ScanAssumption DEF ScanAssumption
<1> QED BY <1>1, <1>2, <1>3

\* What expire_old_intervals leaves: the registers of the operands that stay active
\* stay in use; so does that of any owner that later operands still meet, and no
\* other register can hurt o; if all registers are in use, none has expired.
LEMMA ExpiryFacts ==
  ASSUME IInv, NEW o \in Operands, IsNext(o)
  PROVE  /\ StillInUse(o) \subseteq in_use /\ StillActive(o) \subseteq active
         /\ \A a \in StillActive(o) : reg[a] \in StillInUse(o)
         /\ \A b \in scanned \ shared_reg :
               reg[b] # NoReg
                 /\ (\E p \in Operands \ (scanned \cup {o}) : live_end[b] > live_start[p])
               => /\ b \notin Expired(o)
                  /\ reg[b] \in StillInUse(o)
                  /\ \A a \in active : a # b => reg[a] # reg[b]
         /\ \A b \in Operands \ shared_reg :
               b # o /\ reg[b] # NoReg /\ Overlap(o, b)
                 => /\ b \in scanned
                    /\ reg[b] \in StillInUse(o)
                    /\ \A a \in active : a # b => reg[a] # reg[b]
         /\ StillInUse(o) = Regs => StillActive(o) # {}
<1>0. /\ \A x \in Operands : live_start[x] \in Int /\ live_end[x] \in Int
      /\ active \subseteq scanned /\ scanned \subseteq Operands
      /\ in_use \subseteq Regs
  BY OperandsAreIntegers DEF IInv, TypeOK
<1>1. StillInUse(o) \subseteq in_use /\ StillActive(o) \subseteq active
  BY DEF StillInUse, StillActive
<1>2. \A a \in StillActive(o) : reg[a] \in StillInUse(o)
  BY DEF IInv, ActiveAreHeld, StillInUse, StillActive, Expired
<1>3. \A p \in Operands \ scanned : live_start[o] <= live_start[p]
  BY <1>0 DEF IsNext, Before
<1>4. \A b \in scanned \ shared_reg :
        reg[b] # NoReg
          /\ (\E p \in Operands \ (scanned \cup {o}) : live_end[b] > live_start[p])
        => /\ b \notin Expired(o)
           /\ reg[b] \in StillInUse(o)
           /\ \A a \in active : a # b => reg[a] # reg[b]
  <2> SUFFICES ASSUME NEW b \in scanned \ shared_reg, reg[b] # NoReg,
                      NEW p \in Operands \ (scanned \cup {o}), live_end[b] > live_start[p]
               PROVE  /\ b \notin Expired(o)
                      /\ reg[b] \in StillInUse(o)
                      /\ \A a \in active : a # b => reg[a] # reg[b]
    OBVIOUS
  <2>1. ~Past(b)
    BY <1>0 DEF Past
  <2>2. reg[b] \in in_use /\ \A a \in active : a # b => reg[a] # reg[b]
    BY <2>1 DEF IInv, OwnersAreHeld
  <2>3. b \notin Expired(o)
    BY <1>0, <1>3 DEF Expired
  <2> QED BY <2>2, <2>3 DEF StillInUse, Expired
<1>5. \A b \in Operands \ shared_reg :
        b # o /\ reg[b] # NoReg /\ Overlap(o, b)
          => /\ b \in scanned
             /\ reg[b] \in StillInUse(o)
             /\ \A a \in active : a # b => reg[a] # reg[b]
  <2> SUFFICES ASSUME NEW b \in Operands \ shared_reg, b # o, reg[b] # NoReg, Overlap(o, b)
               PROVE  /\ b \in scanned
                      /\ reg[b] \in StillInUse(o)
                      /\ \A a \in active : a # b => reg[a] # reg[b]
    OBVIOUS
  <2>1. b \in scanned
    BY DEF IInv, OwnersAreHeld
  <2>2. live_end[b] > live_start[o]
    BY <1>0 DEF Overlap
  <2>3. ~Past(b)
    BY <1>0, <2>2 DEF Past, IsNext
  <2>4. reg[b] \in in_use /\ \A a \in active : a # b => reg[a] # reg[b]
    BY <2>1, <2>3 DEF IInv, OwnersAreHeld
  <2>5. b \notin Expired(o)
    BY <1>0, <2>2 DEF Expired
  <2> QED BY <2>1, <2>4, <2>5 DEF StillInUse, Expired
<1>6. StillInUse(o) = Regs => StillActive(o) # {}
  <2> SUFFICES ASSUME StillInUse(o) = Regs
               PROVE  StillActive(o) # {}
    OBVIOUS
  <2>1. in_use = Regs
    BY <1>0, <1>1
  <2>2. active # {}
    BY <2>1, FullMeansAll DEF IInv, SpillFindsVictim
  <2>3. Expired(o) = {}
    BY <1>0 DEF StillInUse, Expired, IInv, ActiveAreHeld
  <2> QED BY <2>2, <2>3 DEF StillActive
<1> QED BY <1>1, <1>2, <1>4, <1>5, <1>6

-----------------------------------------------------------------------------
(* One turn of the loop.                                                   *)

\* The invariant holds before the loop, with no operand scanned and no register
\* taken.
LEMMA InitIInv ==
  ASSUME Init
  PROVE  IInv
<1>1. TypeOK
  BY DEF Init, TypeOK
<1>2. ActiveAreHeld /\ OwnersAreHeld /\ SharingIsMarked
  BY DEF Init, ActiveAreHeld, OwnersAreHeld, SharingIsMarked, SameRegister
<1>3. SpillFindsVictim
  BY FS_EmptySet, ScanAssumption DEF Init, SpillFindsVictim, ScanAssumption
<1> QED BY <1>1, <1>2, <1>3 DEF IInv

\* What every turn keeps of the types.
LEMMA TurnTypes ==
  ASSUME IInv, NEW o \in Operands, Turn(o)
  PROVE  /\ live_start' \in [Operands -> 0 .. Horizon]
         /\ live_end' \in [Operands -> 0 .. Never]
         /\ var' \in [Temps -> Vars \cup {NoVar}]
         /\ last_reg' \in [Vars -> Regs \cup {NoReg}]
         /\ scanned' \subseteq Operands /\ StillActive(o) \subseteq scanned'
         /\ Marked(o) \subseteq Temps /\ Marked(o) \subseteq scanned
         /\ Marked(o) \cap StillActive(o) = {}
         /\ StillInUse(o) \subseteq Regs
<1>1. TypeOK
  BY DEF IInv
<1>2. last_reg' \in [Vars -> Regs \cup {NoReg}]
  <2> SUFFICES ASSUME NEW x \in Vars
               PROVE  LastRegs(o)[x] \in Regs \cup {NoReg}
    BY DEF Turn, LastRegs
  <2> DEFINE copies == {a \in Expired(o) : HoldsVar(a, x)}
  <2>1. CASE copies = {}
    BY <1>1, <2>1 DEF LastRegs, TypeOK
  <2>2. CASE copies # {}
    <3>1. copies \in SUBSET Operands
      BY <1>1 DEF Expired, TypeOK
    <3>2. LastOf(copies) \in Operands
      <4> HIDE DEF copies
      <4> QED BY <1>1, <2>2, <3>1, LastExists
    <3> QED BY <1>1, <2>2, <3>2 DEF LastRegs, TypeOK
  <2> QED BY <2>1, <2>2
<1>3. /\ live_start' \in [Operands -> 0 .. Horizon]
      /\ live_end' \in [Operands -> 0 .. Never]
      /\ var' \in [Temps -> Vars \cup {NoVar}]
  BY <1>1 DEF TypeOK, Turn, inputs
<1>4. scanned' \subseteq Operands /\ StillActive(o) \subseteq scanned'
  BY <1>1 DEF TypeOK, Turn, StillActive
<1>5. /\ Marked(o) \subseteq Temps /\ Marked(o) \subseteq scanned
      /\ Marked(o) \cap StillActive(o) = {}
  BY <1>1 DEF TypeOK, Marked, Expired, StillActive
<1>6. StillInUse(o) \subseteq Regs
  BY <1>1 DEF TypeOK, StillInUse
<1> QED BY <1>2, <1>3, <1>4, <1>5, <1>6

\* An operand may still meet a later one after the turn only if it may before it.
LEMMA PastAfterTurn ==
  ASSUME IInv, NEW o \in Operands, Turn(o), NEW b \in Operands, ~Past(b)'
  PROVE  \E p \in Operands \ (scanned \cup {o}) : live_end[b] > live_start[p]
<1>1. \A x \in Operands : live_start[x] \in Int /\ live_end[x] \in Int
  BY OperandsAreIntegers DEF IInv, TypeOK
<1> QED BY <1>1 DEF Past, Turn, inputs

\* A temporary that takes the register of its variable (is marked, and leaves
\* active and in_use alone) keeps the invariant.
LEMMA ShareKeepsIInv ==
  ASSUME IInv, NEW o \in Operands, ShareRegister(o)
  PROVE  IInv'
<1>0. Turn(o) /\ IsNext(o) /\ TypeOK
  BY DEF ShareRegister, Turn, IInv
<1>1. TypeOK'
  <2>1. o \in Temps /\ reg[var[o]] \in Regs
    BY <1>0 DEF ShareRegister, TakesVarRegister, TypeOK, Operands, Regs
  <2> QED BY <1>0, <2>1, TurnTypes DEF ShareRegister, TypeOK
<1>2. o \notin active /\ o \notin scanned
  BY <1>0 DEF IsNext, TypeOK
<1>3. ActiveAreHeld'
  BY <1>0, <1>2, ExpiryFacts, TurnTypes DEF ShareRegister, ActiveAreHeld, IInv, TypeOK
<1>4. OwnersAreHeld'
  <2>1. shared_reg' \subseteq scanned'
    BY <1>0, TurnTypes DEF ShareRegister, Turn, IInv, OwnersAreHeld
  <2>2. \A p \in Operands \ scanned' : reg'[p] = NoReg
    BY <1>0 DEF ShareRegister, Turn, IInv, OwnersAreHeld, TypeOK
  <2>3. ASSUME NEW b \in scanned' \ shared_reg', reg'[b] # NoReg, ~Past(b)'
        PROVE  reg'[b] \in in_use' /\ \A a \in active' : a # b => reg'[a] # reg'[b]
    <3>1. b \in scanned \ shared_reg /\ b # o /\ b \in Operands
      BY <1>0 DEF ShareRegister, Turn, TypeOK
    <3>2. reg'[b] = reg[b] /\ \A a \in active' : reg'[a] = reg[a] /\ a \in active
      BY <1>0, <1>2, <3>1 DEF ShareRegister, StillActive, TypeOK
    <3>3. \E p \in Operands \ (scanned \cup {o}) : live_end[b] > live_start[p]
      BY <1>0, <2>3, <3>1, PastAfterTurn
    <3> QED BY <1>0, <2>3, <3>1, <3>2, <3>3, ExpiryFacts DEF ShareRegister
  <2> QED BY <2>1, <2>2, <2>3 DEF OwnersAreHeld
<1>5. SharingIsMarked'
  BY <1>0 DEF ShareRegister, Turn, inputs, IInv, SharingIsMarked, SameRegister, Overlap, TypeOK
<1>6. SpillFindsVictim'
  BY <1>0, <1>1, ExpiryFacts, FullMeansAll, TurnTypes DEF ShareRegister, SpillFindsVictim
<1> QED BY <1>1, <1>3, <1>4, <1>5, <1>6 DEF IInv

\* allocate_reg returns a register of the pool that is not in use.
LEMMA AllocatedIsFree ==
  ASSUME IInv, NEW o \in Operands, Turn(o), has_free_reg(o)
  PROVE  allocate_reg(o) \in Regs \ StillInUse(o)
<1>1. StillInUse(o) \in SUBSET Regs /\ StillInUse(o) # Regs
  <2>1. StillInUse(o) \in SUBSET Regs
    BY TurnTypes
  <2> QED BY <2>1, FullMeansAll DEF has_free_reg
<1>2. CASE o \in Vars /\ LastRegs(o)[o] # NoReg /\ LastRegs(o)[o] \notin StillInUse(o)
  <2>1. LastRegs(o)[o] \in Regs \cup {NoReg}
    BY <1>2, TurnTypes DEF Turn
  <2> QED BY <1>2, <2>1 DEF allocate_reg
<1>3. CASE ~(o \in Vars /\ LastRegs(o)[o] # NoReg /\ LastRegs(o)[o] \notin StillInUse(o))
  <2> DEFINE T == Regs \ StillInUse(o)
  <2>0. Regs \subseteq Nat
    BY DEF Regs
  <2>1. T \in SUBSET Nat
    BY <2>0
  <2>2. T # {}
    BY <1>1
  <2>3. \E m \in T : \A n \in T : m <= n
    <3> HIDE DEF T
    <3> QED BY <2>1, <2>2, LeastNatural
  <2> QED BY <1>3, <2>3 DEF allocate_reg
<1> QED BY <1>2, <1>3

\* An operand that gets a free register keeps the invariant: the register was held
\* by nothing that is still live, so it is the operand's own.
LEMMA TakeKeepsIInv ==
  ASSUME IInv, NEW o \in Operands, TakeFreeRegister(o)
  PROVE  IInv'
<1> DEFINE r == allocate_reg(o)
<1>0. Turn(o) /\ IsNext(o) /\ TypeOK
  BY DEF TakeFreeRegister, Turn, IInv
<1>r. r \in Regs \ StillInUse(o) /\ r # NoReg
  BY <1>0, AllocatedIsFree DEF TakeFreeRegister, Regs, NoReg
<1>t. /\ reg' = [reg EXCEPT ![o] = r]
      /\ in_use' = StillInUse(o) \cup {r}
      /\ active' = StillActive(o) \cup {o}
      /\ shared_reg' = shared_reg \cup Marked(o)
      /\ scanned' = scanned \cup {o}
      /\ UNCHANGED <<live_start, live_end, var>>
  BY <1>0 DEF TakeFreeRegister, Turn, inputs
<1> HIDE DEF r
<1>1. TypeOK'
  BY <1>0, <1>r, <1>t, TurnTypes DEF TypeOK
<1>2. o \notin active /\ o \notin scanned /\ o \notin shared_reg /\ o \notin Marked(o)
  BY <1>0, TurnTypes DEF IsNext, TypeOK, IInv, OwnersAreHeld
<1>e. /\ \A x \in Operands : x # o => reg'[x] = reg[x]
      /\ reg'[o] = r
      /\ \A a \in StillActive(o) : a \in Operands /\ a # o /\ a \in active
  BY <1>0, <1>2, <1>t DEF TypeOK, StillActive
<1>3. ActiveAreHeld'
  <2>1. \A a \in active' : reg'[a] \in in_use'
    BY <1>0, <1>t, <1>e, ExpiryFacts
  <2>2. \A a, c \in active' : a # c => reg'[a] # reg'[c]
    BY <1>0, <1>r, <1>t, <1>e, ExpiryFacts DEF IInv, ActiveAreHeld
  <2>3. active' \cap shared_reg' = {}
    BY <1>0, <1>2, <1>t, <1>e, TurnTypes DEF IInv, ActiveAreHeld
  <2> QED BY <2>1, <2>2, <2>3 DEF ActiveAreHeld
<1>4. OwnersAreHeld'
  <2>1. shared_reg' \subseteq scanned'
    BY <1>0, <1>t, TurnTypes DEF IInv, OwnersAreHeld
  <2>2. \A p \in Operands \ scanned' : reg'[p] = NoReg
    BY <1>t, <1>e DEF IInv, OwnersAreHeld
  <2>3. ASSUME NEW b \in scanned' \ shared_reg', reg'[b] # NoReg, ~Past(b)'
        PROVE  reg'[b] \in in_use' /\ \A a \in active' : a # b => reg'[a] # reg'[b]
    <3>1. CASE b = o
      BY <1>0, <1>r, <1>t, <1>e, <3>1, ExpiryFacts
    <3>2. CASE b # o
      <4>1. b \in scanned \ shared_reg /\ b \in Operands
        BY <1>0, <1>t, <3>2 DEF TypeOK
      <4>2. \E p \in Operands \ (scanned \cup {o}) : live_end[b] > live_start[p]
        BY <1>0, <2>3, <4>1, PastAfterTurn
      <4>3. /\ reg[b] \in StillInUse(o)
            /\ \A a \in active : a # b => reg[a] # reg[b]
        BY <1>0, <1>e, <2>3, <3>2, <4>1, <4>2, ExpiryFacts
      <4> QED BY <1>r, <1>t, <1>e, <3>2, <4>1, <4>3
    <3> QED BY <3>1, <3>2
  <2> QED BY <2>1, <2>2, <2>3 DEF OwnersAreHeld
<1>5. SharingIsMarked'
  <2>1. ASSUME NEW b \in Operands \ shared_reg, b # o, reg'[b] = r, Overlap(o, b)
        PROVE  FALSE
    BY <1>0, <1>r, <1>e, <2>1, ExpiryFacts
  <2>2. \A a, b \in Operands : Overlap(a, b)' <=> Overlap(a, b)
    BY <1>t DEF Overlap
  <2>3. \A a, b \in Operands : Overlap(a, b) <=> Overlap(b, a)
    BY DEF Overlap
  <2>4. ASSUME NEW a \in Operands, NEW b \in Operands, SameRegister(a, b)'
        PROVE  {a, b} \cap shared_reg # {}
    <3>1. CASE a = o
      BY <1>e, <2>1, <2>2, <2>4, <3>1 DEF SameRegister
    <3>2. CASE b = o
      BY <1>e, <2>1, <2>2, <2>3, <2>4, <3>2 DEF SameRegister
    <3>3. CASE a # o /\ b # o
      BY <1>e, <2>2, <2>4, <3>3 DEF SameRegister, IInv, SharingIsMarked
    <3> QED BY <3>1, <3>2, <3>3
  <2> QED BY <1>t, <2>4 DEF SharingIsMarked
<1>6. SpillFindsVictim'
  BY <1>t DEF SpillFindsVictim
<1> QED BY <1>1, <1>3, <1>4, <1>5, <1>6 DEF IInv

\* A spill keeps the invariant, whether the operand goes without a register or
\* takes that of the victim: what erase by key drops besides the victim still has
\* its register in in_use.
LEMMA SpillKeepsIInv ==
  ASSUME IInv, NEW o \in Operands, Spill(o)
  PROVE  IInv'
<1> DEFINE s == LastOf(StillActive(o))
<1>0. Turn(o) /\ IsNext(o) /\ TypeOK
  BY DEF Spill, Turn, IInv
<1>f. StillInUse(o) = Regs /\ StillActive(o) # {}
  <2>1. StillInUse(o) \in SUBSET Regs
    BY <1>0, TurnTypes
  <2>2. StillInUse(o) = Regs
    BY <2>1, FullMeansAll DEF Spill, has_free_reg
  <2> QED BY <1>0, <2>2, ExpiryFacts
<1>s. s \in StillActive(o)
  <2>1. StillActive(o) \in SUBSET Operands
    BY <1>0 DEF TypeOK, StillActive
  <2> QED BY <1>0, <1>f, <2>1, LastExists
<1>t. /\ in_use' = StillInUse(o)
      /\ shared_reg' = shared_reg \cup Marked(o)
      /\ scanned' = scanned \cup {o}
      /\ UNCHANGED <<live_start, live_end, var>>
  BY <1>0 DEF Spill, Turn, inputs
<1>c. \/ /\ reg' = [reg EXCEPT ![o] = reg[s], ![s] = NoReg]
         /\ active' \subseteq (StillActive(o) \ {s}) \cup {o} /\ o \in active'
      \/ reg' = reg /\ active' = StillActive(o)
  BY DEF Spill, spill_at_interval
<1> HIDE DEF s
<1>2. o \notin active /\ o \notin scanned /\ o \notin shared_reg /\ o \notin Marked(o)
  BY <1>0, TurnTypes DEF IsNext, TypeOK, IInv, OwnersAreHeld
<1>3. /\ \A a \in StillActive(o) : a \in Operands /\ a # o /\ a \in active
      /\ s \in Operands /\ s # o /\ s \in active /\ s \in scanned
      /\ reg[s] \in Regs /\ reg[s] \in StillInUse(o) /\ reg[s] # NoReg
  BY <1>0, <1>2, <1>s, <1>f, ExpiryFacts DEF TypeOK, StillActive, Regs, NoReg
<1>5. SpillFindsVictim'
  BY <1>c, <1>f DEF SpillFindsVictim
<1>a. CASE /\ reg' = [reg EXCEPT ![o] = reg[s], ![s] = NoReg]
           /\ active' \subseteq (StillActive(o) \ {s}) \cup {o} /\ o \in active'
  <2>e. /\ \A x \in Operands : x # o /\ x # s => reg'[x] = reg[x]
        /\ reg'[o] = reg[s] /\ reg'[s] = NoReg
    BY <1>a, <1>0, <1>3 DEF TypeOK
  <2>1. TypeOK'
    BY <1>a, <1>0, <1>3, <1>t, TurnTypes DEF TypeOK
  <2>2. ActiveAreHeld'
    <3>1. \A a \in active' : reg'[a] \in in_use'
      <4>1. \A a \in StillActive(o) : reg[a] \in StillInUse(o)
        BY <1>0, ExpiryFacts
      <4> QED BY <1>a, <1>3, <1>t, <2>e, <4>1
    <3>2. ASSUME NEW a \in active', NEW c \in active', a # c
          PROVE  reg'[a] # reg'[c]
      <4>1. \A x, y \in active : x # y => reg[x] # reg[y]
        BY DEF IInv, ActiveAreHeld
      <4>2. \A x \in active' : x # o => x \in active /\ x # s /\ reg'[x] = reg[x]
        BY <1>a, <1>3, <2>e
      <4>3. CASE a = o
        BY <1>3, <2>e, <3>2, <4>1, <4>2, <4>3
      <4>4. CASE c = o
        BY <1>3, <2>e, <3>2, <4>1, <4>2, <4>4
      <4>5. CASE a # o /\ c # o
        BY <3>2, <4>1, <4>2, <4>5
      <4> QED BY <4>3, <4>4, <4>5
    <3>3. active' \cap shared_reg' = {}
      <4>1. active \cap shared_reg = {}
        BY DEF IInv, ActiveAreHeld
      <4>2. StillActive(o) \cap Marked(o) = {}
        BY <1>0, TurnTypes
      <4> QED BY <1>a, <1>2, <1>3, <1>t, <4>1, <4>2
    <3> QED BY <3>1, <3>2, <3>3 DEF ActiveAreHeld
  <2>3. OwnersAreHeld'
    <3>1. shared_reg' \subseteq scanned'
      BY <1>0, <1>t, TurnTypes DEF IInv, OwnersAreHeld
    <3>2. \A p \in Operands \ scanned' : reg'[p] = NoReg
      BY <1>3, <1>t, <2>e DEF IInv, OwnersAreHeld
    <3>3. ASSUME NEW b \in scanned' \ shared_reg', reg'[b] # NoReg, ~Past(b)'
          PROVE  reg'[b] \in in_use' /\ \A a \in active' : a # b => reg'[a] # reg'[b]
      <4>1. CASE b = o
        BY <1>a, <1>3, <1>t, <2>e, <4>1 DEF IInv, ActiveAreHeld
      <4>2. CASE b # o
        <5>1. b \in scanned \ shared_reg /\ b \in Operands /\ b # s
          BY <1>0, <1>t, <2>e, <3>3, <4>2 DEF TypeOK
        <5>2. \E p \in Operands \ (scanned \cup {o}) : live_end[b] > live_start[p]
          BY <1>0, <3>3, <5>1, PastAfterTurn
        <5>3. /\ reg[b] \in StillInUse(o)
              /\ \A a \in active : a # b => reg[a] # reg[b]
          BY <1>0, <2>e, <3>3, <4>2, <5>1, <5>2, ExpiryFacts
        <5> QED BY <1>a, <1>3, <1>t, <2>e, <4>2, <5>1, <5>3
      <4> QED BY <4>1, <4>2
    <3> QED BY <3>1, <3>2, <3>3 DEF OwnersAreHeld
  <2>4. SharingIsMarked'
    <3>1. ASSUME NEW b \in Operands \ shared_reg, b # o, b # s,
                 reg'[b] = reg[s], Overlap(o, b)
          PROVE  FALSE
      BY <1>0, <1>3, <2>e, <3>1, ExpiryFacts
    <3>2. \A a, b \in Operands : Overlap(a, b)' <=> Overlap(a, b)
      BY <1>t DEF Overlap
    <3>3. \A a, b \in Operands : Overlap(a, b) <=> Overlap(b, a)
      BY DEF Overlap
    <3>4. ASSUME NEW a \in Operands, NEW b \in Operands, SameRegister(a, b)'
          PROVE  {a, b} \cap shared_reg # {}
      <4>0. a # s /\ b # s
        BY <2>e, <3>4 DEF SameRegister
      <4>1. CASE a = o
        BY <2>e, <3>1, <3>2, <3>4, <4>0, <4>1 DEF SameRegister
      <4>2. CASE b = o
        BY <2>e, <3>1, <3>2, <3>3, <3>4, <4>0, <4>2 DEF SameRegister
      <4>3. CASE a # o /\ b # o
        BY <2>e, <3>2, <3>4, <4>0, <4>3 DEF SameRegister, IInv, SharingIsMarked
      <4> QED BY <4>1, <4>2, <4>3
    <3> QED BY <1>t, <3>4 DEF SharingIsMarked
  <2> QED BY <1>5, <2>1, <2>2, <2>3, <2>4 DEF IInv
<1>b. CASE reg' = reg /\ active' = StillActive(o)
  <2>1. TypeOK'
    BY <1>b, <1>0, <1>t, TurnTypes DEF TypeOK
  <2>2. ActiveAreHeld'
    BY <1>b, <1>0, <1>3, <1>t, ExpiryFacts, TurnTypes DEF IInv, ActiveAreHeld
  <2>3. OwnersAreHeld'
    <3>1. shared_reg' \subseteq scanned'
      BY <1>0, <1>t, TurnTypes DEF IInv, OwnersAreHeld
    <3>2. \A p \in Operands \ scanned' : reg'[p] = NoReg
      BY <1>b, <1>t DEF IInv, OwnersAreHeld
    <3>3. ASSUME NEW b \in scanned' \ shared_reg', reg'[b] # NoReg, ~Past(b)'
          PROVE  reg'[b] \in in_use' /\ \A a \in active' : a # b => reg'[a] # reg'[b]
      <4>1. b \in scanned \ shared_reg /\ b \in Operands /\ b # o
        BY <1>0, <1>b, <1>2, <1>t, <3>3 DEF TypeOK, IInv, OwnersAreHeld
      <4>2. \E p \in Operands \ (scanned \cup {o}) : live_end[b] > live_start[p]
        BY <1>0, <3>3, <4>1, PastAfterTurn
      <4> QED BY <1>b, <1>0, <1>3, <1>t, <3>3, <4>1, <4>2, ExpiryFacts
    <3> QED BY <3>1, <3>2, <3>3 DEF OwnersAreHeld
  <2>4. SharingIsMarked'
    BY <1>b, <1>t DEF IInv, SharingIsMarked, SameRegister, Overlap
  <2> QED BY <1>5, <2>1, <2>2, <2>3, <2>4 DEF IInv
<1> QED BY <1>c, <1>a, <1>b

\* The invariant is inductive: every turn of the loop keeps it.
LEMMA StepKeepsIInv ==
  ASSUME IInv, [Next]_vars
  PROVE  IInv'
<1>1. CASE Next
  <2>1. PICK o \in Operands : ShareRegister(o) \/ TakeFreeRegister(o) \/ Spill(o)
    BY <1>1 DEF Next
  <2>2. CASE ShareRegister(o)
    BY <2>2, ShareKeepsIInv
  <2>3. CASE TakeFreeRegister(o)
    BY <2>3, TakeKeepsIInv
  <2>4. CASE Spill(o)
    BY <2>4, SpillKeepsIInv
  <2> QED BY <2>1, <2>2, <2>3, <2>4
<1>2. CASE UNCHANGED vars
  <2> USE <1>2 DEF vars, inputs
  <2>1. TypeOK'
    BY DEF IInv, TypeOK
  <2>2. ActiveAreHeld'
    BY DEF IInv, ActiveAreHeld
  <2>3. OwnersAreHeld'
    BY DEF IInv, OwnersAreHeld, Past
  <2>4. SharingIsMarked'
    BY DEF IInv, SharingIsMarked, SameRegister, Overlap
  <2>5. SpillFindsVictim'
    BY DEF IInv, SpillFindsVictim
  <2> QED BY <2>1, <2>2, <2>3, <2>4, <2>5 DEF IInv
<1> QED BY <1>1, <1>2

-----------------------------------------------------------------------------
(* Lost registers.                                                         *)

\* A register of in_use that no active operand has: its owner was dropped by key.
Leaked(r) == r \in in_use /\ \A a \in active : reg[a] # r

\* b owns r, c ended where b does and was spilled.
LostWith(r, b, c) ==
  b # c /\ live_end[b] = live_end[c] /\ reg[b] = r /\ reg[c] = NoReg

\* The property in these terms.
LEMMA LeaksByRegister ==
  LeaksComeFromEqualEnds
    <=> \A r : Leaked(r) => \E b, c \in scanned : LostWith(r, b, c)
BY DEF LeaksComeFromEqualEnds, Leaked, LostWith

\* expire_old_intervals loses no register: one in use after it without an active
\* owner had none before.
LEMMA ExpiryLosesNone ==
  ASSUME NEW o \in Operands, NEW r \in StillInUse(o), \A a \in StillActive(o) : reg[a] # r
  PROVE  Leaked(r)
BY DEF StillInUse, StillActive, Expired, Leaked

\* What a register was lost with stays as it is in a turn that leaves the two
\* operands' registers alone.
LEMMA LostStaysLost ==
  ASSUME NEW r, \E b, c \in scanned : LostWith(r, b, c),
         NEW o \in Operands, Turn(o),
         \A x \in scanned : reg[x] = r \/ reg[x] = NoReg => reg'[x] = reg[x]
  PROVE  (\E b, c \in scanned : LostWith(r, b, c))'
<1>1. PICK b \in scanned, c \in scanned : LostWith(r, b, c)
  OBVIOUS
<1>2. LostWith(r, b, c)'
  BY <1>1 DEF LostWith, Turn, inputs
<1>3. b \in scanned' /\ c \in scanned'
  BY DEF Turn
<1> QED BY <1>2, <1>3

\* A turn loses a register only by erase by key.
LEMMA StepKeepsLeaks ==
  ASSUME IInv, LeaksComeFromEqualEnds, [Next]_vars
  PROVE  LeaksComeFromEqualEnds'
<1>1. CASE Next
  <2>1. PICK o \in Operands : ShareRegister(o) \/ TakeFreeRegister(o) \/ Spill(o)
    BY <1>1 DEF Next
  <2>2. Turn(o) /\ IsNext(o) /\ TypeOK /\ o \notin scanned /\ o \notin active
    BY <2>1 DEF ShareRegister, TakeFreeRegister, Spill, Turn, IsNext, IInv, TypeOK
  <2>3. SUFFICES ASSUME NEW r, Leaked(r)'
                 PROVE  (\E b, c \in scanned : LostWith(r, b, c))'
    BY DEF LeaksComeFromEqualEnds, Leaked, LostWith
  <2>4. \A a \in StillActive(o) : a \in Operands /\ a # o /\ a \in scanned
    BY <2>2 DEF StillActive, TypeOK
  <2>5. (\A x \in Operands : x # o => reg'[x] = reg[x])
          /\ r \in StillInUse(o) /\ StillActive(o) \subseteq active'
        => (\E b, c \in scanned : LostWith(r, b, c))'
    <3>1. SUFFICES ASSUME \A x \in Operands : x # o => reg'[x] = reg[x],
                          r \in StillInUse(o), StillActive(o) \subseteq active'
                   PROVE  (\E b, c \in scanned : LostWith(r, b, c))'
      OBVIOUS
    <3>2. Leaked(r)
      BY <2>3, <2>4, <3>1, ExpiryLosesNone DEF Leaked
    <3>3. \A x \in scanned : reg'[x] = reg[x]
      BY <2>2, <3>1 DEF TypeOK
    <3> QED BY <2>2, <3>2, <3>3, LeaksByRegister, LostStaysLost
  <2>6. CASE ShareRegister(o)
    <3>1. r \in StillInUse(o) /\ StillActive(o) \subseteq active'
      BY <2>3, <2>6 DEF Leaked, ShareRegister
    <3>2. \A x \in Operands : x # o => reg'[x] = reg[x]
      BY <2>2, <2>6 DEF ShareRegister, TypeOK
    <3> QED BY <2>5, <3>1, <3>2
  <2>7. CASE TakeFreeRegister(o)
    <3>1. \A x \in Operands : x # o => reg'[x] = reg[x]
      BY <2>2, <2>7 DEF TakeFreeRegister, TypeOK
    <3>2. reg'[o] = allocate_reg(o) /\ o \in active'
      BY <2>2, <2>7 DEF TakeFreeRegister, TypeOK
    <3>3. r \in StillInUse(o) /\ StillActive(o) \subseteq active'
      BY <2>3, <2>7, <3>2 DEF Leaked, TakeFreeRegister
    <3> QED BY <2>5, <3>1, <3>3
  <2>8. CASE Spill(o)
    <3>s. PICK s \in StillActive(o) : s = LastOf(StillActive(o))
      <4>1. StillInUse(o) \in SUBSET Regs
        BY <2>2, TurnTypes
      <4>2. StillInUse(o) = Regs
        BY <2>8, <4>1, FullMeansAll DEF Spill, has_free_reg
      <4>3. StillActive(o) # {}
        BY <2>2, <4>2, ExpiryFacts
      <4>4. StillActive(o) \in SUBSET Operands
        BY <2>4
      <4> QED BY <2>2, <4>3, <4>4, LastExists
    <3>0. r \in StillInUse(o)
      BY <2>3, <2>8 DEF Leaked, Spill
    <3>1. CASE live_end[s] > live_end[o]
      <4>1. /\ reg' = [reg EXCEPT ![o] = reg[s], ![s] = NoReg]
            /\ active' = {a \in StillActive(o) : live_end[a] # live_end[s]} \cup {o}
        BY <2>8, <3>s, <3>1 DEF Spill, spill_at_interval
      <4>3. /\ \A x \in Operands : x # o /\ x # s => reg'[x] = reg[x]
            /\ reg'[o] = reg[s] /\ reg'[s] = NoReg /\ o # s /\ s \in scanned
        BY <2>2, <2>4, <4>1 DEF TypeOK
      <4>4. r # reg[s]
        BY <2>3, <4>1, <4>3 DEF Leaked
      <4>5. CASE \E a \in StillActive(o) : reg[a] = r
        <5>1. PICK a \in StillActive(o) : reg[a] = r
          BY <4>5
        <5>2. a # s /\ reg'[a] = r /\ a \in scanned
          BY <2>4, <4>3, <4>4, <5>1
        <5>3. live_end[a] = live_end[s]
          BY <2>3, <4>1, <5>1, <5>2 DEF Leaked
        <5>4. LostWith(r, a, s)'
          BY <2>2, <4>3, <5>2, <5>3 DEF LostWith, Turn, inputs
        <5>5. a \in scanned' /\ s \in scanned'
          BY <2>2, <4>3, <5>2 DEF Turn
        <5> QED BY <5>4, <5>5
      <4>6. CASE \A a \in StillActive(o) : reg[a] # r
        <5>1. Leaked(r)
          BY <3>0, <4>6, ExpiryLosesNone
        <5>2. reg[s] # NoReg
          BY <2>2, TurnTypes, ExpiryFacts DEF Regs, NoReg
        <5>3. \A x \in scanned : reg[x] = r \/ reg[x] = NoReg => reg'[x] = reg[x]
          BY <2>2, <4>3, <4>4, <5>2 DEF TypeOK
        <5> QED BY <2>2, <5>1, <5>3, LeaksByRegister, LostStaysLost
      <4> QED BY <4>5, <4>6
    <3>2. CASE ~(live_end[s] > live_end[o])
      <4>1. reg' = reg /\ active' = StillActive(o)
        BY <2>8, <3>s, <3>2 DEF Spill, spill_at_interval
      <4> QED BY <2>5, <3>0, <4>1
    <3> QED BY <3>1, <3>2
  <2> QED BY <2>1, <2>6, <2>7, <2>8
<1>2. CASE UNCHANGED vars
  BY <1>2 DEF vars, inputs, LeaksComeFromEqualEnds
<1> QED BY <1>1, <1>2

-----------------------------------------------------------------------------
(* Clashes.  What SharingIsMarked says of the marks holds of the temporaries *)
(* that come after their variable alone: a mark set on expiry is set when   *)
(* nothing that follows can meet the temporary.                             *)

\* The temporaries that found the register of their variable taken.
Sharers == {c \in shared_reg : Before(var[c], c)}

\* The live ranges are those of the liveness passes, scanned in order.
InOrder ==
  /\ LiveRanges(live_start, live_end, var)
  /\ \A a \in scanned, b \in Operands \ scanned : Before(a, b)

MarksAreCopies ==
  \A c \in shared_reg : var[c] # NoVar /\ (Before(var[c], c) \/ Past(c))

OwnersDoNotClash ==
  \A a, b \in Operands : SameRegister(a, b) => {a, b} \cap Sharers # {}

ClashInv == InOrder /\ MarksAreCopies /\ OwnersDoNotClash

\* Two operands that clash: the one that shares stands for its variable, which is
\* live for longer and in the same register, so that its variable clashes too;
\* and variables are owners.
LEMMA ClashesExplained ==
  ASSUME IInv, ClashInv
  PROVE  ClashesComeFromSpills
<1>0. /\ \A x \in Operands : live_start[x] \in Int /\ live_end[x] \in Int
      /\ shared_reg \subseteq Temps /\ var \in [Temps -> Vars \cup {NoVar}]
      /\ Operands = Vars \cup Temps /\ Vars \cap Temps = {}
  <2>1. Vars \cap Temps = {}
    BY ScanAssumption DEF ScanAssumption, Vars, Temps
  <2> QED BY <2>1, OperandsAreIntegers DEF IInv, TypeOK, Operands
<1>1. ASSUME NEW a \in Sharers, NEW b \in Operands, Overlap(a, b), Used(live_end, a)
      PROVE  var[a] \in Vars /\ Overlap(var[a], b)
  <2>1. a \in shared_reg /\ a \in Temps /\ var[a] \in Vars /\ Before(var[a], a)
    BY <1>0, <1>1 DEF Sharers, ClashInv, MarksAreCopies
  <2>2. live_end[var[a]] >= live_end[a]
    BY <1>1, <2>1 DEF ClashInv, InOrder, LiveRanges, NoVar, Vars
  <2>3. live_start[var[a]] <= live_start[a]
    BY <1>0, <2>1 DEF Before
  <2>4. var[a] \in Operands /\ a \in Operands
    BY <1>0, <2>1
  <2> QED BY <1>0, <1>1, <2>1, <2>2, <2>3, <2>4 DEF Overlap
<1>2. \A x, y \in Vars : ~SameRegister(x, y)
  <2>1. Sharers \cap Vars = {}
    BY <1>0 DEF Sharers
  <2> QED BY <1>0, <2>1 DEF ClashInv, OwnersDoNotClash
<1>3. ASSUME NEW a \in Sharers, NEW b \in Operands, SameRegister(a, b), BothUsed(a, b),
             ~OneVariable(a, b), reg[var[a]] = reg[a],
             b \in shared_reg => reg[var[b]] = reg[b]
      PROVE  FALSE
  <2>1. var[a] \in Vars /\ Overlap(var[a], b) /\ a \in Temps
    BY <1>0, <1>1, <1>3 DEF SameRegister, BothUsed, Sharers
  <2>2. var[a] # b
    BY <1>3, <2>1 DEF OneVariable, HoldsVar
  <2>3. SameRegister(var[a], b)
    BY <1>3, <2>1, <2>2 DEF SameRegister
  <2>4. b \in Sharers
    <3>1. {var[a], b} \cap Sharers # {}
      BY <1>0, <2>1, <2>3 DEF ClashInv, OwnersDoNotClash
    <3>2. var[a] \notin Sharers
      BY <1>0, <2>1 DEF Sharers
    <3> QED BY <3>1, <3>2
  <2>5. Overlap(b, var[a]) /\ Used(live_end, b) /\ var[a] \in Operands
    BY <1>0, <1>3, <2>1 DEF Overlap, BothUsed
  <2>6. var[b] \in Vars /\ Overlap(var[b], var[a])
    BY <1>1, <2>4, <2>5
  <2>7. b \in Temps /\ b \in shared_reg
    BY <1>0, <2>4 DEF Sharers
  <2>8. var[a] # var[b]
    BY <1>3, <2>1, <2>6, <2>7 DEF OneVariable, NoVar, Vars
  <2>9. SameRegister(var[b], var[a])
    BY <1>3, <2>6, <2>7, <2>8 DEF SameRegister
  <2> QED BY <1>2, <2>1, <2>6, <2>9
<1>4. ASSUME NEW a \in Operands, NEW b \in Operands, SameRegister(a, b), BothUsed(a, b),
             ~OneVariable(a, b), \A c \in {a, b} \cap shared_reg : reg[var[c]] = reg[c]
      PROVE  FALSE
  <2>1. {a, b} \cap Sharers # {} /\ Sharers \subseteq shared_reg
    BY <1>4 DEF ClashInv, OwnersDoNotClash, Sharers
  <2>2. CASE a \in Sharers
    BY <1>3, <1>4, <2>1, <2>2
  <2>3. CASE b \in Sharers
    <3>1. SameRegister(b, a) /\ BothUsed(b, a) /\ ~OneVariable(b, a)
      BY <1>4 DEF SameRegister, BothUsed, OneVariable, Overlap
    <3> QED BY <1>3, <1>4, <2>1, <2>3, <3>1
  <2> QED BY <2>1, <2>2, <2>3
<1> QED BY <1>4 DEF ClashesComeFromSpills

\* An owner that o meets keeps its register from o.
LEMMA OwnersMetAreHeld ==
  ASSUME IInv, ClashInv, NEW o \in Operands, IsNext(o),
         NEW b \in Operands \ Sharers, b # o, reg[b] # NoReg, Overlap(o, b)
  PROVE  reg[b] \in StillInUse(o) /\ \A a \in active : a # b => reg[a] # reg[b]
<1>1. \A x \in Operands : live_start[x] \in Int /\ live_end[x] \in Int
  BY OperandsAreIntegers DEF IInv, TypeOK
<1>2. b \notin shared_reg
  <2> SUFFICES ASSUME b \in shared_reg PROVE FALSE
    OBVIOUS
  <2>1. Past(b)
    BY DEF ClashInv, MarksAreCopies, Sharers
  <2>2. live_end[b] <= live_start[o]
    BY <2>1 DEF Past, IsNext
  <2> QED BY <1>1, <2>2 DEF Overlap
<1> QED BY <1>2, ExpiryFacts

\* Marks stay, and expiry marks what is past.
LEMMA MarksAfterTurn ==
  ASSUME IInv, ClashInv, NEW o \in Operands, Turn(o)
  PROVE  /\ InOrder'
         /\ \A c \in shared_reg \cup Marked(o) :
               var'[c] # NoVar /\ (Before(var[c], c)' \/ Past(c)')
<1>0. /\ \A x \in Operands : live_start[x] \in Int /\ live_end[x] \in Int
      /\ IsNext(o) /\ scanned' = scanned \cup {o} /\ active \subseteq Operands
      /\ UNCHANGED <<live_start, live_end, var>>
  BY OperandsAreIntegers DEF IInv, TypeOK, Turn, inputs
<1>1. InOrder'
  <2>1. LiveRanges(live_start, live_end, var)'
    BY <1>0 DEF ClashInv, InOrder, LiveRanges, Used
  <2>2. \A a \in scanned', b \in Operands \ scanned' : Before(a, b)'
    BY <1>0 DEF ClashInv, InOrder, Before, IsNext
  <2> QED BY <2>1, <2>2 DEF InOrder
<1>2. ASSUME NEW c \in shared_reg
      PROVE  var'[c] # NoVar /\ (Before(var[c], c)' \/ Past(c)')
  BY <1>0 DEF ClashInv, MarksAreCopies, Before, Past
<1>3. ASSUME NEW c \in Marked(o)
      PROVE  var'[c] # NoVar /\ Past(c)'
  <2>1. c \in Operands /\ var[c] # NoVar /\ live_end[c] <= live_start[o]
    BY <1>0 DEF Marked, Expired
  <2>2. \A p \in Operands \ scanned : live_start[o] <= live_start[p]
    BY <1>0 DEF IsNext, Before
  <2>3. Past(c)'
    BY <1>0, <2>1, <2>2 DEF Past
  <2> QED BY <1>0, <2>1, <2>3
<1> QED BY <1>1, <1>2, <1>3

\* Only a clash of o itself can be new.
LEMMA ClashesAfterTurn ==
  ASSUME IInv, ClashInv, NEW o \in Operands, Turn(o), shared_reg \subseteq shared_reg',
         \A x \in Operands : x # o => reg'[x] = reg[x] \/ reg'[x] = NoReg,
         \A b \in Operands \ Sharers :
           b # o /\ Overlap(o, b) /\ reg[b] # NoReg /\ reg'[b] = reg[b]
             => reg'[o] # reg[b] \/ o \in Sharers'
  PROVE  OwnersDoNotClash'
<1>0. UNCHANGED <<live_start, live_end, var>>
  BY DEF Turn, inputs
<1>1. Sharers \subseteq Sharers'
  BY <1>0 DEF Sharers, Before
<1>2. \A a, b \in Operands : /\ Overlap(a, b)' <=> Overlap(a, b)
                             /\ Overlap(a, b) <=> Overlap(b, a)
  BY <1>0 DEF Overlap
<1>3. ASSUME NEW a \in Operands, NEW b \in Operands, SameRegister(a, b)'
      PROVE  {a, b} \cap Sharers' # {}
  <2>0. a # b /\ reg'[a] # NoReg /\ reg'[b] # NoReg /\ reg'[a] = reg'[b] /\ Overlap(a, b)
    BY <1>2, <1>3 DEF SameRegister
  <2>1. CASE a = o
    BY <1>1, <1>2, <2>0, <2>1
  <2>2. CASE b = o
    BY <1>1, <1>2, <2>0, <2>2
  <2>3. CASE a # o /\ b # o
    <3>1. SameRegister(a, b)
      BY <2>0, <2>3 DEF SameRegister
    <3>2. {a, b} \cap Sharers # {}
      BY <3>1 DEF ClashInv, OwnersDoNotClash
    <3> QED BY <1>1, <3>2
  <2> QED BY <2>1, <2>2, <2>3
<1> QED BY <1>3 DEF OwnersDoNotClash

\* Every turn of the loop keeps clashes to the temporaries that share.
LEMMA StepKeepsClashInv ==
  ASSUME IInv, ClashInv, [Next]_vars
  PROVE  ClashInv'
<1>1. CASE Next
  <2>1. PICK o \in Operands : ShareRegister(o) \/ TakeFreeRegister(o) \/ Spill(o)
    BY <1>1 DEF Next
  <2>2. /\ Turn(o) /\ IsNext(o) /\ TypeOK /\ o \notin scanned
        /\ UNCHANGED <<live_start, live_end, var>>
    BY <2>1 DEF ShareRegister, TakeFreeRegister, Spill, Turn, IsNext, IInv, inputs
  <2>3. InOrder'
    BY <2>2, MarksAfterTurn
  <2>4. CASE ShareRegister(o)
    <3>1. /\ shared_reg' = shared_reg \cup Marked(o) \cup {o}
          /\ reg' = [reg EXCEPT ![o] = reg[var[o]]]
          /\ o \in Temps /\ var[o] # NoVar /\ reg[var[o]] # NoReg
      BY <2>4 DEF ShareRegister, TakesVarRegister
    <3>2. var[o] \in Operands
      BY <2>2, <3>1 DEF TypeOK, Operands
    <3>3. var[o] \in scanned
      BY <3>1, <3>2 DEF IInv, OwnersAreHeld
    <3>4. Before(var[o], o)
      BY <2>2, <3>3 DEF ClashInv, InOrder
    <3>5. Before(var[o], o)' /\ var'[o] # NoVar /\ o \in Sharers'
      BY <2>2, <3>1, <3>4 DEF Before, Sharers
    <3>6. MarksAreCopies'
      <4>1. \A c \in shared_reg \cup Marked(o) :
              var'[c] # NoVar /\ (Before(var[c], c)' \/ Past(c)')
        BY <2>2, MarksAfterTurn
      <4> QED BY <3>1, <3>5, <4>1 DEF MarksAreCopies
    <3>7. \A x \in Operands : x # o => reg'[x] = reg[x]
      BY <2>2, <3>1 DEF TypeOK
    <3>8. OwnersDoNotClash'
      BY <2>2, <3>1, <3>5, <3>7, ClashesAfterTurn
    <3> QED BY <2>3, <3>6, <3>8 DEF ClashInv
  <2>5. CASE TakeFreeRegister(o) \/ Spill(o)
    <3>1. shared_reg' = shared_reg \cup Marked(o)
      BY <2>5 DEF TakeFreeRegister, Spill
    <3>2. MarksAreCopies'
      <4>1. \A c \in shared_reg \cup Marked(o) :
              var'[c] # NoVar /\ (Before(var[c], c)' \/ Past(c)')
        BY <2>2, MarksAfterTurn
      <4> QED BY <3>1, <4>1 DEF MarksAreCopies
    <3>3. \A b \in Operands \ Sharers :
            b # o /\ reg[b] # NoReg /\ Overlap(o, b)
              => reg[b] \in StillInUse(o) /\ \A a \in active : a # b => reg[a] # reg[b]
      BY <2>2, OwnersMetAreHeld
    <3>4. CASE TakeFreeRegister(o)
      <4>1. allocate_reg(o) \notin StillInUse(o)
        BY <2>2, <3>4, AllocatedIsFree DEF TakeFreeRegister
      <4>2. reg'[o] = allocate_reg(o) /\ \A x \in Operands : x # o => reg'[x] = reg[x]
        BY <2>2, <3>4 DEF TakeFreeRegister, TypeOK
      <4>3. OwnersDoNotClash'
        BY <2>2, <3>1, <3>3, <4>1, <4>2, ClashesAfterTurn
      <4> QED BY <2>3, <3>2, <4>3 DEF ClashInv
    <3>5. CASE Spill(o)
      <4>s. PICK s \in StillActive(o) : s = LastOf(StillActive(o))
        <5>1. StillInUse(o) \in SUBSET Regs
          BY <2>2, TurnTypes
        <5>2. StillInUse(o) = Regs
          BY <3>5, <5>1, FullMeansAll DEF Spill, has_free_reg
        <5>3. StillActive(o) # {}
          BY <2>2, <5>2, ExpiryFacts
        <5>4. StillActive(o) \in SUBSET Operands
          BY <2>2 DEF StillActive, TypeOK
        <5> QED BY <2>2, <5>3, <5>4, LastExists
      <4>0. s \in active /\ s \in Operands /\ s # o /\ reg[o] = NoReg
        BY <2>2, <4>s DEF StillActive, TypeOK, IInv, OwnersAreHeld
      <4>1. \/ reg' = [reg EXCEPT ![o] = reg[s], ![s] = NoReg]
            \/ reg' = reg
        BY <3>5, <4>s DEF Spill, spill_at_interval
      <4>2. CASE reg' = [reg EXCEPT ![o] = reg[s], ![s] = NoReg]
        <5>1. /\ reg'[o] = reg[s] /\ reg'[s] = NoReg
              /\ \A x \in Operands : x # o => reg'[x] = reg[x] \/ reg'[x] = NoReg
          BY <2>2, <4>0, <4>2 DEF TypeOK
        <5>2. OwnersDoNotClash'
          BY <2>2, <3>1, <3>3, <4>0, <5>1, ClashesAfterTurn
        <5> QED BY <2>3, <3>2, <5>2 DEF ClashInv
      <4>3. CASE reg' = reg
        <5>1. OwnersDoNotClash'
          BY <2>2, <3>1, <4>0, <4>3, ClashesAfterTurn
        <5> QED BY <2>3, <3>2, <5>1 DEF ClashInv
      <4> QED BY <4>1, <4>2, <4>3
    <3> QED BY <2>5, <3>4, <3>5
  <2> QED BY <2>1, <2>4, <2>5
<1>2. CASE UNCHANGED vars
  <2> USE <1>2 DEF vars, inputs
  <2>1. InOrder'
    BY DEF ClashInv, InOrder, LiveRanges, Used, Before
  <2>2. MarksAreCopies'
    BY DEF ClashInv, MarksAreCopies, Before, Past
  <2>3. OwnersDoNotClash'
    BY DEF ClashInv, OwnersDoNotClash, SameRegister, Overlap, Sharers, Before
  <2> QED BY <2>1, <2>2, <2>3 DEF ClashInv
<1> QED BY <1>1, <1>2

-----------------------------------------------------------------------------
(* The theorems.                                                           *)

\* The scan keeps the inductive invariant, for any live ranges the liveness passes
\* can leave.
THEOREM ScanInvariant == Spec => []IInv
<1>1. Init => IInv
  BY InitIInv
<1>2. IInv /\ [Next]_vars => IInv'
  BY StepKeepsIInv
<1> QED BY <1>1, <1>2, PTL DEF Spec

\* Every reg and last_reg is a register of the pool or none, and only scanned operands
\* are active (linear_scan_allocate).
THEOREM ScanTypes == Spec => []TypeOK
<1>1. IInv => TypeOK
  BY DEF IInv
<1> QED BY <1>1, ScanInvariant, PTL

\* Operands that are live at the same time in one register are told by the mark
\* shared_reg, for any pool and any function: no two owners of registers clash.
THEOREM SharingIsAlwaysMarked == Spec => []SharingIsMarked
<1>1. IInv => SharingIsMarked
  BY DEF IInv
<1> QED BY <1>1, ScanInvariant, PTL

\* spill_at_interval never reads the last element of an empty active set.
THEOREM SpillAlwaysFindsVictim == Spec => []SpillFindsVictim
<1>1. IInv => SpillFindsVictim
  BY DEF IInv
<1> QED BY <1>1, ScanInvariant, PTL

\* A register is lost only with the spill of an operand that ends where its owner
\* ends (active.erase by key), for any pool and any function.
THEOREM LeaksAlwaysExplained == Spec => []LeaksComeFromEqualEnds
<1>1. Init => LeaksComeFromEqualEnds
  BY DEF Init, LeaksComeFromEqualEnds
<1>2. IInv /\ LeaksComeFromEqualEnds /\ [Next]_vars => LeaksComeFromEqualEnds'
  BY StepKeepsLeaks
<1> QED BY <1>1, <1>2, ScanInvariant, PTL DEF Spec

\* A register serves two unrelated values at one time only for a copy whose
\* variable was spilled after the copy took its register, for any pool and any
\* live ranges.
THEOREM ClashesAlwaysExplained == Spec => []ClashesComeFromSpills
<1>1. Init => ClashInv
  BY DEF Init, ClashInv, InOrder, MarksAreCopies, OwnersDoNotClash, SameRegister
<1>2. IInv /\ ClashInv /\ [Next]_vars => ClashInv'
  BY StepKeepsClashInv
<1>3. IInv /\ ClashInv => ClashesComeFromSpills
  BY ClashesExplained
<1> QED BY <1>1, <1>2, <1>3, ScanInvariant, PTL DEF Spec
=============================================================================
