----------------------------- MODULE AbstractHeap -----------------------------
(***************************************************************************)
(* What the collected heap promises the code that uses it, with neither    *)
(* generations, nor marks, nor a write barrier: an object stays where it   *)
(* is, with the pointers it holds, for as long as it can be reached from a *)
(* pointer its user declares; anything else may be taken back at any time. *)
(***************************************************************************)
CONSTANTS Objs, NoObj, Slots

VARIABLES
  live,    \* the objects that have been created and not been taken back
  edges,   \* edges[o][s]: the pointer slot s of object o holds
  roots    \* the pointers the user of the heap holds

vars == <<live, edges, roots>>

Values == Objs \cup {NoObj}

NoPointers == [s \in Slots |-> NoObj]

ClosedUnder(e, S) ==
  \A o \in S, s \in Slots : e[o][s] # NoObj => e[o][s] \in S

\* The least closed set that holds R.
Reachable(e, R) ==
  LET closed == {S \in SUBSET Objs : R \subseteq S /\ ClosedUnder(e, S)}
  IN  {o \in Objs : \A S \in closed : o \in S}

Init ==
  /\ live = {}
  /\ edges = [o \in Objs |-> NoPointers]
  /\ roots = {}

\* The pointers the user can get hold of in one step: those it holds and those
\* an object it holds contains.
Known == roots \cup ({edges[o][s] : o \in roots, s \in Slots} \ {NoObj})

\* Objects that did not exist appear, wired to objects that do.
Create ==
  \E N \in SUBSET (Objs \ live) :
    /\ live' = live \cup N
    /\ edges' \in [Objs -> [Slots -> Values]]
    /\ \A o \in Objs \ N : edges'[o] = edges[o]
    /\ \A o \in N, s \in Slots : edges'[o][s] \in Known \cup N \cup {NoObj}
    /\ roots' \subseteq Known \cup N

\* The user stores a pointer it knows, or no pointer, into an object it knows.
Update ==
  \E o \in Known, s \in Slots, v \in Known \cup {NoObj} :
    /\ edges' = [edges EXCEPT ![o][s] = v]
    /\ roots' \subseteq Known
    /\ UNCHANGED live

\* The user copies, follows and forgets pointers.
Move ==
  /\ roots' \subseteq Known
  /\ UNCHANGED <<live, edges>>

\* A collection: whatever can be reached stays, as it was.
Reclaim ==
  /\ live' \subseteq live
  /\ Reachable(edges, roots) \subseteq live'
  /\ edges' = [o \in Objs |-> IF o \in live' THEN edges[o] ELSE NoPointers]
  /\ UNCHANGED roots

Next == Create \/ Update \/ Move \/ Reclaim

Spec == Init /\ [][Next]_vars
=============================================================================
