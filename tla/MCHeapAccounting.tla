--------------------------- MODULE MCHeapAccounting ---------------------------
(* Instances of HeapAccounting for TLC: sizes in units of a pointer. *)
EXTENDS HeapAccounting, TLC

AddressSymmetry == Permutations(Objs)

AllSettings ==
  {{}, {"generational"}, {"generational", "string trees", "absent reads"}}

SmallSizes == [class \in Classes |-> IF class \in {"record", "closure"} THEN 2 ELSE 1]
=============================================================================
