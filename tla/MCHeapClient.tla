----------------------------- MODULE MCHeapClient -----------------------------
(* Instances of HeapClient for TLC: addresses are interchangeable. *)
EXTENDS HeapClient, TLC

AddressSymmetry == Permutations(Objs)
=============================================================================
