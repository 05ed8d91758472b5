--------------------------------- MODULE MCVM ---------------------------------
(* Instances of VM for TLC: programs given by the shape of their functions. *)
EXTENDS VM, TLC

CONSTANTS main, outer, inner

AddressSymmetry == Permutations(Objs)

\* main: outer = fun(x) { ... fun() { ... x ... } ... };
Capturing == {main, outer, inner}
CapturingNested == main :> {outer} @@ outer :> {inner} @@ inner :> {}
CapturingLocals == main :> 0 @@ outer :> 1 @@ inner :> 0
CapturingReferences == main :> 0 @@ outer :> 1 @@ inner :> 0
CapturingFree == main :> 0 @@ outer :> 0 @@ inner :> 1
CapturingParameters == main :> << >> @@ outer :> <<1>> @@ inner :> << >>

\* main: outer = fun() { y; ... };
Plain == {main, outer}
PlainNested == main :> {outer} @@ outer :> {}
PlainLocals == main :> 0 @@ outer :> 1
PlainNone == main :> 0 @@ outer :> 0
PlainParameters == main :> << >> @@ outer :> << >>

\* main alone: records, strings and the built-ins.
TopLevel == {main}
TopLevelNested == main :> {}
TopLevelNone == main :> 0
TopLevelParameters == main :> << >>
=============================================================================
