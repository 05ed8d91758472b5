------------------------------ MODULE MCFrontEnd ------------------------------
(***************************************************************************)
(* The programs FrontEnd is checked on.                                    *)
(***************************************************************************)
EXTENDS FrontEnd

MCNameOrder == <<"a", "b", "f", "g", "h", "k", "n", "p", "print", "r", "t", "tick", "x", "y", "z">>

V(x)       == Name(x)
N(i)       == Const(Num(i))
T          == Const(Bool(TRUE))
F          == Const(Bool(FALSE))
Let(x, e)  == Assign(Name(x), e)
Def(x, args, body) == Let(x, Fun(args, Block(body)))
App(x, args) == Call(Name(x), args)
Run(x, args) == Do(App(x, args))
Say(e)     == Run("print", <<e>>)
When(c, s) == IfElse(c, Block(s), Block(<<>>))
Loop(c, s) == WhileDo(c, Block(s))

-----------------------------------------------------------------------------
(* Scoping: a function in a function, and in some a third one inside; x is *)
(* a global, y is not; either may be a parameter.                          *)

Third(body) == <<Def("k", <<"z">>, body), Run("k", <<N(4)>>)>>
ReadBoth == Third(<<Say(V("x")), Say(V("y"))>>)

Before == {<<>>, <<Let("x", N(5))>>, <<Say(V("x"))>>, <<Let("y", V("x"))>>,
           <<GlobalDecl("x"), Let("x", N(6))>>}
Later  == {<<>>, <<Let("x", N(7))>>, <<Say(V("y"))>>}
First  == {<<>>, <<Say(V("x"))>>, <<Let("x", N(8))>>, <<GlobalDecl("x"), Let("x", N(9))>>, ReadBoth}
Second == {<<Say(V("x"))>>, <<Say(V("y"))>>, <<Let("y", N(3))>>, ReadBoth,
           Third(<<Let("x", N(4)), Say(V("y"))>>)}

Named(p, q, before, later, inner) ==
    Block(<<Let("x", N(1)),
            Def("f", <<p>>, before \o <<Def("h", <<q>>, inner)>> \o later
                            \o <<Run("h", <<N(3)>>), Say(V("x"))>>),
            Run("f", <<N(2)>>), Say(V("x"))>>)

Anonymous(p, q, before, inner) ==
    Block(<<Let("x", N(1)),
            Def("f", <<p>>, before \o <<Return(Fun(<<q>>, Block(inner)))>>),
            Let("t", App("f", <<N(2)>>)),
            Run("t", <<N(3)>>), Say(V("x"))>>)

Scoping ==
    {Named(p, q, b, l, f \o s) :
        p \in {"x", "y"}, q \in {"x", "y"}, b \in Before, l \in Later, f \in First, s \in Second}
    \cup {Anonymous(p, q, b, f \o s) :
        p \in {"x", "y"}, q \in {"x", "y"}, b \in Before, f \in First, s \in Second}

-----------------------------------------------------------------------------
(* Operators, on operands that print when they are evaluated.              *)

Tick == Def("tick", <<"a">>, <<Say(V("a")), Return(V("a"))>>)
tick(e) == App("tick", <<e>>)

OperandPairs ==
    {<<N(1), tick(N(2))>>, <<tick(N(2)), N(1)>>, <<tick(N(2)), tick(N(1))>>,
     <<tick(N(-3)), tick(N(2))>>, <<tick(N(1)), tick(N(0))>>, <<tick(N(2)), V("z")>>,
     <<Const(Lit("a")), tick(N(1))>>, <<tick(Const(None)), tick(N(0))>>,
     <<T, tick(F)>>, <<N(-5), N(3)>>, <<N(2), N(2)>>, <<F, T>>,
     \* an operand the VM does not look at
     <<F, tick(N(1))>>, <<T, tick(N(0))>>, <<tick(T), N(1)>>, <<Const(Lit("a")), N(0)>>, <<N(1), T>>}

Operators ==
    {Block(<<Tick, Say(Bin(op, o[1], o[2]))>>) :
        op \in IntOps \cup {"+", "==", "&", "|"}, o \in OperandPairs}
    \cup {Block(<<Tick, Say(Un(op, e))>>) : op \in {"!", "-"}, e \in {tick(N(1)), tick(T)}}

-----------------------------------------------------------------------------
Less(x, i) == Bin("<", V(x), N(i))
Dec(x) == Bin("-", V(x), N(1))

Loops ==
    {Block(<<Let("x", N(0)), Loop(Less("x", 2), <<Say(V("x")), Let("x", Bin("+", V("x"), N(1)))>>),
             Say(V("x"))>>),
     \* a loop left by a return, the condition printing or not
     Block(<<Tick, Def("f", <<>>, <<Loop(Bin("==", tick(N(1)), N(1)), <<Return(N(5))>>)>>),
             Say(App("f", <<>>))>>),
     Block(<<Tick, Def("f", <<>>, <<Loop(T, <<Do(tick(N(1))), Return(N(5)), Do(tick(N(2)))>>)>>),
             Say(App("f", <<>>))>>),
     \* closures made in a loop share the variable they capture
     Block(<<Def("f", <<"n">>,
                 <<Loop(Bin(">", V("n"), N(0)),
                        <<Def("h", <<>>, <<Say(V("n"))>>), Let("n", Dec("n")), Run("h", <<>>)>>),
                   Run("h", <<>>)>>),
             Run("f", <<N(2)>>)>>),
     Block(<<Loop(N(1), <<>>)>>), Block(<<When(N(1), <<>>)>>)}

Recursion ==
    {\* at the top level, mutually, and inside a function
     Block(<<Def("f", <<"n">>, <<When(Bin(">", V("n"), N(0)), <<Return(App("f", <<Dec("n")>>))>>),
                                 Return(V("n"))>>),
             Say(App("f", <<N(2)>>))>>),
     Block(<<Def("f", <<"n">>, <<When(Bin(">", V("n"), N(0)), <<Return(App("g", <<Dec("n")>>))>>),
                                 Return(V("n"))>>),
             Def("g", <<"n">>, <<Return(App("f", <<V("n")>>))>>),
             Say(App("f", <<N(2)>>))>>),
     Block(<<Def("f", <<"p">>,
                 <<Def("g", <<"n">>,
                       <<When(Bin(">", V("n"), N(0)), <<Return(App("g", <<Dec("n")>>))>>),
                         Return(V("p"))>>),
                   Return(App("g", <<V("p")>>))>>),
             Say(App("f", <<N(1)>>))>>)}

Others ==
    {\* a return at the top level
     Block(<<When(T, <<Return(N(1))>>), Say(N(2))>>),
     Block(<<When(F, <<Return(N(1))>>), Say(N(2))>>),
     Block(<<IfElse(F, Block(<<Let("x", N(1))>>), Block(<<Let("x", N(2))>>)), Say(V("x"))>>),
     \* records
     Block(<<Tick, Let("r", Rec(<< <<"a", tick(N(1))>>, <<"b", tick(N(2))>> >>)),
             Assign(At(V("r"), tick(N(7))), tick(N(8))), Assign(Field(V("r"), "b"), tick(N(9))),
             Say(Field(V("r"), "a")), Say(At(V("r"), Const(Lit("b")))), Say(At(V("r"), N(7))),
             Say(Field(V("r"), "x"))>>),
     Block(<<Assign(Field(N(1), "a"), N(1))>>), Block(<<Say(At(N(1), N(1)))>>),
     \* calls of what is not a function, of nothing, with too many arguments
     Block(<<Let("x", N(1)), Run("x", <<>>)>>), Block(<<Run("z", <<N(1)>>)>>),
     Block(<<Tick, Run("z", <<tick(N(1))>>)>>), Block(<<Tick, Run("tick", <<N(1), tick(N(2))>>)>>),
     Block(<<Run("print", <<>>)>>), Block(<<Say(V("z"))>>),
     \* globals without a value, and globals only functions assign
     Block(<<Def("f", <<>>, <<GlobalDecl("g"), Let("y", N(4)), Let("y", V("g")), Say(V("y"))>>),
             Run("f", <<>>)>>),
     Block(<<Def("f", <<>>, <<GlobalDecl("g"), Let("g", N(4))>>), Def("h", <<>>, <<Say(V("g"))>>),
             Run("f", <<>>), Run("h", <<>>)>>)}

MCPrograms == Scoping \cup Operators \cup Loops \cup Recursion \cup Others
=============================================================================
