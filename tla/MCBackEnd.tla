------------------------------ MODULE MCBackEnd ------------------------------
(***************************************************************************)
(* The programs BackEnd is checked on: most are one function, called once  *)
(* with 2, whose result is printed.                                        *)
(***************************************************************************)
EXTENDS BackEnd, MCFrontEnd

MCCallee == <<"r12">>
MCCaller == <<"r8", "r9">>

Str(s)    == Const(Lit(s))
Add(l, r) == Bin("+", l, r)
Sub(l, r) == Bin("-", l, r)
Mul(l, r) == Bin("*", l, r)
Inc(x)    == Let(x, Add(V(x), N(1)))
Positive(x) == Bin(">", V(x), N(0))

Main(body) == Block(<<Def("f", <<"n">>, body), Say(App("f", <<N(2)>>))>>)

-----------------------------------------------------------------------------
(* Types and constants.                                                    *)

Loaded ==
    {Main(<<Let("x", e), Let("y", Add(V("x"), V("n"))), Return(Bin(o, V("x"), V("y")))>>) :
        e \in {N(3), V("n"), Str("a")}, o \in {"+", "-", "*", "/", "<", "=="}}

Constants ==
    {Main(<<Return(Bin(o, l, r))>>) :
        o \in {"+", "-", "*", "/", "==", "<", "&", "|"},
        l \in {N(12), N(-3), T, F, Str("a")}, r \in {N(5), N(0), F}}

\* Operands of unknown types that the interpreter does not look at.
Unlooked ==
    {Main(<<Let("x", l), Say(V("n")), Let("y", Bin(o, V("x"), r)), Return(V("y"))>>) :
        o \in {"&", "|", "/"}, l \in {T, F, Str("a")}, r \in {V("n"), Sub(V("n"), V("n"))}}

\* A variable that holds values of two types.
Retyped ==
    {Main(<<Let("t", Add(V("n"), V("n"))), Let("n", e), Return(Add(V("t"), N(1)))>>) :
        e \in {N(0), Str("a"), V("t")}}
    \cup {Main(<<Let("x", N(1)), Let("x", e), Return(Bin(o, V("x"), N(1)))>>) :
        e \in {Add(V("n"), Str("a")), Str("a"), T}, o \in {"+", "==", "-"}}

-----------------------------------------------------------------------------
(* Control flow.  Eight is computed with many instructions, which constant *)
(* folding turns into one.                                                 *)

Eight == FoldLeft(Add, N(1), <<N(1), N(1), N(1), N(1), N(1), N(1), N(1)>>)

Joins ==
    {Main(<<IfElse(c, Block(<<Let("x", N(1))>>), Block(<<Let("x", e)>>)), Let("y", N(3)),
            Return(Add(V("x"), V("y")))>>) :
        c \in {Less("n", 3), Less("n", 1), N(1)}, e \in {N(2), Str("a")}}
    \cup {Main(<<When(Less("n", 3), <<Let("n", N(1))>>), Return(V("n"))>>)}

WhileLoops ==
    {Main(<<Let("x", N(0)), Let("y", N(5)),
            Loop(Less("x", 2), <<Inc("x"), Let("y", Add(V("y"), e))>>),
            Return(Add(V("y"), V("x")))>>) :
        e \in {N(1), V("n"), Mul(V("y"), V("x")), App("h", <<V("x")>>), Str("a")}}
    \cup {Main(<<Let("y", e), Let("x", N(0)), Loop(Less("x", 2), <<Inc("x")>>), Return(V(r))>>) :
        e \in {N(1), Eight}, r \in {"x", "y"}}
    \cup {Main(<<Let("y", e), Let("z", N(3)), Let("x", N(0)),
                 Loop(Less("x", 2), <<Let("k", Add(V("n"), V("z"))), Inc("x"),
                                      Let("t", Mul(V("x"), V("n"))), Say(V("t"))>>),
                 Return(V("x"))>>) : e \in {N(1), Eight}}
    \cup {Main(<<Let("y", N(0)),
                 Loop(Positive("n"), <<Let("y", V("x")), Let("x", N(1)), Let("n", Dec("n"))>>),
                 Return(V("y"))>>),
          Main(<<Let("x", N(5)), Let("y", N(0)),
                 Loop(Less("y", 2),
                      <<When(Bin("==", V("y"), N(1)), <<Let("z", Add(V("x"), V("n"))), Say(V("z"))>>),
                        Let("k", Mul(V("y"), N(2))), Inc("y")>>),
                 Return(V("y"))>>)}

\* A variable that is not assigned on every path.
Partly ==
    {Main(<<When(Less("n", k), <<Let("x", N(1)), Let("y", V("x"))>>), Return(r)>>) :
        k \in {1, 3}, r \in {V("x"), Add(V("x"), V("n"))}}
    \cup {Main(<<IfElse(Less("n", k), Block(<<Let("x", N(1))>>),
                                      Block(<<Let("x", N(2)), Let("y", V("x"))>>)),
                 Say(V("x")), Return(V("x"))>>) : k \in {1, 3}}

-----------------------------------------------------------------------------
(* Expressions that need more registers than there are, and calls.         *)

Two == Def("h", <<"a", "b">>, <<Let("z", Sub(V("a"), V("b"))), Return(Add(V("z"), V("a")))>>)
h(a, b) == App("h", <<a, b>>)

Large ==
    {Add(V("n"), Add(V("x"), Add(V("n"), V("x")))),
     Sub(Mul(V("n"), V("x")), Mul(V("x"), V("y"))),
     Sub(V("n"), Sub(V("n"), Sub(V("x"), Sub(V("y"), Sub(V("n"), V("x")))))),
     Mul(Add(V("n"), N(1)), Add(Add(V("y"), N(1)), Add(V("x"), V("n")))),
     Bin("/", V("y"), Sub(V("n"), V("x"))),
     Bin("/", Bin("/", V("y"), V("x")), Un("-", V("x"))),
     Add(Bin("/", V("y"), V("x")), Bin("/", V("x"), V("y"))),
     Bin("&", Bin("<", V("x"), V("y")), Un("!", Bin("==", V("x"), V("n")))),
     Bin("|", Bin("<=", V("x"), V("y")), Bin("==", V("x"), Const(None))),
     h(V("n"), h(V("x"), V("y"))),
     Add(h(V("n"), V("x")), h(V("y"), V("n"))),
     h(Add(V("n"), V("x")), Mul(V("n"), V("y")))}

Pressure ==
    {Block(<<Two, Def("f", <<"n">>, before \o <<Return(e)>>), Say(App("f", <<N(2)>>))>>) :
        e \in Large,
        before \in {<<Let("x", N(1)), Let("y", N(7))>>,
                    <<Let("x", h(V("n"), N(1))), Let("y", Add(V("x"), V("n")))>>,
                    <<Let("x", N(0)), Let("y", N(0)),
                      Loop(Less("x", 2), <<Inc("x"), Let("y", Add(V("y"), V("n")))>>)>>}}

-----------------------------------------------------------------------------
(* Records, captured variables and globals.                                *)

RecordPrograms ==
    {Main(<<Let("r", Rec(<< <<"a", V("n")>>, <<"b", Add(V("n"), N(1))>> >>)),
            Assign(At(V("r"), V("n")), N(4)), Assign(Field(V("r"), "b"), Field(V("r"), "a")),
            Return(Add(Field(V("r"), "b"), At(V("r"), key)))>>) : key \in {N(2), Str("a")}}
    \cup {Main(<<Let("r", Rec(<< <<"b", V("n")>> >>)), Let("r", Rec(<< <<"a", V("r")>> >>)),
                 Return(Field(Field(V("r"), "a"), "b"))>>),
          Main(<<Return(Field(V("n"), "b"))>>), Main(<<Assign(At(V("n"), N(1)), V("n"))>>)}

Maker(name, e) ==
    Def(name, <<"n">>, <<Let("x", e),
                         Def("h", <<>>, <<Say(V("x")), Return(Add(V("x"), V("x")))>>),
                         Return(V("h"))>>)

Captured ==
    {Main(<<Let("x", N(1)), Def("h", <<"a">>, b), Let("y", App("h", <<V("n")>>)),
            Return(Add(V("x"), V("y")))>>) :
        b \in {<<Return(Add(V("a"), V("x")))>>, <<Return(Add(V("n"), V("x")))>>,
               <<Def("g", <<>>, <<Return(Add(V("x"), V("a")))>>), Return(App("g", <<>>))>>}}
    \cup {Main(<<Let("x", e), Def("h", <<"a">>, <<Return(Bin(o, V("x"), V("a")))>>), Let("x", d),
                 Return(App("h", <<V("n")>>))>>) :
        e \in {N(1), Str("a")}, d \in {N(1), Str("b"), T}, o \in {"+", "==", "-"}}
    \cup {Block(<<Maker("f", e), Maker("k", d), Let("x", App("f", <<N(1)>>)), Let("y", App("k", <<N(1)>>)),
                  Say(App("y", <<>>)), Say(App("x", <<>>))>>) :
        e \in {N(1), Str("a")}, d \in {N(1), Str("b"), T}}

GlobalPrograms ==
    {Block(<<Let("g", e),
             Def("f", <<"n">>, <<GlobalDecl("g"), Let("g", d), Return(Add(V("g"), V("n")))>>),
             Say(V("g")), Say(App("f", <<N(2)>>)), Say(Add(V("g"), V("g")))>>) :
        e \in {N(1), Str("a")}, d \in {N(2), Str("b"), Add(V("g"), V("n"))}}
    \cup {Block(<<Def("f", <<>>, <<GlobalDecl("g"), Let("y", V("g")), Say(V("y"))>>), Run("f", <<>>)>>),
          Block(<<When(T, <<Return(N(1))>>), Say(N(2))>>),
          Block(<<When(F, <<Return(N(1))>>), Say(N(2))>>),
          Block(<<Say(V("z"))>>), Block(<<Run("print", <<>>)>>),
          Block(<<Let("x", N(1)), Run("x", <<>>)>>), Block(<<Def("f", <<"n">>, <<>>), Run("f", <<>>)>>)}

MCBackPrograms ==
    Loaded \cup Constants \cup Unlooked \cup Retyped \cup Joins \cup WhileLoops \cup Partly \cup Pressure
    \cup RecordPrograms \cup Captured \cup GlobalPrograms
=============================================================================
