------------------------------ MODULE MitScript ------------------------------
(***************************************************************************)
(* The syntax trees of MITScript (AST.h) and the values both interpreters  *)
(* compute with.  A node is a tuple whose first element is its class; a    *)
(* value is a tuple whose first element is its type.                       *)
(***************************************************************************)
EXTENDS Integers, Sequences, SequencesExt

CONSTANT NameOrder   \* every identifier of the programs, in the order of std::set<string>

-----------------------------------------------------------------------------
Name(x)         == <<"name", x>>
Const(v)        == <<"const", v>>
Fun(args, body) == <<"fun", args, body>>
Call(f, args)   == <<"call", f, args>>
Bin(op, l, r)   == <<"bin", op, l, r>>
Un(op, e)       == <<"un", op, e>>
Rec(fields)     == <<"rec", fields>>          \* a sequence of <<field, expression>>
Field(b, f)     == <<"field", b, f>>
At(b, i)    == <<"index", b, i>>
Assign(l, e)    == <<"assign", l, e>>
Do(call)        == <<"do", call>>
GlobalDecl(x)      == <<"global", x>>
IfElse(c, t, e)    == <<"if", c, t, e>>
WhileDo(c, b)    == <<"while", c, b>>
Return(e)       == <<"return", e>>
Block(s)        == <<"block", s>>

IsName(n) == n[1] = "name"

\* The nodes CompilerScanner visits below n, in its order.  The field name of
\* a dereference and the parameters of a function are visited as names.
Children(n) ==
    CASE n[1] \in {"name", "const", "global"} -> <<>>
      [] n[1] = "fun"    -> [i \in DOMAIN n[2] |-> Name(n[2][i])] \o <<n[3]>>
      [] n[1] = "call"   -> <<n[2]>> \o n[3]
      [] n[1] = "bin"    -> <<n[3], n[4]>>
      [] n[1] = "un"     -> <<n[3]>>
      [] n[1] = "rec"    -> [i \in DOMAIN n[2] |-> n[2][i][2]]
      [] n[1] = "field"  -> <<n[2], Name(n[3])>>
      [] n[1] = "block"  -> n[2]
      [] n[1] \in {"index", "assign", "if", "while", "do", "return"} -> Tail(n)

-----------------------------------------------------------------------------
None    == <<"none">>
Num(i)  == <<"int", i>>
Bool(b) == <<"bool", b>>
Lit(s)  == <<"str", << <<"lit", s>> >> >>
NativePrint == <<"native">>         \* the built-in print; input and intcast are I/O

IsInt(v)  == v[1] = "int"
IsBool(v) == v[1] = "bool"
IsStr(v)  == v[1] = "str"

\* toString, kept as the sequence of the pieces that are concatenated: equal
\* for two values exactly when the printed strings are.  Every function prints
\* as FUNCTION; the programs print no record.
Show(v) == CASE IsStr(v) -> v[2]
             [] v[1] \in {"function", "native"} -> << <<"FUNCTION">> >>
             [] OTHER -> << v >>

IntOps == {"-", "*", "/", "<", "<=", ">", ">="}

\* C++ division truncates towards zero.
Quotient(a, b) ==
    LET abs(i) == IF i < 0 THEN -i ELSE i
        q      == abs(a) \div abs(b)
    IN  IF (a < 0) = (b < 0) THEN q ELSE -q

\* What an operator of two integers computes; b # 0 for "/".
IntOp(op, a, b) ==
    CASE op = "+"  -> Num(a + b)
      [] op = "-"  -> Num(a - b)
      [] op = "*"  -> Num(a * b)
      [] op = "/"  -> Num(Quotient(a, b))
      [] op = "<"  -> Bool(a < b)
      [] op = "<=" -> Bool(a <= b)
      [] op = ">"  -> Bool(a > b)
      [] op = ">=" -> Bool(a >= b)

BoolOp(op, a, b) == Bool(IF op = "&" THEN a /\ b ELSE a \/ b)

IndexIn(seq, x) == CHOOSE i \in DOMAIN seq : seq[i] = x

\* The elements of a set of names in the order a std::set iterates over them.
Sorted(S) == SelectSeq(NameOrder, LAMBDA x : x \in S)
=============================================================================
