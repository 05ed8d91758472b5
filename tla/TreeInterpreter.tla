--------------------------- MODULE TreeInterpreter ---------------------------
(***************************************************************************)
(* The AST interpreter (interpreter/): one recursive visitor over the      *)
(* tree.  Its state is the record st:                                      *)
(*   frames  every StackFrame created, the global one first                *)
(*   cur     the frame on top of the stack of frames                       *)
(*   val     retval, the result of the last expression                     *)
(*   recs    the records allocated                                         *)
(*   out     what was printed                                              *)
(*   exc     the exception under way, "" when there is none                *)
(*   null    whether a null Value* was read so far (history only)          *)
(* A null Value* is the value Null: a read of a declared global that has   *)
(* no value produces one, and no exception.                                *)
(***************************************************************************)
EXTENDS Scopes, TLC

Null == <<"null">>

Live(st) == st.exc = ""
Throw(st, kind) == [st EXCEPT !.exc = kind]
ReturnVal(st, v) == [st EXCEPT !.val = v]

NewFrame(parent) == [vars |-> <<>>, globals |-> {}, parent |-> parent, ret |-> Null]
Returned(st) == st.frames[st.cur].ret # Null

\* StackFrame::Update of frame f.
UpdateIn(st, f, x, v) == [st EXCEPT !.frames[f].vars = (x :> v) @@ @]

InitialState ==
    [frames |-> << [NewFrame(0) EXCEPT !.vars = "print" :> NativePrint] >>,
     cur |-> 1, val |-> Null, recs |-> <<>>, out |-> <<>>, exc |-> "", null |-> FALSE]

-----------------------------------------------------------------------------
(* Heap: variables are looked up along the chain of defining frames.       *)

UpdateVar(st, x, v) ==
    UpdateIn(st, IF x \in st.frames[st.cur].globals THEN 1 ELSE st.cur, x, v)

ReadGlobal(st, x) ==
    LET g == st.frames[1].vars IN
    IF x \in DOMAIN g THEN ReturnVal(st, g[x]) ELSE [ReturnVal(st, Null) EXCEPT !.null = TRUE]

ReadVar(st, x) ==
    LET RECURSIVE from(_)
        from(f) ==
            IF f = 0 THEN Throw(st, "uninitialized")
            ELSE IF x \in st.frames[f].globals THEN ReadGlobal(st, x)
            ELSE IF x \in DOMAIN st.frames[f].vars THEN ReturnVal(st, st.frames[f].vars[x])
            ELSE from(st.frames[f].parent)
    IN  from(st.cur)

\* FunctionScanner: what a call creates in the frame before the arguments are
\* evaluated.  Nested functions are not entered.
FunctionScanner(frame, body) ==
    [frame EXCEPT !.vars = [x \in AssignedNames(body) |-> None],
                  !.globals = DeclaredGlobals(body)]

\* interp_cast: the value must have the type.  IllegalCastException asks the
\* value for its string, which a null pointer has not.
Cast(st, ok) == IF Live(st) /\ ~ok THEN Throw(st, IF st.val = Null THEN "crash" ELSE "cast")
                ELSE st

RecordOf(st)  == st.recs[st.val[2]]
ReadField(st, key) ==
    ReturnVal(st, IF key \in DOMAIN RecordOf(st) THEN RecordOf(st)[key] ELSE None)
UpdateField(st, r, key, v) == [st EXCEPT !.recs[r] = (key :> v) @@ @]

-----------------------------------------------------------------------------
RECURSIVE Exec(_, _), EvalArgs(_, _, _), RunBlock(_, _), RunLoop(_, _),
          EvalCall(_, _), EvalPlus(_, _), EvalOperands(_, _, _), InitFields(_, _, _)

\* Both operands, each cast before the next one is evaluated; the left one
\* is in .left.
EvalOperands(n, type, st) ==
    LET l == Exec(n[3], st)
        c == Cast(l, type = "any" \/ l.val[1] = type)
        r == Exec(n[4], c)
    IN  IF ~Live(c) THEN [left |-> Null, st |-> c]
        ELSE [left |-> c.val, st |-> Cast(r, type = "any" \/ r.val[1] = type)]

EvalInts(n, st) ==
    LET o == EvalOperands(n, "int", st) IN
    IF ~Live(o.st) THEN o.st
    ELSE IF n[2] = "/" /\ o.st.val[2] = 0 THEN Throw(o.st, "arithmetic")
    ELSE ReturnVal(o.st, IntOp(n[2], o.left[2], o.st.val[2]))

\* Without a string both operands are evaluated a second time, by visitIntOp.
EvalPlus(n, st) ==
    LET o == EvalOperands(n, "any", st) IN
    IF ~Live(o.st) THEN o.st
    ELSE IF IsStr(o.left) \/ IsStr(o.st.val)
         THEN IF Null \in {o.left, o.st.val} THEN Throw(o.st, "crash")
              ELSE ReturnVal(o.st, <<"str", Show(o.left) \o Show(o.st.val)>>)
    ELSE EvalInts(n, o.st)

EvalBin(n, st) ==
    CASE n[2] = "+" -> EvalPlus(n, st)
      [] n[2] \in IntOps -> EvalInts(n, st)
      [] n[2] \in {"&", "|"} ->
            LET o == EvalOperands(n, "bool", st) IN
            IF ~Live(o.st) THEN o.st
            ELSE ReturnVal(o.st, BoolOp(n[2], o.left[2], o.st.val[2]))
      [] n[2] = "==" ->
            LET o == EvalOperands(n, "any", st) IN
            IF ~Live(o.st) THEN o.st
            ELSE IF o.left = Null THEN Throw(o.st, "crash")
            ELSE ReturnVal(o.st, Bool(o.left = o.st.val))

EvalUn(n, st) ==
    LET type == IF n[2] = "!" THEN "bool" ELSE "int"
        e    == Exec(n[3], st)
        c    == Cast(e, e.val[1] = type)
    IN  IF ~Live(c) THEN c
        ELSE ReturnVal(c, IF n[2] = "!" THEN Bool(~c.val[2]) ELSE Num(-c.val[2]))

InitFields(fields, r, st) ==
    IF fields = <<>> \/ ~Live(st) THEN st
    ELSE LET v == Exec(Head(fields)[2], st)
         IN  InitFields(Tail(fields), r,
                        IF Live(v) THEN UpdateField(v, r, Show(Lit(Head(fields)[1])), v.val)
                                   ELSE v)

\* The arguments of a call, in .vals.
EvalArgs(args, vals, st) ==
    IF args = <<>> \/ ~Live(st) THEN [vals |-> vals, st |-> st]
    ELSE LET a == Exec(Head(args), st) IN EvalArgs(Tail(args), Append(vals, a.val), a)

\* The frame of the callee exists, with its variables None, while the
\* arguments are evaluated in the frame of the caller.
EvalCall(n, st) ==
    LET t == Exec(n[2], st)
        f == t.val
        arity == IF f = NativePrint THEN 1 ELSE Len(f[3])
    IN  IF ~Live(t) THEN t
        ELSE IF f[1] \notin {"function", "native"} THEN Cast(t, FALSE)
        ELSE IF Len(n[3]) # arity THEN Throw(t, "runtime")
        ELSE IF f = NativePrint
             THEN LET a == EvalArgs(n[3], <<>>, t) IN
                  IF ~Live(a.st) THEN a.st
                  ELSE IF a.vals[1] = Null THEN Throw(a.st, "crash")
                  ELSE ReturnVal([a.st EXCEPT !.out = Append(@, Show(a.vals[1]))], None)
        ELSE LET frame == Len(t.frames) + 1
                 mk    == [t EXCEPT !.frames = Append(@, FunctionScanner(NewFrame(f[2]), f[4]))]
                 a     == EvalArgs(n[3], <<>>, mk)
                 bind(s, i) == UpdateIn(s, frame, f[3][i], a.vals[i])
                 in    == FoldLeft(bind, [a.st EXCEPT !.cur = frame], [i \in 1..arity |-> i])
                 body  == Exec(f[4], in)
             IN  IF ~Live(a.st) THEN a.st
                 ELSE IF ~Live(body) THEN body
                 ELSE [body EXCEPT !.cur = t.cur,
                                   !.val = IF Returned(body) THEN body.frames[frame].ret ELSE None]

\* Store v, which a null value turns into a read (asvals.top() is null).
StoreTo(lhs, v, st) ==
    IF v = Null THEN Exec(lhs, st)
    ELSE CASE lhs[1] = "name" -> UpdateVar(st, lhs[2], v)
           [] lhs[1] = "field" ->
                LET b == Exec(lhs[2], st)
                    c == Cast(b, b.val[1] = "record")
                IN  IF ~Live(c) THEN c ELSE UpdateField(c, c.val[2], Show(Lit(lhs[3])), v)
           [] lhs[1] = "index" ->
                LET b == Exec(lhs[2], st)
                    c == Cast(b, b.val[1] = "record")
                    i == Exec(lhs[3], c)
                IN  IF ~Live(c) THEN c ELSE IF ~Live(i) THEN i
                    ELSE IF i.val = Null THEN Throw(i, "crash")
                    ELSE UpdateField(i, c.val[2], Show(i.val), v)

RunBlock(stmts, st) ==
    IF stmts = <<>> THEN st
    ELSE LET s == Exec(Head(stmts), st)
         IN  IF ~Live(s) \/ Returned(s) THEN s ELSE RunBlock(Tail(stmts), s)

\* The condition is evaluated once more after a body that returned.
RunLoop(n, st) ==
    LET c == Exec(n[2], st)
        b == Cast(c, IsBool(c.val))
    IN  IF ~Live(b) \/ ~b.val[2] \/ Returned(b) THEN b
        ELSE LET body == Exec(n[3], b) IN IF Live(body) THEN RunLoop(n, body) ELSE body

Exec(n, st) ==
    CASE ~Live(st) -> st
      [] n[1] = "block"  -> RunBlock(n[2], st)
      [] n[1] = "name"   -> ReadVar(st, n[2])
      [] n[1] = "const"  -> ReturnVal(st, n[2])
      [] n[1] = "fun"    -> ReturnVal(st, <<"function", st.cur, n[2], n[3]>>)
      [] n[1] = "call"   -> EvalCall(n, st)
      [] n[1] = "bin"    -> EvalBin(n, st)
      [] n[1] = "un"     -> EvalUn(n, st)
      [] n[1] = "rec"    ->
            LET r == Len(st.recs) + 1
                s == InitFields(n[2], r, [st EXCEPT !.recs = Append(@, <<>>)])
            IN  ReturnVal(s, <<"record", r>>)
      [] n[1] = "field"  ->
            LET b == Exec(n[2], st)
                c == Cast(b, b.val[1] = "record")
            IN  IF Live(c) THEN ReadField(c, Show(Lit(n[3]))) ELSE c
      [] n[1] = "index"  ->
            LET b == Exec(n[2], st)
                c == Cast(b, b.val[1] = "record")
                i == Exec(n[3], c)
            IN  IF ~Live(i) THEN i
                ELSE IF i.val = Null THEN Throw(i, "crash")
                ELSE ReadField([i EXCEPT !.val = c.val], Show(i.val))
      [] n[1] = "assign" ->
            LET e == Exec(n[3], st) IN IF Live(e) THEN StoreTo(n[2], e.val, e) ELSE e
      [] n[1] = "do"     -> Exec(n[2], st)
      [] n[1] = "global" -> st
      [] n[1] = "if"     ->
            LET c == Exec(n[2], st)
                b == Cast(c, IsBool(c.val))
            IN  IF ~Live(b) THEN b ELSE Exec(IF b.val[2] THEN n[3] ELSE n[4], b)
      [] n[1] = "while"  -> RunLoop(n, st)
      [] n[1] = "return" ->
            LET e == Exec(n[2], st) IN
            IF Live(e) THEN [e EXCEPT !.frames[e.cur].ret = e.val] ELSE e

\* What a program prints and how it ends.
Interpret(program) ==
    LET st == Exec(program, InitialState)
    IN  [out |-> st.out, end |-> IF Live(st) THEN "ok" ELSE st.exc, null |-> st.null]
=============================================================================
