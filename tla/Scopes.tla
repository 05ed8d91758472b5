-------------------------------- MODULE Scopes --------------------------------
(***************************************************************************)
(* The two scans of a function's statements that the AST interpreter and   *)
(* the bytecode compiler share.                                            *)
(***************************************************************************)
EXTENDS MitScript

\* What the statements of one function assign and declare global; the
\* functions inside it are not entered.
RECURSIVE AssignedNames(_), DeclaredGlobals(_)
AssignedNames(n) ==
    CASE n[1] = "assign" -> IF IsName(n[2]) THEN {n[2][2]} ELSE {}
      [] n[1] \in {"block", "if", "while"} ->
            UNION {AssignedNames(Children(n)[i]) : i \in DOMAIN Children(n)}
      [] OTHER -> {}
DeclaredGlobals(n) ==
    CASE n[1] = "global" -> {n[2]}
      [] n[1] \in {"block", "if", "while"} ->
            UNION {DeclaredGlobals(Children(n)[i]) : i \in DOMAIN Children(n)}
      [] OTHER -> {}
=============================================================================
