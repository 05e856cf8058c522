------------------------------- MODULE MCMatch -------------------------------
(***************************************************************************)
(* A typed expression, matched at int:                                     *)
(*   Lit(v int) Expr[int]      Truth() Expr[bool]                          *)
(*   Add(l, r Expr[int]) Expr[int]      If(c Expr[bool], e Expr[T])        *)
(***************************************************************************)
EXTENDS Match

Variant(con, fields, possible) == [con |-> con, fields |-> fields, possible |-> possible]

ExprSignature ==
  [int |-> << Variant("Lit", <<"opaque">>, TRUE), Variant("Truth", <<>>, FALSE),
              Variant("Add", <<"int", "int">>, TRUE), Variant("If", <<"bool", "int">>, TRUE) >>,
   bool |-> << Variant("Lit", <<"opaque">>, FALSE), Variant("Truth", <<>>, TRUE),
               Variant("Add", <<"int", "int">>, FALSE), Variant("If", <<"bool", "bool">>, TRUE) >>]

P(con, args) == [con |-> con, args |-> args]
X == P("x", <<>>)
Lit == P("Lit", <<Wild>>)
Truth == P("Truth", <<>>)
Add(l, r) == P("Add", <<l, r>>)
If(c, e) == P("If", <<c, e>>)

Clause(pats, guard, impossible, bind, ends) ==
  [pats |-> pats, guard |-> guard, impossible |-> impossible, bind |-> bind, ends |-> ends]
Plain(p) == Clause(<<p>>, FALSE, FALSE, FALSE, TRUE)
Guarded(p) == Clause(<<p>>, TRUE, FALSE, FALSE, TRUE)
Either(p, q) == Clause(<<p, q>>, FALSE, FALSE, FALSE, TRUE)

\* Every kind of arm: flat, binding, nested in either field or both, guarded, with
\* alternatives, without a return, impossible, and wrong in one way or another.
ExprArms ==
  { Plain(Wild), Plain(P("Lit", <<X>>)), Plain(Add(X, Wild)), Plain(If(Wild, X)),
    Plain(Add(Lit, Wild)), Plain(Add(Wild, Lit)), Plain(Add(Add(Wild, Wild), X)),
    Plain(If(Truth, Wild)), Plain(If(If(Wild, Wild), Wild)), Plain(If(Lit, Wild)),
    Guarded(Lit), Guarded(Add(Lit, X)), Guarded(Wild),
    Either(Add(Wild, Wild), If(Wild, Wild)), Either(Lit, Lit),
    Either(Lit, Add(X, Wild)),
    Clause(<<Add(Wild, Wild)>>, FALSE, FALSE, TRUE, FALSE),
    Clause(<<Truth>>, FALSE, TRUE, FALSE, FALSE), Clause(<<Lit>>, FALSE, TRUE, FALSE, FALSE),
    Plain(Truth), Plain(P("Add", <<X>>)), Plain(P("Other", <<>>)) }
====
