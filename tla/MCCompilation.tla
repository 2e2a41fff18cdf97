--------------------------- MODULE MCCompilation ---------------------------
(***************************************************************************)
(* Statements to build programs from, one or two per kind of statement.    *)
(***************************************************************************)
EXTENDS Compilation, Programs

\* fun f(q) { while (q > 0) { var a = q; fun g() { return a + q; } if (q > 1) return g; q = q - 1; } }
LoopingFunction ==
  Fun("f", <<"q">>, << While(Binary(V("q"), "Greater", N(0)), Block(<<
    VarStmt("a", V("q")), Fun("g", <<>>, << Return(Binary(V("a"), "Plus", V("q"))) >>),
    IfStmt(Binary(V("q"), "Greater", N(1)), Return(V("g")), Null),
    Do(Assign("q", Binary(V("q"), "Minus", N(1)))) >>)) >>)

\* { var x; var y = x; fun h() { fun i() { x = y; } } h(); }
CapturingBlock ==
  Block(<< VarStmt("x", Null), VarStmt("y", V("x")),
           Fun("h", <<>>, << Fun("i", <<>>, << Do(Assign("x", V("y"))) >>) >>),
           Do(CallVar("h", <<>>)) >>)

\* class K < B { init(v) { this.v = v; return; } m() { return super.m(this, super.m); } }
DerivedClass ==
  Class("K", "B", << Fun("init", <<"v">>, << Do(SetExpr(This, "v", V("v"))), Return(Null) >>),
                     Fun("m", <<>>, << Return(CallSuper("m", << This, Super("m") >>)) >>) >>)

\* fun o(a, b, c) { fun m(d, e, g) { fun n() { a = b; c = d; e = g; } } }
ManyUpvalues ==
  Fun("o", <<"a", "b", "c">>, << Fun("m", <<"d", "e", "g">>, <<
    Fun("n", <<>>, << Do(Assign("a", V("b"))), Do(Assign("c", V("d"))), Do(Assign("e", V("g"))) >>) >>) >>)

\* while (true) { nil or nil or nil or nil; }
LongExpr == LET or(l) == Logical(l, "Or", Literal(Nil)) IN or(or(or(Literal(Nil))))
LongLoop == While(Literal(Bool(TRUE)), Block(<< Do(LongExpr) >>))

\* if (nil) nil or nil or nil or nil;
LongIf == IfStmt(Literal(Nil), Do(LongExpr), Null)

MCStatements ==
  { ManyUpvalues, LongLoop, LongIf,
    VarStmt("a", N(1)), VarStmt("b", Null), CapturingBlock, LoopingFunction, DerivedClass,
    Class("B", "", <<>>),
    Say(Logical(Logical(V("a"), "Or", V("b")), "And", Unary("Bang", Binary(V("a"), "LessEqual", N(2))))),
    IfStmt(V("a"), Do(CallMethod(Get(V("b"), "k"), "m", << V("a"), Literal(Nil) >>)),
           Block(<< VarStmt("a", Literal(Bool(TRUE))), Do(Assign("a", S("s"))) >>)) }

-----------------------------------------------------------------------------
\* super.m(); and print super.m;
SuperStatements == { Do(CallSuper("m", <<>>)), Say(Super("m")), DerivedClass, Class("B", "", <<>>) }
=============================================================================
