------------------------------ MODULE Programs -----------------------------
(***************************************************************************)
(* Lumen programs, as the syntax trees the parser would build, on which    *)
(* the two engines are run.  Each is written to drive the machine through  *)
(* a hazard, and the comment above it is the program as Lumen source.      *)
(***************************************************************************)
EXTENDS Ast

V(n) == Variable(n)
N(i) == Literal(Num(i))
S(a) == Literal(Str(a))
Do(e) == ExprStmt(e)
Say(e) == PrintStmt(e)
CallVar(f, args) == CallExpr(V(f), args)
CallMethod(o, m, args) == CallExpr(Get(o, m), args)
CallSuper(m, args) == CallExpr(Super(m), args)

\* fun make() { var c = 0; fun inc() { c = c + 1; return c; } return inc; }
\* var a = make(); var b = make(); print a(); print a(); print b();
Counters ==
  << Fun("make", <<>>, << VarStmt("c", N(0)),
       Fun("inc", <<>>, << Do(Assign("c", Binary(V("c"), "Plus", N(1)))), Return(V("c")) >>),
       Return(V("inc")) >>),
     VarStmt("a", CallVar("make", <<>>)), VarStmt("b", CallVar("make", <<>>)),
     Say(CallVar("a", <<>>)), Say(CallVar("a", <<>>)), Say(CallVar("b", <<>>)) >>

\* Two closures share one variable, which outlives its block; the slot is
\* then used again by another block's local.
\* var get; var set;
\* { var x = 1; var y = 5; fun g() { return x + y; } fun s(v) { x = v; } get = g; set = s; x = 2; }
\* { var z = 9; set(z); print get(); }
SharedUpvalue ==
  << VarStmt("get", Null), VarStmt("set", Null),
     Block(<< VarStmt("x", N(1)), VarStmt("y", N(5)),
              Fun("g", <<>>, << Return(Binary(V("x"), "Plus", V("y"))) >>),
              Fun("s", <<"v">>, << Do(Assign("x", V("v"))) >>),
              Do(Assign("get", V("g"))), Do(Assign("set", V("s"))), Do(Assign("x", N(2))) >>),
     Block(<< VarStmt("z", N(9)), Do(CallVar("set", << V("z") >>)), Say(CallVar("get", <<>>)) >>) >>

\* An upvalue of an upvalue: the innermost function reaches two levels out.
\* fun outer(x) { fun mid() { fun inner() { x = x * 2; return x; } return inner; } return mid(); }
\* var f = outer(3); print f(); print f();
NestedCapture ==
  << Fun("outer", <<"x">>, <<
       Fun("mid", <<>>, <<
         Fun("inner", <<>>, << Do(Assign("x", Binary(V("x"), "Star", N(2)))), Return(V("x")) >>),
         Return(V("inner")) >>),
       Return(CallVar("mid", <<>>)) >>),
     VarStmt("f", CallVar("outer", << N(3) >>)), Say(CallVar("f", <<>>)), Say(CallVar("f", <<>>)) >>

\* A variable stays captured when the closure that captured it is garbage, and
\* is captured again.
\* { var x = 1; { fun g() { x = x + 1; } g(); } gc(); x = x + 1; fun h() { return x; } print h(); }
OrphanUpvalue ==
  << Block(<< VarStmt("x", N(1)),
       Block(<< Fun("g", <<>>, << Do(Assign("x", Binary(V("x"), "Plus", N(1)))) >>),
                Do(CallVar("g", <<>>)) >>),
       Do(CallVar("gc", <<>>)), Do(Assign("x", Binary(V("x"), "Plus", N(1)))),
       Fun("h", <<>>, << Return(V("x")) >>), Say(CallVar("h", <<>>)) >>) >>

\* Every iteration captures a variable of its own.
\* var keep = nil; var i = 0;
\* while (i < 3) { var j = i; fun f() { return j; } if (i == 1) keep = f; i = i + 1; }
\* print keep();
LoopCapture ==
  << VarStmt("keep", Literal(Nil)), VarStmt("i", N(0)),
     While(Binary(V("i"), "Less", N(3)),
       Block(<< VarStmt("j", V("i")), Fun("f", <<>>, << Return(V("j")) >>),
                IfStmt(Binary(V("i"), "EqualEqual", N(1)), Do(Assign("keep", V("f"))), Null),
                Do(Assign("i", Binary(V("i"), "Plus", N(1)))) >>)),
     Say(CallVar("keep", <<>>)) >>

\* Local recursive functions: the closure captures its own slot.
\* { fun fact(n) { if (n < 2) return 1; else return n * fact(n - 1); } print fact(3); }
LocalRecursion ==
  << Block(<<
       Fun("fact", <<"n">>, <<
         IfStmt(Binary(V("n"), "Less", N(2)), Return(N(1)),
           Return(Binary(V("n"), "Star", CallVar("fact", << Binary(V("n"), "Minus", N(1)) >>)))) >>),
       Say(CallVar("fact", << N(3) >>)) >>) >>

\* class Node { init(v) { this.v = v; } link(o) { this.next = o; return this; } }
\* { var a = Node(1); var b = Node(2).link(a); a.link(b); print a.next.v; }
\* gc(); var last = Node(3); print last.v;
Cycle ==
  << Class("Node", "", <<
       Fun("init", <<"v">>, << Do(SetExpr(This, "v", V("v"))) >>),
       Fun("link", <<"o">>, << Do(SetExpr(This, "next", V("o"))), Return(This) >>) >>),
     Block(<< VarStmt("a", CallVar("Node", << N(1) >>)),
              VarStmt("b", CallMethod(CallVar("Node", << N(2) >>), "link", << V("a") >>)),
              Do(CallMethod(V("a"), "link", << V("b") >>)),
              Say(Get(Get(V("a"), "next"), "v")) >>),
     Do(CallVar("gc", <<>>)),
     VarStmt("last", CallVar("Node", << N(3) >>)), Say(Get(V("last"), "v")) >>

\* class A { init() { this.tag = "a"; } who() { return this.tag; } }
\* class B < A { who() { return "b" + super.who(); } old() { var m = super.who; return m(); } }
\* class C < B {}
\* var c = C(); var bound = c.who; print bound(); print c.old(); print c;
Inheritance ==
  << Class("A", "", << Fun("init", <<>>, << Do(SetExpr(This, "tag", S("a"))) >>),
                       Fun("who", <<>>, << Return(Get(This, "tag")) >>) >>),
     Class("B", "A", << Fun("who", <<>>, << Return(Binary(S("b"), "Plus", CallSuper("who", <<>>))) >>),
                        Fun("old", <<>>, << VarStmt("m", Super("who")), Return(CallVar("m", <<>>)) >>) >>),
     Class("C", "B", <<>>),
     VarStmt("c", CallVar("C", <<>>)), VarStmt("bound", Get(V("c"), "who")),
     Say(CallVar("bound", <<>>)), Say(CallMethod(V("c"), "old", <<>>)), Say(V("c")) >>

\* A local class whose methods reach it, its superclass and a captured local
\* after the scope is gone.
\* fun f() { var k = 7; class P { m() { return k; } } class Q < P { m() { return super.m() + 1; } }
\*           return Q(); }
\* var q = f(); gc(); print q.m();
LocalClass ==
  << Fun("f", <<>>, << VarStmt("k", N(7)),
       Class("P", "", << Fun("m", <<>>, << Return(V("k")) >>) >>),
       Class("Q", "P", << Fun("m", <<>>, << Return(Binary(CallSuper("m", <<>>), "Plus", N(1))) >>) >>),
       Return(CallVar("Q", <<>>)) >>),
     VarStmt("q", CallVar("f", <<>>)), Do(CallVar("gc", <<>>)), Say(CallMethod(V("q"), "m", <<>>)) >>

\* A field that holds a function shadows the method; gc() called through a
\* field collects in the middle of Invoke, when the receiver is off the stack.
\* class O { m() { return 1; } }
\* fun two() { return 2; }
\* var o = O(); print o.m(); o.m = two; print o.m(); o.g = gc; o.g(); print o.m;
\* O().g = gc;
\* fun mk() { var p = O(); p.g = gc; return p; }
\* mk().g();
FieldCalls ==
  << Class("O", "", << Fun("m", <<>>, << Return(N(1)) >>) >>),
     Fun("two", <<>>, << Return(N(2)) >>),
     VarStmt("o", CallVar("O", <<>>)), Say(CallMethod(V("o"), "m", <<>>)),
     Do(SetExpr(V("o"), "m", V("two"))), Say(CallMethod(V("o"), "m", <<>>)),
     Do(SetExpr(V("o"), "g", V("gc"))), Do(CallMethod(V("o"), "g", <<>>)), Say(Get(V("o"), "m")),
     Do(SetExpr(CallVar("O", <<>>), "g", V("gc"))),
     Fun("mk", <<>>, << VarStmt("p", CallVar("O", <<>>)), Do(SetExpr(V("p"), "g", V("gc"))),
                        Return(V("p")) >>),
     Do(CallMethod(CallVar("mk", <<>>), "g", <<>>)) >>

\* Short circuits, loops and comparisons, with temporaries below them.
\* var i = 3; var s = "";
\* while (i > 0 and s != "stop") { s = s + "x"; i = i - 1; }
\* print s; print (nil or 4) + (false or -1); print !(1 >= 2) and 1 <= 1; print true == !nil; print 6 / 3;
Expressions ==
  << VarStmt("i", N(3)), VarStmt("s", S("")),
     While(Logical(Binary(V("i"), "Greater", N(0)), "And", Binary(V("s"), "BangEqual", S("stop"))),
       Block(<< Do(Assign("s", Binary(V("s"), "Plus", S("x")))),
                Do(Assign("i", Binary(V("i"), "Minus", N(1)))) >>)),
     Say(V("s")),
     Say(Binary(Grouping(Logical(Literal(Nil), "Or", N(4))), "Plus",
                Grouping(Logical(Literal(Bool(FALSE)), "Or", Unary("Minus", N(1)))))),
     Say(Logical(Unary("Bang", Grouping(Binary(N(1), "GreaterEqual", N(2)))), "And",
                 Binary(N(1), "LessEqual", N(1)))),
     Say(Binary(Literal(Bool(TRUE)), "EqualEqual", Unary("Bang", Literal(Nil)))),
     Say(Binary(N(6), "Slash", N(3))) >>

\* An upvalue is closed while its function is still on the frame stack, and
\* an early return leaves two scopes with captured locals at once.
\* fun f(p) { var r; { var x = p; { var y = 1; fun g() { return x + y + p; } r = g;
\*            if (p > 1) return g; } x = 10; } return r; }
\* print f(1)(); print f(2)();
EarlyReturn ==
  << Fun("f", <<"p">>, << VarStmt("r", Null),
       Block(<< VarStmt("x", V("p")),
         Block(<< VarStmt("y", N(1)),
                  Fun("g", <<>>, << Return(Binary(Binary(V("x"), "Plus", V("y")), "Plus", V("p"))) >>),
                  Do(Assign("r", V("g"))),
                  IfStmt(Binary(V("p"), "Greater", N(1)), Return(V("g")), Null) >>),
         Do(Assign("x", N(10))) >>),
       Return(V("r")) >>),
     Say(CallExpr(CallVar("f", << N(1) >>), <<>>)), Say(CallExpr(CallVar("f", << N(2) >>), <<>>)) >>

\* Programs that end in each of the runtime errors, the machine being in the
\* middle of calls, scopes and temporaries.
Failing ==
  LET helper == Fun("h", <<"x">>, << Return(V("x")) >>)
      inside(e) == << helper, Block(<< VarStmt("loc", N(1)),
                        Fun("c", <<>>, << Say(V("loc")), Do(Binary(N(1), "Plus", e)) >>),
                        Do(CallVar("c", <<>>)) >>) >>
  IN  << inside(V("nope")), inside(Assign("nope", N(1))), inside(Unary("Minus", S("s"))),
         inside(Binary(S("s"), "Less", N(1))), inside(Binary(S("s"), "Plus", N(1))),
         inside(CallVar("h", <<>>)), inside(CallExpr(N(1), <<>>)), inside(CallVar("gc", << N(1) >>)),
         inside(Get(N(1), "p")), inside(SetExpr(N(1), "p", N(2))),
         inside(CallMethod(N(1), "p", <<>>)) >>

\* class K { init(a) {} }  class E {} ... and the errors that need a class.
FailingClasses ==
  LET decls == << Class("E", "", <<>>), Class("K", "", << Fun("init", <<"a">>, <<>>) >>),
                  Class("M", "E", << Fun("m", <<>>, << Do(CallSuper("zip", <<>>)) >>),
                                     Fun("n", <<>>, << Return(Super("zip")) >>) >>) >>
  IN  << decls \o << Do(CallVar("K", <<>>)) >>,
         decls \o << Do(CallVar("E", << N(1) >>)) >>,
         decls \o << Do(Get(CallVar("E", <<>>), "zip")) >>,
         decls \o << Do(CallMethod(CallVar("E", <<>>), "zip", <<>>)) >>,
         decls \o << Do(CallMethod(CallVar("M", <<>>), "m", <<>>)) >>,
         decls \o << Do(CallMethod(CallVar("M", <<>>), "n", <<>>)) >>,
         << VarStmt("x", N(1)), Class("D", "x", <<>>) >> >>

\* A field shadows a method with a bound method, a class with and without init,
\* and then with what cannot be called so.
\* class O { m(x) { return x; } }  class K { init(a) { this.a = a; } }  class E {}
\* var o = O();  o.f = [o.m | K | E | h | gc | 1];  print o.f([1]);  and the same
\* with an argument too few or too many, through o.m(...) and super.m(...) too.
FieldCallees ==
  LET decls == << Class("O", "", << Fun("m", <<"x">>, << Return(V("x")) >>) >>),
                  Class("P", "O", << Fun("m", <<>>, << Return(CallSuper("m", <<>>)) >>) >>),
                  Class("K", "", << Fun("init", <<"a">>, << Do(SetExpr(This, "a", V("a"))) >>) >>),
                  Class("E", "", <<>>), Fun("h", <<"x">>, << Return(V("x")) >>),
                  VarStmt("o", CallVar("O", <<>>)) >>
      field(e, args) ==
        decls \o << Do(SetExpr(V("o"), "f", e)), Say(CallMethod(V("o"), "f", args)) >>
      bound == Get(V("o"), "m")
  IN  << field(bound, << N(1) >>), field(V("K"), << N(1) >>), field(V("E"), <<>>),
         field(bound, <<>>), field(V("K"), <<>>), field(V("E"), << N(1) >>), field(V("h"), <<>>),
         field(V("gc"), << N(1) >>), field(N(1), <<>>),
         decls \o << Do(CallMethod(V("o"), "m", <<>>)) >>,
         decls \o << VarStmt("b", bound), Do(CallVar("b", <<>>)) >>,
         decls \o << Do(CallMethod(CallVar("P", <<>>), "m", <<>>)) >> >>

\* The programs that both engines run alike.
CommonPrograms ==
  << Counters, SharedUpvalue, NestedCapture, OrphanUpvalue, LoopCapture, LocalRecursion, Cycle,
     Inheritance, LocalClass, FieldCalls, Expressions, EarlyReturn >> \o Failing \o FailingClasses
     \o FieldCallees

\* Recursion without end, a captured local in every frame.
\* fun f(n) { var a; var b; fun g() { return a; } f(n); }  f(1);
Endless ==
  << Fun("f", <<"n">>, << VarStmt("a", Null), VarStmt("b", Null),
                          Fun("g", <<>>, << Return(V("a")) >>), Do(CallVar("f", << V("n") >>)) >>),
     Do(CallVar("f", << N(1) >>)) >>

\* Recursion without end through every other way to enter a frame: a method,
\* an initializer, a bound method, super, and fields that hold a function, a
\* bound method and a class.
EndlessCalls ==
  LET o == V("o")
      with(methods, stmts) == << Class("R", "", methods), VarStmt("o", CallVar("R", <<>>)) >> \o stmts
      callsF == << Fun("m", <<>>, << Do(CallMethod(This, "f", <<>>)) >>) >>
  IN  << with(<< Fun("m", <<>>, << Do(CallMethod(This, "m", <<>>)) >>) >>,
              << Do(CallMethod(o, "m", <<>>)) >>),
         with(<< Fun("init", <<>>, << Do(CallVar("R", <<>>)) >>) >>, <<>>),
         with(<< Fun("m", <<>>, << VarStmt("b", Get(This, "m")), Do(CallVar("b", <<>>)) >>) >>,
              << Do(CallMethod(o, "m", <<>>)) >>),
         with(<< Fun("m", <<>>, << Do(CallMethod(This, "m", <<>>)) >>) >>,
              << Class("Q", "R", << Fun("m", <<>>, << Do(CallSuper("m", <<>>)) >>) >>),
                 Do(CallMethod(CallVar("Q", <<>>), "m", <<>>)) >>),
         with(<<>>, << Fun("g", <<>>, << Do(CallMethod(o, "f", <<>>)) >>),
                       Do(SetExpr(o, "f", V("g"))), Do(CallVar("g", <<>>)) >>),
         with(callsF, << Do(SetExpr(o, "f", Get(o, "m"))), Do(CallMethod(o, "m", <<>>)) >>),
         with(<<>>, << Class("I", "", << Fun("init", <<>>, << Do(CallMethod(o, "f", <<>>)) >>) >>),
                       Do(SetExpr(o, "f", V("I"))), Do(CallVar("I", <<>>)) >>) >>

\* print clock() > 0;
Clock == << Say(Binary(CallVar("clock", <<>>), "Greater", N(0))) >>

\* print gc();
PrintGc == << Say(CallVar("gc", <<>>)) >>

\* A name is declared again in a block after a function of the block used it.
\* var x = 1; { fun f() { print x; } f(); var x = 2; f(); }
LateDeclaration ==
  << VarStmt("x", N(1)),
     Block(<< Fun("f", <<>>, << Say(V("x")) >>), Do(CallVar("f", <<>>)),
              VarStmt("x", N(2)), Do(CallVar("f", <<>>)) >>) >>
=============================================================================
