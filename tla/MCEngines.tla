------------------------------ MODULE MCEngines ----------------------------
(***************************************************************************)
(* Both engines on generated programs: every way to fill the holes of a    *)
(* template with statements that capture, assign, call, return and         *)
(* allocate, and every combination of class features in a second template. *)
(***************************************************************************)
EXTENDS Engines, Programs

Inc(n) == Do(Assign(n, Binary(V(n), "Plus", N(1))))

\* { fun g() { n = n + 1; print n; } keep = g; }
Keep(n) ==
  Block(<< Fun("g", <<>>, << Inc(n), Say(V(n)) >>), Do(Assign("keep", V("g"))) >>)

\* if (keep != nil) keep();
CallKept == IfStmt(Binary(V("keep"), "BangEqual", Literal(Nil)), Do(CallVar("keep", <<>>)), Null)

\* { var i = 0; while (i < 2) { var c = i; fun k() { print c; c = c + a; } keep = k; i = i + 1; } }
Loop ==
  Block(<< VarStmt("i", N(0)),
    While(Binary(V("i"), "Less", N(2)), Block(<<
      VarStmt("c", V("i")),
      Fun("k", <<>>, << Say(V("c")), Do(Assign("c", Binary(V("c"), "Plus", V("a")))) >>),
      Do(Assign("keep", V("k"))), Inc("i") >>)) >>)

Holes == << Inc("a"), Keep("a"), Keep("b"), CallKept, Loop, Return(V("a")) >>

\* var keep = nil;
\* fun f(a) { HOLE { var b = 20; HOLE HOLE } return keep; }
\* f(10); if (keep != nil) keep(); if (keep != nil) keep();
ClosureProgram(h) ==
  << VarStmt("keep", Literal(Nil)),
     Fun("f", <<"a">>, << Holes[h[1]],
       Block(<< VarStmt("b", N(20)), Holes[h[2]], Holes[h[3]] >>), Return(V("keep")) >>),
     Do(CallVar("f", << N(10) >>)), CallKept, CallKept >>

\* class A { init() { this.x = 1; } m() { return 1; } }
\* class B < A { [init] [m] }   var o = B(); [o.m = f;]   print o.m();   [print o.x;]
InitBodies == << <<>>, << Fun("init", <<>>, << Do(CallSuper("init", <<>>)) >>) >>,
                 << Fun("init", <<>>, << Return(Null) >>) >> >>
MethodBodies == << <<>>, << Fun("m", <<>>, << Return(N(2)) >>) >>,
                   << Fun("m", <<>>, << Return(Binary(CallSuper("m", <<>>), "Plus", N(2))) >>) >>,
                   << Fun("m", <<>>, << VarStmt("s", Super("m")),
                                        Fun("g", <<>>, << Return(CallVar("s", <<>>)) >>),
                                        Return(CallVar("g", <<>>)) >>) >> >>
Uses == << << Say(CallMethod(V("o"), "m", <<>>)) >>,
           << VarStmt("m", Get(V("o"), "m")), Do(Assign("o", Literal(Nil))), Say(CallVar("m", <<>>)) >>,
           << Do(SetExpr(V("o"), "m", V("f"))), Say(CallMethod(V("o"), "m", <<>>)), Say(Get(V("o"), "x")) >> >>

ClassProgram(h) ==
  << Fun("f", <<>>, << Return(N(3)) >>),
     Class("A", "", << Fun("init", <<>>, << Do(SetExpr(This, "x", N(1))) >>),
                       Fun("m", <<>>, << Return(N(1)) >>) >>),
     Class("B", "A", InitBodies[h[2]] \o MethodBodies[h[3]]),
     VarStmt("o", CallVar("B", <<>>)) >> \o Uses[h[4]]

MCSources ==
  [h \in (1 .. 6) \X (1 .. 6) \X (1 .. 6) |-> ClosureProgram(h)]
    @@ [h \in {0} \X (1 .. 3) \X (1 .. 4) \X (1 .. 3) |-> ClassProgram(h)]
    @@ [h \in {<<p>> : p \in DOMAIN CommonPrograms} |-> CommonPrograms[h[1]]]
    @@ (<<0>> :> Clock)

MCScripts == [p \in DOMAIN MCSources |-> C!compile(MCSources[p]).functions]

-----------------------------------------------------------------------------
\* A program on which the engines differ.
LateSources == << LateDeclaration >>
LateScripts == << C!compile(LateDeclaration).functions >>
=============================================================================
