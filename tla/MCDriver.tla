------------------------------ MODULE MCDriver -----------------------------
(***************************************************************************)
(* The driver with the stages as their modules have them, and the command  *)
(* lines, files and lines it is run on.                                    *)
(***************************************************************************)
EXTENDS Driver, SequencesExt

L == INSTANCE Lexer WITH MaxDouble <- 1000000, MinInverse <- 1000000
P == INSTANCE Parser WITH MaxArguments <- 255
C == INSTANCE Compiler WITH ByteMax <- 255
T == INSTANCE Interpreter WITH ClockReading <- 1

LexerScan(text) == L!scan_tokens(text)
ParserParse(tokens) == P!parse(tokens)
CompilerCompile(statements) == C!compile(statements)
TreeInterpret(statements) == T!interpret(statements)

Option(sort, value) == [sort |-> sort, value |-> value]

\* Every command line of up to two of these arguments; an empty argument names no script.
Arguments ==
  {Option("engine", "tree"), Option("engine", "bytecode"), Option("engine", "jit"),
   Option("help", "-h"), Option("option", "-x"), Option("script", "")}
    \union {Option("script", path) : path \in DOMAIN Files \union {"absent"}}
MCCommandLines == BoundedSeq(Arguments, 2)

\* One program per stage that can reject it, each after a statement that prints; one
\* that fails at run time, and ones that use classes, closures and loops.
Programs ==
  [ good     |-> "var x = 1; print x;",
    lexical  |-> "print 1; @",
    string   |-> "print 1; \"open",
    syntax   |-> "print 1; print ;",
    several  |-> "print ; print 1; var ; print 2;",
    compile  |-> "print 1; { var a; var a; }",
    this     |-> "print 1; print this;",
    runtime  |-> "print 1; print x; print 2;",
    loop     |-> "for (var i = 0; i < 2; i = i + 1) print i;",
    classes  |-> "class A { m() { return 1; } } class B < A { m() { return super.m() + 1; } } print B().m();",
    closures |-> "fun f(n) { fun g() { n = n + 1; return n; } return g; } var h = f(1); h(); print h();",
    comment  |-> "// nothing" ]

\* Lines: state that must not survive (x, a class), and every way to fail.
MCLines == {"", "var x = 1; print x;", "print x;", "print 1; print x; print 2;", "print 1; @",
          "print 1; print ;", "print 1; { var a; var a; }", "print 1; print this;", "// nothing"}

-----------------------------------------------------------------------------
\* A return outside any function.
ReturnFiles == [return |-> "print 1; return;"]
ReturnCommandLines == {<<Option("engine", e), Option("script", "return")>> : e \in Engines}
=============================================================================
