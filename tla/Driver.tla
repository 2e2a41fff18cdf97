------------------------------- MODULE Driver ------------------------------
(***************************************************************************)
(* The process: the command line (main.cpp), the file and REPL modes and   *)
(* run_source (repl/driver.cpp), from characters to exit code, one step    *)
(* per stage.  The stages are parameters: what is said of the driver holds *)
(* whatever they do, and MCDriver puts the modules Lexer, Parser, Compiler *)
(* and Interpreter in their places.  VM::run is represented by its         *)
(* outcome, which is the tree walker's on the programs used there          *)
(* (EnginesAgree of Engines, where the machine itself runs).               *)
(*                                                                         *)
(* stdout and stderr are sequences of tagged pieces: <<"text", ..>> is what*)
(* the driver writes, <<"out", line>> a line of the program, <<"error", e>>*)
(* a diagnostic.                                                           *)
(***************************************************************************)
EXTENDS Lists

CONSTANTS
  CommandLines,    \* argument lists; an argument is a record with its sort and value
  Files,           \* the files there are: from path to text
  Lines,           \* what the user may type
  MaxLines,        \* bound: lines in a session
  lexer_scan(_),        \* a text's tokens and errors
  parser_parse(_),      \* a token list's statements and errors
  compiler_compile(_),  \* the errors the compiler finds in statements
  engine_run(_)         \* how running statements ends (signal, message) and what it prints (out)

Texts == Lines \cup Range(Files)

\* The stages return lists, on what the stages before them accept.
ASSUME StagesAssumption ==
  \A text \in Texts :
    LET tokens == lexer_scan(text).tokens
        tree == parser_parse(tokens).statements
    IN  /\ IsList(lexer_scan(text).errors)
        /\ lexer_scan(text).errors = <<>> =>
             /\ IsList(parser_parse(tokens).errors)
             /\ parser_parse(tokens).errors = <<>> =>
                  IsList(compiler_compile(tree).errors) /\ IsList(engine_run(tree).out)

ASSUME CommandLinesAssumption ==
  \A args \in CommandLines :
    IsList(args) /\ \A i \in DOMAIN args :
      args[i].sort \in {"engine", "script", "help", "option"} /\ args[i].value \in STRING

VARIABLES
  argv,            \* arguments not looked at yet
  engine, script,  \* locals of main
  typed,           \* the lines that std::getline has read; history: how long stdout was then
  phase,           \* what runs next
  work,            \* what the last stage of run_source handed to the next
  stdout, stderr,
  code             \* exit code, once phase is "exit"

vars == <<argv, engine, script, typed, phase, work, stdout, stderr, code>>

Init ==
  /\ argv \in CommandLines /\ typed = <<>>
  /\ engine = "tree" /\ script = "" /\ phase = "main" /\ work = <<>>
  /\ stdout = <<>> /\ stderr = <<>> /\ code = 0

Write(text) == stdout' = Append(stdout, <<"text", text>>)
report(errors) == stderr' = stderr \o [n \in 1 .. Len(errors) |-> <<"error", errors[n]>>]
Printed(out) == [n \in 1 .. Len(out) |-> <<"out", out[n]>>]
Exit(c) == phase' = "exit" /\ code' = c

-----------------------------------------------------------------------------
(***************************************************************************)
(* main: the arguments in order; the last engine and the last script win.  *)
(***************************************************************************)
Engines == {"tree", "bytecode"}
Arg(sort) == phase = "main" /\ argv # <<>> /\ Head(argv).sort = sort /\ argv' = Tail(argv)

TakeEngine ==
  /\ Arg("engine") /\ Head(argv).value \in Engines
  /\ engine' = Head(argv).value
  /\ UNCHANGED <<script, typed, phase, work, stdout, stderr, code>>

TakeScript ==
  /\ Arg("script") /\ script' = Head(argv).value
  /\ UNCHANGED <<engine, typed, phase, work, stdout, stderr, code>>

Help ==
  /\ Arg("help") /\ stderr' = Append(stderr, <<"text", "usage">>) /\ Exit(0)
  /\ UNCHANGED <<engine, script, typed, work, stdout>>

BadEngine ==
  /\ Arg("engine") /\ Head(argv).value \notin Engines
  /\ report(<<"unknown engine">>) /\ Exit(64)
  /\ UNCHANGED <<engine, script, typed, work, stdout>>

BadOption ==
  /\ Arg("option")
  /\ stderr' = stderr \o << <<"error", "unknown option">>, <<"text", "usage">> >> /\ Exit(64)
  /\ UNCHANGED <<engine, script, typed, work, stdout>>

StartRepl ==
  /\ phase = "main" /\ argv = <<>> /\ script = ""
  /\ Write("banner") /\ phase' = "prompt"
  /\ UNCHANGED <<argv, engine, script, typed, work, stderr, code>>

\* run_file
OpenFile ==
  /\ phase = "main" /\ argv = <<>> /\ script # ""
  /\ IF script \in DOMAIN Files
     THEN phase' = "lex" /\ work' = Files[script] /\ UNCHANGED <<stderr, code>>
     ELSE report(<<"cannot open file">>) /\ Exit(66) /\ UNCHANGED work
  /\ UNCHANGED <<argv, engine, script, typed, stdout>>

-----------------------------------------------------------------------------
(***************************************************************************)
(* run_repl: every line is a program of its own.                           *)
(***************************************************************************)
Answer(line) ==
  IF line = "" THEN UNCHANGED <<phase, work>> ELSE phase' = "lex" /\ work' = line

ReadLine(line) ==
  /\ phase = "prompt" /\ Len(typed) < MaxLines
  /\ Write("> ") /\ typed' = Append(typed, [line |-> line, at |-> Len(stdout')])
  /\ Answer(line)
  /\ UNCHANGED <<argv, engine, script, stderr, code>>

EndOfInput ==
  /\ phase = "prompt"
  /\ stdout' = stdout \o << <<"text", "> ">>, <<"text", "newline">> >> /\ Exit(0)
  /\ UNCHANGED <<argv, engine, script, typed, work, stderr>>

-----------------------------------------------------------------------------
(***************************************************************************)
(* run_source.                                                             *)
(***************************************************************************)
Repl == script = ""

\* Mutant: run_file forgets what run_source returned.
Returned_forgotten(c) ==
  /\ work' = <<>>
  /\ IF Repl THEN phase' = "prompt" /\ UNCHANGED code ELSE Exit(0)

\* run_source has returned c: the exit code of a file, dropped by the REPL.
Returned(c) ==
  /\ work' = <<>>
  /\ IF Repl THEN phase' = "prompt" /\ UNCHANGED code ELSE Exit(c)

\* A stage has made a result and a list of errors: the next stage takes the result,
\* unless there are errors to report.
Staged(errors, result, next) ==
  IF errors # <<>> THEN report(errors) /\ Returned(65)
  ELSE phase' = next /\ work' = result /\ UNCHANGED <<stderr, code>>

StageUnchanged == UNCHANGED <<argv, engine, script, typed, stdout>>

Lexed(l) == Staged(l.errors, l.tokens, "parse")
Lex == phase = "lex" /\ Lexed(lexer_scan(work)) /\ StageUnchanged

Parsed(r) == Staged(r.errors, r.statements, IF engine = "bytecode" THEN "compile" ELSE "run")

\* Mutant: declarations are run as soon as they are parsed.
Parse_eager ==
  /\ phase = "parse" /\ Parsed(parser_parse(work))
  /\ stdout' = stdout \o IF parser_parse(work).errors = <<>> THEN <<>> ELSE
       Printed(engine_run(parser_parse(work).statements).out)
  /\ UNCHANGED <<argv, engine, script, typed>>

Parse == phase = "parse" /\ Parsed(parser_parse(work)) /\ StageUnchanged

Compiled(c) == Staged(c.errors, work, "run")
Compile == phase = "compile" /\ Compiled(compiler_compile(work)) /\ StageUnchanged

\* Mutant: the result is looked at before the output is written.
Ran_checked_first(r) ==
  IF r.signal = "return"
  THEN report(<<"terminate">>) /\ Exit(134) /\ work' = <<>> /\ UNCHANGED stdout
  ELSE IF r.signal = "error" THEN report(<<r.message>>) /\ Returned(70) /\ UNCHANGED stdout
  ELSE /\ stdout' = stdout \o Printed(r.out)
       /\ UNCHANGED stderr /\ Returned(0)

\* The engine's buffered output is written when it has returned, error or not.  A
\* ReturnSignal that no function call catches leaves interpret, run_source and main:
\* the process is terminated (SIGABRT, which a shell shows as 134) and the buffered
\* output lost.
Ran(r) ==
  IF r.signal = "return"
  THEN report(<<"terminate">>) /\ Exit(134) /\ work' = <<>> /\ UNCHANGED stdout
  ELSE /\ stdout' = stdout \o Printed(r.out)
       /\ IF r.signal = "error" THEN report(<<r.message>>) /\ Returned(70)
          ELSE UNCHANGED stderr /\ Returned(0)
Run == phase = "run" /\ Ran(engine_run(work)) /\ UNCHANGED <<argv, engine, script, typed>>

-----------------------------------------------------------------------------
Next ==
  \/ TakeEngine \/ TakeScript \/ Help \/ BadEngine \/ BadOption \/ StartRepl \/ OpenFile
  \/ (\E line \in Lines : ReadLine(line)) \/ EndOfInput \/ Lex \/ Parse \/ Compile \/ Run

Spec == Init /\ [][Next]_vars

-----------------------------------------------------------------------------
Exited == phase = "exit"
Aborted == Exited /\ code = 134
Diagnosed == \E i \in DOMAIN stderr : stderr[i][1] = "error"

\* What was not understood is not run: a program with a lexical, syntax or compile
\* error anywhere (65), like bad arguments (64) and a file that cannot be read (66),
\* has a diagnostic and no output at all ("Lex and parse errors abort before
\* evaluation with exit code 65", docs/evaluator.md:57), however good the statements
\* before the mistake are.
RejectedRunsNothing ==
  Exited /\ code \in {64, 65, 66} =>
    Diagnosed /\ \A i \in DOMAIN stdout : stdout[i][1] # "out"

\* A script's exit code is 0 exactly when there is nothing on stderr to explain it.
ExitCodeTellsFailure == Exited /\ script # "" => (code = 0 <=> ~Diagnosed)

\* What a text prints when it is the whole program: nothing if a stage rejects it.
Alone(text) ==
  LET tree(r) == IF r.errors # <<>> \/ (engine = "bytecode" /\ compiler_compile(r.statements).errors # <<>>)
                 THEN <<>> ELSE engine_run(r.statements).out
      lexed(l) == IF l.errors # <<>> THEN <<>> ELSE tree(parser_parse(l.tokens))
  IN  IF text = "" THEN <<>> ELSE lexed(lexer_scan(text))

\* What stands on stdout between the n-th prompt and the next, or the end.
Shown(n) ==
  SubSeq(stdout, typed[n].at + 1,
         IF n < Len(typed) THEN typed[n + 1].at - 1
         ELSE IF Exited THEN Len(stdout) - 2 ELSE Len(stdout))

\* A session is the sum of its lines: after each prompt it has shown exactly what the
\* line typed there prints as a program alone.  A line that fails takes neither its own
\* output nor the lines after it along, only a ReturnSignal ends a session before its
\* input does, and then nothing but the output of that line is lost.
SessionIsSumOfLines ==
  Repl => /\ \A n \in DOMAIN typed :
               n < Len(typed) \/ phase = "prompt" \/ (Exited /\ ~Aborted) =>
                 Shown(n) = Printed(Alone(typed[n].line))
          /\ Exited /\ typed # <<>> /\ ~Aborted => stdout[Len(stdout)] = <<"text", "newline">>

\* driver.h:9-11, of run_source: "Returns a process exit code: 0 ok, 65 compile error,
\* 70 runtime error"; with main's 64 and 66 that is every way to end.
ExitCodesDocumented == Exited => code \in {0, 64, 65, 66, 70}
=============================================================================
