------------------------------ MODULE Engines ------------------------------
(***************************************************************************)
(* The two engines side by side, as run_source (repl/driver.cpp) drives    *)
(* them: the same parsed program goes through the compiler and the virtual *)
(* machine, one instruction at a time and with collections wherever the    *)
(* threshold puts them, and through the tree-walking interpreter.          *)
(***************************************************************************)
EXTENDS VM

CONSTANT Sources        \* the programs, by the same names as in Scripts

C == INSTANCE Compiler WITH ByteMax <- ByteSize - 1
T == INSTANCE Interpreter WITH ClockReading <- CHOOSE t \in ClockReadings : TRUE

\* What run_source(program, Engine::Tree) writes to stdout and returns; a ReturnSignal
\* that leaves interpret terminates the process (134) before the output is written.
exit_tree(r) ==
  IF r.signal = "return" THEN [stdout |-> <<>>, code |-> 134]
  ELSE [stdout |-> r.out, code |-> IF r.signal = "error" THEN 70 ELSE 0]
run_tree(program) == exit_tree(T!interpret(program))

\* What run_source(program, Engine::Bytecode) has written and returns once
\* execute has returned; a program the compiler rejects is never run (65).
run_bytecode == [stdout |-> output, code |-> IF status = "Ok" THEN 0 ELSE 70]

\* Scripts holds the compiler's output for Sources, and it accepted them all.
ASSUME ScriptsAreCompiled ==
  \A p \in DOMAIN Sources : C!compile(Sources[p]) = [errors |-> <<>>, functions |-> Scripts[p]]

-----------------------------------------------------------------------------
\* A program prints the same lines and exits with the same code under either
\* engine, however often and wherever the virtual machine collects garbage
\* (docs/bytecode-vm.md; tests/e2e/corpus_test.cpp checks it on the corpus).
EnginesAgree == status # "running" => run_bytecode = run_tree(Sources[script])

\* README.md: "variables with lexical scoping".  Which declaration a use of a
\* name refers to is fixed by the text, as the compiler resolves it, so walking
\* the tree prints the same values.
ScopingIsLexical ==
  status # "running" => run_tree(Sources[script]).stdout = run_bytecode.stdout
=============================================================================
