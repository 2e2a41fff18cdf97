# A TLA+ verification of the lumen language

lumen is a small dynamically typed language with closures, classes and single
inheritance. The repository holds one front end and two engines: a tree-walking
interpreter and a bytecode compiler with a stack virtual machine and a garbage
collector of its own. This directory models the program from the characters of
a source to its exit code, model-checks every part with TLC and proves the
collector, the virtual machine and the driver correct with TLAPS.

## Inventory

| Component | State | Operations | Interacts with |
|---|---|---|---|
| Lexer (`lexer/`) | source position, tokens, errors | `scan_tokens` and one scanner per token class | driver, parser |
| Parser (`parser/`) | token cursor, errors | recursive descent, `synchronize` after an error | gives the tree to both engines |
| Compiler (`bytecode/compiler.*`) | chain of function states (locals, upvalues, scope depth, chunk), class nest, errors | `compile_stmt`, `compile_expr`, scope, variable, jump and constant helpers | gives chunks to the VM |
| Virtual machine (`bytecode/vm.*`) | value stack, frames, globals, open upvalues, output | one case of `execute` per opcode, calls, upvalues, natives | allocates from the collector, is its root set, calls it at safe points and from `gc()` |
| Garbage collector (`bytecode/gc.*`) | intrusive object list, mark bits, gray worklist, counters | `allocate`, `collect` (mark, trace, sweep), destructor | reads the VM's state as roots |
| Tree walker (`eval/`) | environments, functions, classes, instances, output | `execute`, `evaluate`, calls, lookup | none; memory by `shared_ptr` |
| Driver (`repl/`, `main.cpp`) | arguments, stage, output; nothing between programs | `main`, `run_source`, `run_file`, `run_repl` | everything |

What is hard. There are no threads, so the interleavings that matter are those
of the program and the collector: a collection can come between any two
instructions and, through `gc()`, inside a call. Raw pointers are everywhere:
from open upvalues into the value stack, from frames to closures, along the
collector's list. The compiler computes the height of the VM's stack without
ever seeing it, in 8-bit and 16-bit operands. And the language is implemented
twice, with different scoping, inheritance and error paths. In the front end
the hard part is what happens after a mistake: the lexer and the parser go on,
report more errors and hand over partial results that must never run.

What makes each part correct:

- collector: it frees nothing the program can still reach and everything it
  cannot; list, marks and counters survive any sequence of collections; a
  collection ends;
- VM: every pointer leads to a live object of the right type; open upvalues are
  exactly those into slots in use; frames nest; a normal exit leaves nothing;
- compiler: operands name things that exist, the stack has one height at every
  instruction, the limits are noticed exactly when they matter;
- engines: a program prints the same and exits alike under both;
- lexer: the longest lexeme at every place, errors exactly where no lexeme is,
  the right line at every token, layout that only separates;
- parser: exactly the documented grammar, the tree the text means, and a
  recovery that makes progress and neither loses nor repeats what follows;
- driver: what is rejected does not run, the exit code tells failure, one REPL
  line does not affect another.

`PROJECT.json` lists the hazards one by one, with the properties aimed at them.

## Modules

| Module | Models | State and actions |
|---|---|---|
| `ObjectGraph` | objects and reachability | `Reach` is the least closed set, stated without recursion |
| `Heap` | abstract heap | `live`, `refs`, `roots`; `Mutate`, `Collect` (atomic, exact), `Destroy` |
| `GarbageCollector` | `gc.h`, `gc.cpp` | one action per loop iteration of marking, tracing, sweeping and the destructor; the mutator allocates, loads, stores, roots and unroots in any order inside an instruction |
| `Ast` | `parser/ast.h`, scalar values | constructors |
| `Chunk` | `opcode.h`, operand layout | instruction widths, stack needs and effects, jump targets; stack maps and what makes code verified |
| `Compiler` | `compiler.cpp` | operators from state to state, one per method |
| `Compilation` | the compiler on growing programs | append a statement, wrap in a block, wrap in a function |
| `VM` | `vm.cpp`, `vm_value.*` and the typed half of `gc.cpp` | one action per opcode, and the safe point's `Collect` |
| `Interpreter` | `eval/*.cpp` | operators on environments and objects; exceptions are a signal in the state |
| `Engines` | `run_source` after parsing | composes `Compiler`, `VM` and `Interpreter` on the same program |
| `Lexer` | `lexer.*` | operators on the lexer's state, one per method; characters are one-character strings |
| `Lexing` | the loop of `scan_tokens` | `lexer`; `Scan` takes one lexeme, `Finish` adds the end |
| `Parser` | `parser.*` | operators on the parser's state (cursor, errors, node returned, abort), one per method; the six binary levels are one operator with a table |
| `Grammar` | `docs/grammar.md` | reference: which sequences of token kinds are a program, by splitting and not by descent, and the text of a tree |
| `Parsing` | the loop of `parse` | `parser`, `statements`; `Declare` for a declaration that parses, `Recover` for one that does not |
| `Driver` | `main.cpp`, `driver.cpp` | arguments, phase, work handed between stages, streams; one action per argument kind, stage and REPL event; lexer, parser, compiler and engine are parameters |
| `Lists` | (helper) | sequences of anything |
| `Programs` | (inputs) | the program library |
| `MC*` | (instances) | constants for TLC |
| `ObjectGraphProofs`, `HeapProofs`, `GarbageCollectorProofs` | | theorems on the collector |
| `VMStateProofs`, `VMProofs` | | the machine's inductive invariant, and one lemma per instruction |
| `VMHeapProofs` | | the machine's steps as steps of the abstract heap, again one lemma per instruction |
| `DriverProofs`, `ListProofs` | | theorems on the driver, lemmas on lists |

Correspondence. In `GarbageCollector`, `held` stands for the C++ locals of the
running instruction, and `roots` for `stack_`, `frames_`, `open_upvalues_` and
`globals_` together. Objects are numbered in allocation order; the list
therefore runs through decreasing numbers, which turns its correctness into
statements about neighbours (`Follows`) that need no recursion. The gray
worklist is a set, so the model covers every order of tracing. In `VM` a
collection is one step, but marks by object type and from the roots the code
lists; the two views meet in `HeapDiscipline`, which says of every machine step
that it is a step the abstract heap allows, and in the theorem `MachineUsesHeap`,
which states it with `Heap` itself. Code is a sequence of cells as the
compiler writes them, and `ip` moves over cells.

Abstractions. Numbers are integers and NaN; strings are sequences of atoms;
error messages keep their kind; line numbers are dropped after the parser, whose
errors name the offending token instead. A function constant is
an index into the program's functions. A number literal is its decimal value;
`std::stod` fails outside a range given by constants. A `ParseAbort` is a flag
in the parser's state that every later step of the descent respects. `Driver`
takes the stages as parameters; `MCDriver` gives it the modules `Lexer`,
`Parser`, `Compiler` and `Interpreter`. There the tree is walked in one step,
and `vm.run` is represented by the outcome that `Engines` shows it to share with
the tree walker; its programs are among those on which the engines agree. The
open upvalues of `VM` are a set, since no two are at one slot, and the upvalues
that one `Closure` opens are named after the slots they open, so a `Closure`
takes a block of names at once.

Verified code. `StackMap` computes by abstract interpretation, for every
instruction of a function that can be reached, the height of the stack above
the frame's base and the slots that may be captured there. `VerifiedScript`
says of a script that its maps are right: each instruction finds what it takes
above its callee, none of that captured unless it closes it, its operands name
what exists, and all its successors agree with it. `StackBalanced` of the
`compiler` run states it of what the compiler emits; `VM` assumes it of the
scripts it runs (`CodeVerified`), and TLC evaluates the assumption on every
script of the runs `vm` and `stack_reallocation`.

## Runs

| Run | Question | Bounds |
|---|---|---|
| `garbage_collector` | safety, bookkeeping, exactness, termination and refinement of the collector | 3 objects, threshold 1, 2 allocations per instruction, 2 collections; all shapes of the object graph |
| `vm` | pointer, upvalue, frame and heap discipline of the VM | 52 programs, each with thresholds 1, 2, 3, 5, 100; 8 frames |
| `engines` | both engines agree | the library of terminating programs, 216 programs with closures and 36 with classes made from templates; thresholds 1, 4 |
| `compiler` | operands and stack heights with real operand sizes; limits of the encoding with operands 0..4 and jumps below 25 | 2 statements, 2 wraps |
| `lexer` | longest match, rejection, lines, layout | all texts of 4 to 7 characters (2 keywords) over alphabets chosen to meet: words and keywords, numbers and points, strings and comments over lines, operators |
| `parser` | grammar, tree, recovery | all sequences of 3 to 6 words over eight vocabularies of tokens and phrases, with every shape of `for` and of a class header, and any two tokens; 2 arguments or parameters instead of 255 |
| `driver` | stages, exit codes, sessions | command lines of up to 2 of 19 arguments, a file for each way to fail and each kind of program, sessions of up to 3 of 9 lines under either engine |
| `stack_reallocation`, `late_declaration`, `independent_errors`, `exit_codes`, `super_call` | what comments and docs say, refuted | see Findings |

Why the bounds are enough. Three objects make every shape that matters to
the list (head, middle and tail freed or kept in each combination) and cycles of
length one to three; two collections are needed for a mark left over from the
first to do harm, and two allocations per instruction for a second object to be
made while the first is held only by a local. The proofs remove these bounds.
The VM's programs fire every opcode and each of its error paths; the thresholds
move collections over all instructions (1 collects after every allocation) and
out of the way (100). The frame limit of 8 is met through every way to enter a
frame: a function, a method, an initializer, a bound method, `super`, and fields
that hold each of these. The stack bound of 64 is never met in this run; what
happens beyond it is the run `stack_reallocation`. The
compiler's limits cannot be met with 256 values in a small program, so operand
cells get 5 values and the same code is compared with the unlimited one;
whatever is below a limit is the same with either size.

The lexer looks two characters ahead at most and has no state but the line, so a
few characters on either side of a decision are all its cases; the range of
numbers is shrunk to 999 and 1/100 so that overflow and underflow happen. The
parser decides on one token, each vocabulary has what one part of the grammar
tells apart, and the lengths suffice for two errors with something good before,
between and after. Its limit of 255 is a constant, 2 in the run. The reference
grammar tests every way to split a sequence, which is why the sequences are
short. Three REPL lines put one that fails between two others.

Deadlock is not checked where the system stops: the collector's destructor, the
end of a program, the bound on program size.

Fairness. The code is sequential. Once `collect` or the destructor is entered,
nothing but its own next step can happen, hence weak fairness of those steps;
`execute` is a loop that takes an instruction while it is running, hence weak
fairness of `Next` in `VM`. The loops of `scan_tokens` and `parse` end because
every round moves a cursor that cannot pass the end, which `LongestMatch` and
`RoundsAdvance` state without fairness. The mutator is not assumed to do anything.

Each property of a passing run has a mutant, an operator `x_what` just before
the definition `x`, a plausible mistake in that code that the property catches.

## Findings

- `StackNeverReallocated`: "reserved once and never reallocated" is not enforced.
  `push` does not test the capacity, and 1024 frames with up to 256 locals each
  exceed 65536 slots; if an upvalue is open then, it points into the old buffer.
  The run scales 65536 slots and 1024 frames down to 16 and 8; in the source each
  of 1024 frames needs more than 64 slots, and a function may have 256 locals.
- `late_declaration`: the tree walker looks names up when they are used, so a
  declaration that comes after a closure changes what the closure reads; the
  compiler's resolution is lexical.
- `independent_errors`: after an error `synchronize` first drops a token, so a
  keyword at which the error was noticed does not count as a boundary and the
  statement it leads is skipped: `print print ;` has one error, not two.
- `exit_codes`: a top-level `return` under the tree engine throws a
  `ReturnSignal` that nothing catches. The process is terminated (134 in a shell)
  and what the program printed is lost; the bytecode engine rejects it with 65.
- `super_call`: `super.m()` outside a class is compiled to lookups of globals named
  `this` and `super`, where `super.m` is rejected.

Met while modelling, without a run of its own: the comment on `allocate` (`gc.h`)
says that it "may trigger a collection first", which it never does; collections
start between instructions only, which is what the other properties need.

Other differences between the engines, met while modelling and kept out of the
compared programs: what `gc()` returns (0, or the number of live objects);
`class A < A` (inherits itself in the VM, undefined variable
in the tree walker); the order of the receiver check and the evaluation of the
right-hand side or arguments in `x.f = e` and `x.m(e)`; `>=` and `<=` on NaN;
redeclared locals, `this` and `super` out of place (compile errors; accepted, or run-time
errors, in the tree walker);
recursion depth (limited in the VM only); wording of the error for a method call
on something that is no instance, which is why stdout and exit code are compared
and not messages.

Inside a block or a function an error abandons the whole top-level declaration,
and recovery stops in the middle of it, so a brace left over is reported as a
second error; `SemicolonsSeparate` is therefore about boundaries outside braces.

## Proofs

`GarbageCollectorProofs` proves for every `MaxObjects`, `Threshold`,
`MaxPerInstr` and `MaxCollections` in Nat (the only assumptions):

- `InductiveInvariant`: `Spec => []Inductive`;
- `CollectorIsSafe`: no dangling pointer within reach, mid-instruction and
  mid-sweep too;
- `CollectorTypeOK`, `CollectorTriColor`, `CollectorResetsMarks`,
  `CollectorListIsExact`, `CollectorCounters`, `CollectorBounded`,
  `CollectorLeaksNothing`: types, tri-color invariant, marks, list, counters,
  bounded allocation, destructor, each from `Inductive`;
- `CollectorIsExact`: when a collection returns, live is reachable;
- `CollectorImplementsHeap`: refinement of `Heap`.

`HeapProofs!HeapIsSafe` proves the abstract heap's promise; `ObjectGraphProofs`
has the lemmas on `Reach` (it contains its start, is closed, is least, is
monotone, and is the same in graphs that agree on it).

The argument. `NoDanglingPointer` alone is not inductive: mid-sweep it depends on
which objects are still to be freed. `Inductive` adds that before a sweep no
pointer leaves the live objects (`HeapClosed`), that nothing is held during a
collection (`NothingHeld`, the safe-point discipline), that marks are clear
outside collections, the tri-color invariant while tracing, and for the sweep
that the `Survivors` (marked, or already passed by the cursor) contain the roots,
are closed and are reachable, with the cursor right behind the last object kept
(`Sweeping`). When the worklist is empty, closed and reachable together make the
marked objects exactly `Reach(roots, refs)`, which gives exactness. The list is
handled by neighbours: unlinking changes one successor, and objects between two
neighbours do not exist. The refinement maps an abstract collection to the step
that starts the sweep, from where on only survivors count as live.

`VMProofs` proves of every script that is verified (assumption `CodeVerified`),
every threshold, frame limit and stack bound, and runs of any length
(`VmAssumption`: the numbers are naturals and the frame limit is not 0):

- `VMIInv`: `Spec => []IInv`, the inductive invariant of `VMStateProofs`;
- `TypeCorrect`: types, and the frame limit of `call`;
- `NoPointerDangles`: `PointersValid`, whatever has been collected and when,
  `gc()` in the middle of a call included;
- `UpvaluesExact`: `OpenUpvaluesExact`;
- `CallsNest`: `FramesNested`;
- `ExitIsClean`: `CleanExit`.

The argument. None of these is inductive alone: that a pop leaves no upvalue
pointing above the stack depends on the compiler's code having closed it, that
a `Return` finds its result on how high the stack is, and that depends on every
frame below. `IInv` ties the state to the stack maps: each frame, suspended or
not, is at an instruction its map knows (`FrameOK`), its part of the stack is as
high as the map says (up to the callee of the frame above, `Ceiling`), every
upvalue open in it is on a slot the map calls captured, and a suspended frame
has just made the call that its successor answers (`Calls`). With it go the
pointers: every value in stack, globals and objects leads to an object of the
type its tag claims (`ValueOK`, `ObjectOK`), a closure has as many upvalues as
its function says, and the open upvalues are exactly those not closed, on
different slots. A step then falls under one of four lemmas on frames: the top
frame moves on (`Advance`), a frame is entered (`Enter`) or left (`Leave`), or
only part of the heap survives (`PartRunning`). Each instruction has its own
lemma that computes what it leaves behind. For a collection the traced set must
be closed: the rounds of `trace_references` grow within the finite heap, and a
round that adds nothing comes before as many rounds as there are objects, which
is shown by induction on a set of round numbers (`SetInduction`) and not on a
formula (`ChainExists`, `TraceIsClosed`).

`VMHeapProofs` proves under the same assumptions:

- `HeapIsDisciplined`: `HeapDiscipline`. An instruction stores and keeps only
  pointers to objects that were reachable or that it has just allocated, and
  leaves every other object as it was; a collection, at the safe point of `run`
  or by `gc()` in the middle of a call, frees exactly what cannot be reached
  from the roots it leaves;
- `MachineUsesHeap`: for every `MaxObjects`, a run that allocates no more than
  that many objects takes only steps of `Heap` (or steps that do not touch it),
  with `live`, `refs` and `roots` read off the machine's heap, stack, frames,
  globals and open upvalues. The bound is there because `Heap` has finitely many
  names. Only the steps are claimed: `Heap` starts empty, and the machine's first
  state is already past the allocation of the script's closure in `VM::run`.

The argument. Reachability is a fixed point and an instruction changes both the
roots and the graph, so comparing what is reachable before and after would take
an induction for every instruction. Instead the proof uses that `IInv` does not
ask the heap for more than to be closed: what a collection at this moment would
leave, `swept(stack)`, is itself a heap in which everything the machine holds is
good. Each instruction is then shown to hold only values that are good in these
objects and its new ones (`Holds`, `Leaves`), and to change only objects among
them (`Keeping`). That `swept` is what is reachable follows from two exactness
lemmas, that `blacken` follows exactly the pointers of an object of each type and
that `mark_value_roots` starts from exactly the values the machine can read, so
that `trace_references` computes `ReachFrom`, which is the least closed set above
the roots (`ChainIsLeast`, `ReachFromIsLeast`). The one collection that does not
start from the state it leaves is that of `gc()`, whose callee is still on the
stack: a native, which points at nothing. For the refinement, the abstract
`Reach` and `ReachFrom` are both least, hence equal (`AbstractReach`).

Together with `CollectorImplementsHeap` this closes the circle between the two
models of the collector: the incremental one, on an arbitrary object graph,
implements `Heap`, and `Heap`'s program is one the machine's instructions obey.

`DriverProofs` proves for all command lines, files, lines and session lengths,
and for every lexer, parser, compiler and engine (`StagesAssumption`: they
return lists; `CommandLinesAssumption`: arguments are of the four sorts):

- `RejectedNeverRuns`: exit codes 64, 65 and 66 come with a diagnostic and
  without output;
- `ExitCodeIsTruthful`: a script exits with 0 exactly if nothing was reported;
- `SessionsAreSums`: behind each prompt stands what the line prints as a program
  of its own, failing lines included.

Its invariant says what each stage was handed (`Handover`: the result of all the
stages before it on the current text, each without errors) and where in stdout
every line of the session was read (`Session`), so that the output behind a line
stays in place while later lines append to it.

Only model-checked: termination (liveness under fairness is outside the
prover); what the lexer, the parser, the compiler and the tree walker compute,
and with it `EnginesAgree` and `StackBalanced`, since they are recursive over
their input and induction over data is outside the prover too;
`OperandsHaveVariant`, which needs the types of stack slots and not only their
number in the stack maps.

## Not modelled

The benchmark harness and the fuzz target, which are not part of the program;
`token_kind_name` and the wording of messages; the formatting of doubles that are
not integers; the exhaustion of memory, and of the C++ stack by deep nesting in
the parser, the compiler or the tree walker.

## Plan

1. Done: collector with its abstract specification and proofs; compiler, VM,
   tree walker and their composition, model-checked.
2. Done: lexer, parser against a declarative grammar, driver and command line
   from characters to exit code.
3. Done: proofs of the VM's invariants on verified code, and of the driver's
   with the stages as parameters.
4. Done: `HeapDiscipline` as a theorem, and the VM's steps as steps of the
   abstract heap that the collector is proved to implement.
5. Left: the kinds of stack slots in the stack maps, for a proof of
   `OperandsHaveVariant`.
6. Left: more generated programs, and the known differences as a precise
   precondition of `EnginesAgree`.
