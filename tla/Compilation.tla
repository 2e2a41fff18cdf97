---------------------------- MODULE Compilation ----------------------------
(***************************************************************************)
(* The compiler run on programs that grow: a statement is appended, or     *)
(* what is there becomes the body of a block or of a function, and each    *)
(* program so built is compiled, twice: with the operands of the source,   *)
(* which never run out on programs of this size (Bytes), and with ByteMax  *)
(* small enough for the limits of the encoding to be met.                  *)
(***************************************************************************)
EXTENDS Compiler, Chunk

CONSTANTS
  Statements,      \* the statements a program is built from
  MaxStatements,   \* bound: how many are appended
  MaxWraps         \* bound: how often the program is wrapped

VARIABLES
  program,         \* the statements parsed so far
  appended, wraps, \* counters for the bounds
  result,          \* what compile made of program ...
  limited          \* ... and what it made of it within ByteMax

vars == <<program, appended, wraps, result, limited>>

Bytes == INSTANCE Compiler WITH ByteMax <- 255

Init ==
  /\ program = <<>> /\ appended = 0 /\ wraps = 0
  /\ result = Bytes!compile(<<>>) /\ limited = compile(<<>>)

Extend ==
  /\ appended < MaxStatements
  /\ \E s \in Statements : program' = Append(program, s)
  /\ appended' = appended + 1 /\ UNCHANGED wraps

\* { program }
WrapInBlock ==
  /\ wraps < MaxWraps /\ program # <<>>
  /\ program' = << Block(program) >>
  /\ wraps' = wraps + 1 /\ UNCHANGED appended

\* fun w(p) { program }
WrapInFunction ==
  /\ wraps < MaxWraps /\ program # <<>>
  /\ program' = << Fun("w", << "p" >>, program) >>
  /\ wraps' = wraps + 1 /\ UNCHANGED appended

\* Each program so built is compiled.
Next ==
  /\ Extend \/ WrapInBlock \/ WrapInFunction
  /\ result' = Bytes!compile(program') /\ limited' = compile(program')

Spec == Init /\ [][Next]_vars

-----------------------------------------------------------------------------
(***************************************************************************)
(* Properties.                                                             *)
(***************************************************************************)
Compiled == result.errors = <<>>
Starts(f) == Decoded(result.functions, result.functions[f]).starts

\* Every operand of the code names something that exists, whether or not the
\* instruction is ever reached: a constant of the kind it reads, an upvalue the
\* closure has, an upvalue of the enclosing function where one is passed on.
OperandsInRange ==
  Compiled => \A f \in DOMAIN result.functions : \A ip \in Starts(f) :
    OperandsExist(result.functions, result.functions[f], ip)

\* Whatever path leads to an instruction, the stack is at the same height
\* there; it holds what the instruction pops and the slots it names, never
\* reaching below the frame and never dropping a slot that an upvalue may still
\* point at; jumps land on instructions; no path runs off the end of the code;
\* and the script returns with nothing but its own closure under the result
\* (scope exits, patched jumps and statement pops agree).
StackBalanced ==
  Compiled =>
    /\ VerifiedScript(result.functions, Bytes!ByteValues)
    /\ \A f \in DOMAIN result.functions :
         Decoded(result.functions, result.functions[f]).next = Len(result.functions[f].code)

\* The instructions of a function with their operands put together, so that
\* code for cells of different sizes can be compared.
Meaning(fns, fn, base) ==
  [ip \in Decoded(fns, fn).starts |->
     LET op == OpAt(fn, ip)
     IN  IF op \in JumpOps THEN << op, <<JumpTarget(fn, ip, base)>> >>
         ELSE << op, SubSeq(fn.code, ip + 2, ip + Width(fns, fn, ip)) >>]

\* Every operand is a number that its cell can hold.
FitsCells(fns, fn) ==
  \A ip \in Decoded(fns, fn).starts : \A n \in 1 .. Width(fns, fn, ip) - 1 :
    OperandAt(fn, ip, n) \in 0 .. ByteMax

\* Something in these functions needs more room than the encoding has.
TooLarge(fns) ==
  \E i \in DOMAIN fns :
    \/ Len(fns[i].constants) > ByteValues
    \/ fns[i].upvalue_count > ByteValues
    \/ LET map == StackMap(fns, fns[i], Bytes!ByteValues)
       IN  \E ip \in DOMAIN map : map[ip].height > ByteValues
    \/ \E ip \in Decoded(fns, fns[i]).starts :
         OpAt(fns[i], ip) \in JumpOps /\ JumpOffset(fns[i], ip, Bytes!ByteValues) > MaxShort

\* The 8-bit and 16-bit limits are noticed exactly when they matter: a program
\* accepted under them compiles to the very code it has without limits (no
\* index or offset is cut off silently), and one that is rejected only because
\* of them really has too many constants, locals or upvalues or too long a jump.
LimitsExact ==
  LET fns == result.functions
      own == limited.functions
  IN  Compiled =>
        IF limited.errors = <<>>
        THEN /\ DOMAIN fns = DOMAIN own
             /\ \A i \in DOMAIN fns :
                  /\ FitsCells(own, own[i])
                  /\ Meaning(own, own[i], ByteValues) = Meaning(fns, fns[i], Bytes!ByteValues)
                  /\ own[i].constants = fns[i].constants
                  /\ own[i].upvalue_count = fns[i].upvalue_count
        ELSE TooLarge(fns)

\* docs/bytecode-vm.md: "`super.m()` is compiled to load `this` and the captured
\* superclass", so neither is ever looked up among the globals; the compiler rejects
\* a 'super' that has no enclosing class or a class with no superclass.
SuperIsCaptured ==
  Compiled => \A f \in DOMAIN result.functions : \A ip \in Starts(f) :
    LET fn == result.functions[f]
    IN  OpAt(fn, ip) = "GetGlobal" =>
          fn.constants[OperandAt(fn, ip, 1) + 1] \notin {NameConst("this"), NameConst("super")}
=============================================================================
