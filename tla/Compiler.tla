------------------------------ MODULE Compiler -----------------------------
(***************************************************************************)
(* The single-pass bytecode compiler (bytecode/compiler.cpp) as operators  *)
(* on its state: a record with the chain of function states (current_ is   *)
(* the last one), the class nest, the functions finished so far and the    *)
(* errors recorded.  Code is a sequence of byte-sized cells; opcodes keep  *)
(* their names, operands are numbers below 2^8 in the source and below     *)
(* ByteMax + 1 here, so that the limits of the encoding can be reached.    *)
(* Line tables are left out.                                               *)
(***************************************************************************)
EXTENDS Ast, SequencesExt

CONSTANT ByteMax        \* largest operand: 255 in the source

ASSUME ByteMaxAssumption == ByteMax \in Nat /\ ByteMax > 0

ByteValues == ByteMax + 1
kUninitialized == -1

-----------------------------------------------------------------------------
(***************************************************************************)
(* State.                                                                  *)
(***************************************************************************)
NewLocal(name, depth) == [name |-> name, depth |-> depth, is_captured |-> FALSE]

FunctionState(name, kind, arity, slot0) ==
  [name |-> name, kind |-> kind, arity |-> arity, locals |-> <<NewLocal(slot0, 0)>>,
   upvalues |-> <<>>, scope_depth |-> 0, code |-> <<>>, constants |-> <<>>]

current(c) == c.functions[Len(c.functions)]

\* c with its current function state replaced.
With(c, f) == [c EXCEPT !.functions[Len(c.functions)] = f]

error(c, message) == [c EXCEPT !.errors = Append(@, message)]

\* What follows once the state (or resolution) c is there.  The choice is that of
\* the only value there is: it makes TLC evaluate c first.
Then(c, Rest(_)) == CHOOSE r \in {Rest(d) : d \in {c}} : TRUE

-----------------------------------------------------------------------------
(***************************************************************************)
(* Emission.                                                               *)
(***************************************************************************)
emit(c, byte) == With(c, [current(c) EXCEPT !.code = Append(@, byte)])
emit_two(c, op, operand) == emit(emit(c, op), operand)
code_size(c) == Len(current(c).code)

\* The operand make_constant returns for the next constant of the chunk ...
constant_index(c) ==
  LET index == Len(current(c).constants) IN IF index > ByteMax THEN 0 ELSE index

\* Mutant: one constant too many is let through.
make_constant_late(c, value) ==
  LET d == With(c, [current(c) EXCEPT !.constants = Append(@, value)])
  IN  IF Len(current(c).constants) > ByteMax + 1
      THEN error(d, "too many constants in one chunk") ELSE d

\* ... and the state it leaves.  Constants are not deduplicated.
make_constant(c, value) ==
  LET d == With(c, [current(c) EXCEPT !.constants = Append(@, value)])
  IN  IF Len(current(c).constants) > ByteMax
      THEN error(d, "too many constants in one chunk") ELSE d

\* emit_two(op, make_constant(value))
emit_with_constant(c, op, value) == emit_two(make_constant(c, value), op, constant_index(c))

\* A name in the constant pool.
NameConst(n) == <<"name", n>>

\* emit_jump; the jump to patch is then at code_size - 2.
emit_jump(c, op) == emit(emit(emit(c, op), ByteMax), ByteMax)
jump_at(c) == code_size(c) - 2

MaxShort == ByteValues * ByteValues - 1
HighByte(n) == (n \div ByteValues) % ByteValues
LowByte(n) == n % ByteValues

\* Mutant: the operand of the jump is counted as part of the jump.
patch_jump_past(c, offset) ==
  LET jump == code_size(c) - offset
      d == IF jump > MaxShort THEN error(c, "jump offset too large") ELSE c
  IN  With(d, [current(d) EXCEPT !.code[offset + 1] = HighByte(jump),
                                 !.code[offset + 2] = LowByte(jump)])

patch_jump(c, offset) ==
  LET jump == code_size(c) - offset - 2
      d == IF jump > MaxShort THEN error(c, "jump offset too large") ELSE c
  IN  With(d, [current(d) EXCEPT !.code[offset + 1] = HighByte(jump),
                                 !.code[offset + 2] = LowByte(jump)])

emit_loop(c, loop_start) ==
  LET d == emit(c, "Loop")
      offset == code_size(d) - loop_start + 2
      e == IF offset > MaxShort THEN error(d, "loop body too large") ELSE d
  IN  emit(emit(e, HighByte(offset)), LowByte(offset))

\* An initializer returns slot 0, 'this'.
emit_return(c) ==
  emit(IF current(c).kind = "Initializer" THEN emit_two(c, "GetLocal", 0) ELSE emit(c, "Nil"),
       "Return")

-----------------------------------------------------------------------------
(***************************************************************************)
(* Scopes and variables.                                                   *)
(***************************************************************************)
begin_scope(c) == With(c, [current(c) EXCEPT !.scope_depth = @ + 1])

\* The locals deeper than depth, which are the last ones.
ScopeLocals(locals, depth) == SelectSeq(locals, LAMBDA l : l.depth > depth)

\* Mutant: captured locals are popped like the others, not closed.
end_scope_unclosed(c) ==
  LET f == current(c)
      depth == f.scope_depth - 1
      gone == ScopeLocals(f.locals, depth)
  IN  With(c, [f EXCEPT !.scope_depth = depth,
                        !.locals = SubSeq(@, 1, Len(@) - Len(gone)),
                        !.code = @ \o [i \in 1 .. Len(gone) |-> "Pop"]])

end_scope(c) ==
  LET f == current(c)
      depth == f.scope_depth - 1
      gone == Reverse(ScopeLocals(f.locals, depth))
      pops == [i \in 1 .. Len(gone) |-> IF gone[i].is_captured THEN "CloseUpvalue" ELSE "Pop"]
  IN  With(c, [f EXCEPT !.scope_depth = depth,
                        !.locals = SubSeq(@, 1, Len(@) - Len(gone)),
                        !.code = @ \o pops])

add_local(c, name) ==
  IF Len(current(c).locals) >= ByteValues
  THEN error(c, "too many local variables in function")
  ELSE With(c, [current(c) EXCEPT !.locals = Append(@, NewLocal(name, kUninitialized))])

mark_initialized(c) ==
  LET f == current(c)
  IN  IF f.scope_depth = 0 THEN c
      ELSE With(c, [f EXCEPT !.locals[Len(f.locals)].depth = f.scope_depth])

\* Slot of the innermost local of that name in function state k, or -1.
local_slot(c, k, name) ==
  LET locals == c.functions[k].locals
      slots == {i \in 1 .. Len(locals) : locals[i].name = name}
  IN  IF slots = {} THEN -1 ELSE Max(slots) - 1

\* The error resolve_local records when it finds a local still uninitialized.
check_initialized(c, k, slot) ==
  IF c.functions[k].locals[slot + 1].depth = kUninitialized
  THEN error(c, "cannot read local variable in its own initializer") ELSE c

\* A state together with the operand that was resolved (-1: not found).
Resolved(c, arg) == [c |-> c, arg |-> arg]

\* Mutant: the index of a new upvalue is the count after it was added.
add_upvalue_counted(c, k, index, is_local) ==
  LET uv == [index |-> index % ByteValues, is_local |-> is_local]
  IN  Resolved([c EXCEPT !.functions[k].upvalues = Append(@, uv)], Len(c.functions[k].upvalues) + 1)

add_upvalue(c, k, index, is_local) ==
  LET ups == c.functions[k].upvalues
      uv == [index |-> index % ByteValues, is_local |-> is_local]
      known == {i \in 1 .. Len(ups) : ups[i] = uv}
  IN  IF known # {} THEN Resolved(c, Min(known) - 1)
      ELSE IF Len(ups) >= ByteValues
      THEN Resolved(error(c, "too many closure variables in function"), 0)
      ELSE Resolved([c EXCEPT !.functions[k].upvalues = Append(@, uv)], Len(ups))

\* Walks outward from function state k to the local that name captures.
RECURSIVE resolve_upvalue(_, _, _)
resolve_upvalue(c, k, name) ==
  LET slot == local_slot(c, k - 1, name)
      up == resolve_upvalue(c, k - 1, name)
  IN  IF k = 1 THEN Resolved(c, -1)
      ELSE IF slot # -1
      THEN add_upvalue([check_initialized(c, k - 1, slot)
                          EXCEPT !.functions[k - 1].locals[slot + 1].is_captured = TRUE],
                       k, slot, TRUE)
      ELSE IF up.arg # -1 THEN add_upvalue(up.c, k, up.arg, FALSE)
      ELSE Resolved(c, -1)

\* The variable's storage class, by which its opcodes are named, and operand.
captured_or_global(c, name, up) ==
  IF up.arg # -1 THEN [c |-> up.c, arg |-> up.arg, in |-> "Upvalue"]
  ELSE [c |-> make_constant(c, NameConst(name)), arg |-> constant_index(c), in |-> "Global"]

resolve(c, name) ==
  LET slot == local_slot(c, Len(c.functions), name)
  IN  IF slot # -1
      THEN [c |-> check_initialized(c, Len(c.functions), slot), arg |-> slot, in |-> "Local"]
      ELSE captured_or_global(c, name, resolve_upvalue(c, Len(c.functions), name))

GetOp == [Local |-> "GetLocal", Upvalue |-> "GetUpvalue", Global |-> "GetGlobal"]
SetOp == [Local |-> "SetLocal", Upvalue |-> "SetUpvalue", Global |-> "SetGlobal"]

\* named_variable when it reads; r is what the name resolved to.
read_resolved(r) == emit_two(r.c, GetOp[r.in], r.arg % ByteValues)
read_variable(c, name) == read_resolved(resolve(c, name))

\* Is name declared already in the innermost scope?
Redeclared(f, name) ==
  \E i \in 1 .. Len(f.locals) :
    /\ f.locals[i].name = name
    /\ \A j \in i .. Len(f.locals) :
         f.locals[j].depth = kUninitialized \/ f.locals[j].depth >= f.scope_depth

declare_variable(c, name) ==
  IF current(c).scope_depth = 0 THEN c
  ELSE add_local(IF Redeclared(current(c), name)
                 THEN error(c, "variable already declared in this scope") ELSE c, name)

\* parse_variable: the state it leaves, and the operand it returns.
parse_variable(c, name) ==
  IF current(c).scope_depth > 0 THEN declare_variable(c, name)
  ELSE make_constant(c, NameConst(name))
global_operand(c) == IF current(c).scope_depth > 0 THEN 0 ELSE constant_index(c)

define_variable(c, global) ==
  IF current(c).scope_depth > 0 THEN mark_initialized(c)
  ELSE emit_two(c, "DefineGlobal", global)

-----------------------------------------------------------------------------
(***************************************************************************)
(* Expressions.                                                            *)
(***************************************************************************)
BinaryOps ==
  [Plus |-> <<"Add">>, Minus |-> <<"Subtract">>, Star |-> <<"Multiply">>,
   Slash |-> <<"Divide">>, EqualEqual |-> <<"Equal">>, BangEqual |-> <<"Equal", "Not">>,
   Greater |-> <<"Greater">>, GreaterEqual |-> <<"Less", "Not">>,
   Less |-> <<"Less">>, LessEqual |-> <<"Greater", "Not">>]

LiteralCode(c, v) ==
  CASE v[1] \in {"num", "nan", "str"} -> emit_with_constant(c, "Constant", v)
    [] v[1] = "bool" -> emit(c, IF v[2] THEN "True" ELSE "False")
    [] v[1] = "nil"  -> emit(c, "Nil")

RECURSIVE compile_expr(_, _)
compile_expr(state, e) == Then(state, LAMBDA c :
  LET args(d) == FoldLeft(compile_expr, d, e.arguments)
      argc == Len(e.arguments) % ByteValues
  IN
  CASE e.k = "Literal"  -> LiteralCode(c, e.value)
    [] e.k = "Grouping" -> compile_expr(c, e.expr)
    [] e.k = "Unary"    ->
         emit(compile_expr(c, e.right), IF e.op = "Minus" THEN "Negate" ELSE "Not")
    [] e.k = "Binary"   ->
         FoldLeft(emit, compile_expr(compile_expr(c, e.left), e.right), BinaryOps[e.op])
    [] e.k = "Logical" /\ e.op = "And" ->
         Then(emit_jump(compile_expr(c, e.left), "JumpIfFalse"), LAMBDA d :
           patch_jump(compile_expr(emit(d, "Pop"), e.right), jump_at(d)))
    [] e.k = "Logical" /\ e.op = "Or"  ->
         Then(emit_jump(compile_expr(c, e.left), "JumpIfFalse"), LAMBDA d :
           Then(emit_jump(d, "Jump"), LAMBDA f :
             patch_jump(compile_expr(emit(patch_jump(f, jump_at(d)), "Pop"), e.right), jump_at(f))))
    [] e.k = "Variable" -> read_variable(c, e.name)
    [] e.k = "Assign"   ->
         Then(resolve(c, e.name), LAMBDA r :
           emit_two(compile_expr(r.c, e.value), SetOp[r.in], r.arg % ByteValues))
    [] e.k = "Call" /\ e.callee.k = "Get" ->
         emit(emit_with_constant(args(compile_expr(c, e.callee.object)), "Invoke",
                                 NameConst(e.callee.name)), argc)
    [] e.k = "Call" /\ e.callee.k = "Super" ->
         emit(emit_with_constant(read_variable(args(read_variable(c, "this")), "super"),
                                 "SuperInvoke", NameConst(e.callee.method)), argc)
    [] e.k = "Call" /\ e.callee.k \notin {"Get", "Super"} ->
         emit_two(args(compile_expr(c, e.callee)), "Call", argc)
    [] e.k = "Get" -> emit_with_constant(compile_expr(c, e.object), "GetProperty", NameConst(e.name))
    [] e.k = "Set" ->
         emit_with_constant(compile_expr(compile_expr(c, e.object), e.value), "SetProperty",
                            NameConst(e.name))
    [] e.k = "This" ->
         IF c.classes = <<>> THEN error(c, "cannot use 'this' outside of a class")
         ELSE read_variable(c, "this")
    [] e.k = "Super" ->
         IF c.classes = <<>> THEN error(c, "cannot use 'super' outside of a class")
         ELSE IF ~Last(c.classes)
         THEN error(c, "cannot use 'super' in a class with no superclass")
         ELSE emit_with_constant(read_variable(read_variable(c, "this"), "super"), "GetSuper",
                                 NameConst(e.method)))

-----------------------------------------------------------------------------
(***************************************************************************)
(* Statements.                                                             *)
(***************************************************************************)
\* The finished function of the last function state, as the VM sees it.
Finished(f) ==
  [name |-> f.name, arity |-> f.arity, upvalue_count |-> Len(f.upvalues),
   code |-> f.code, constants |-> f.constants]

RECURSIVE compile_stmt(_, _)

\* The function is complete: its closure is made by the enclosing one.
finish_function(end) ==
  LET finished == current(end)
      outer == [end EXCEPT !.functions = Front(@), !.done = Append(@, Finished(finished))]
      closure == emit_with_constant(outer, "Closure", <<"function", Len(outer.done)>>)
      capture(d, uv) == emit(emit(d, IF uv.is_local THEN 1 ELSE 0), uv.index)
  IN  FoldLeft(capture, closure, finished.upvalues)

compile_function(c, decl, kind) ==
  LET slot0 == IF kind \in {"Method", "Initializer"} THEN "this" ELSE ""
      param(d, p) == mark_initialized(declare_variable(d, p))
      start == [c EXCEPT !.functions =
                  Append(@, FunctionState(decl.name, kind, Len(decl.params), slot0))]
      declared == FoldLeft(param, begin_scope(start), decl.params)
  IN  finish_function(emit_return(FoldLeft(compile_stmt, declared, decl.body)))

\* The superclass is kept in a hidden local "super" while the methods are compiled.
compile_inherit(c, s) ==
  LET hidden == mark_initialized(add_local(begin_scope(read_variable(c, s.superclass)), "super"))
  IN  emit(read_variable(hidden, s.name), "Inherit")

compile_methods(c, s) ==
  LET nested == [c EXCEPT !.classes = Append(@, s.superclass # "")]
      method(d, m) ==
        emit_with_constant(
          compile_function(d, m, IF m.name = "init" THEN "Initializer" ELSE "Method"),
          "Method", NameConst(m.name))
  IN  emit(FoldLeft(method, read_variable(nested, s.name), s.methods), "Pop")

compile_class(c, s) ==
  LET name_const == constant_index(c)
      declared == declare_variable(make_constant(c, NameConst(s.name)), s.name)
      defined == define_variable(emit_two(declared, "Class", name_const), name_const)
      bound == IF s.superclass = "" THEN compile_methods(defined, s)
               ELSE end_scope(compile_methods(compile_inherit(defined, s), s))
  IN  [bound EXCEPT !.classes = Front(@)]

compile_stmt(state, s) == Then(state, LAMBDA c :
  CASE s.k = "ExprStmt"  -> emit(compile_expr(c, s.expression), "Pop")
    [] s.k = "PrintStmt" -> emit(compile_expr(c, s.expression), "Print")
    [] s.k = "VarStmt"   ->
         LET d == parse_variable(c, s.name)
         IN  define_variable(IF s.initializer = Null THEN emit(d, "Nil")
                             ELSE compile_expr(d, s.initializer), global_operand(c))
    [] s.k = "Block" -> end_scope(FoldLeft(compile_stmt, begin_scope(c), s.statements))
    [] s.k = "If" ->
         Then(emit_jump(compile_expr(c, s.condition), "JumpIfFalse"), LAMBDA d :
           Then(emit_jump(compile_stmt(emit(d, "Pop"), s.then_branch), "Jump"), LAMBDA t :
             Then(emit(patch_jump(t, jump_at(d)), "Pop"), LAMBDA e :
               patch_jump(IF s.else_branch = Null THEN e ELSE compile_stmt(e, s.else_branch),
                          jump_at(t)))))
    [] s.k = "While" ->
         Then(emit_jump(compile_expr(c, s.condition), "JumpIfFalse"), LAMBDA d :
           emit(patch_jump(emit_loop(compile_stmt(emit(d, "Pop"), s.body), code_size(c)),
                           jump_at(d)), "Pop"))
    [] s.k = "Function" ->
         define_variable(compile_function(mark_initialized(parse_variable(c, s.name)), s, "Function"),
                         global_operand(c))
    [] s.k = "Return" ->
         LET d == IF current(c).kind = "Script"
                  THEN error(c, "cannot return from top-level code") ELSE c
             e == IF current(c).kind = "Initializer"
                  THEN error(d, "cannot return a value from an initializer") ELSE d
         IN  IF s.value = Null THEN emit_return(d)
             ELSE emit(compile_expr(e, s.value), "Return")
    [] s.k = "Class" -> compile_class(c, s))

(***************************************************************************)
(* compile: the errors, and the functions of the program, the script last. *)
(***************************************************************************)
compile(statements) ==
  LET start == [functions |-> <<FunctionState("<script>", "Script", 0, "")>>,
                classes |-> <<>>, done |-> <<>>, errors |-> <<>>]
      end == emit_return(FoldLeft(compile_stmt, start, statements))
  IN  [errors |-> end.errors, functions |-> Append(end.done, Finished(current(end)))]
=============================================================================
