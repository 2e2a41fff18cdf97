---------------------------- MODULE Interpreter ----------------------------
(***************************************************************************)
(* The tree-walking engine (eval/*.cpp) as operators on its state: the     *)
(* environments and objects made so far, the current environment, the      *)
(* output, and how the last evaluation ended.  C++ exceptions are the      *)
(* signal: "return" is ReturnSignal, "error" is RuntimeError; an           *)
(* evaluation goes on only while there is none.  Tokens and line numbers   *)
(* are left out, and error messages keep only their kind.                  *)
(*                                                                         *)
(* A program that does not terminate has no meaning here: the C++ stack    *)
(* bounds the engine's recursion and nothing in the source does.           *)
(***************************************************************************)
EXTENDS Ast, SequencesExt

CONSTANT ClockReading     \* what clock() reads

-----------------------------------------------------------------------------
(***************************************************************************)
(* State.  Environments and objects are named by their order of creation;  *)
(* environment 1 is globals_ and 0 stands for no environment, no class.    *)
(***************************************************************************)
NoNames == [x \in {} |-> x]

NewState ==
  [envs |-> <<[values |-> [n \in {"clock", "gc"} |-> <<"native", n>>], enclosing |-> 0]>>,
   objs |-> <<>>, environment |-> 1, out |-> <<>>, signal |-> "none", val |-> Nil, message |-> ""]

Value(s, v) == [s EXCEPT !.val = v]
RuntimeError(s, m) == [s EXCEPT !.signal = "error", !.message = m]

\* What follows is evaluated only if what came before it did not throw.
Then(s, Rest(_)) == IF s.signal = "none" THEN Rest(s) ELSE s

\* std::make_shared, the result in val.
MakeShared(s, tag, obj) ==
  Value([s EXCEPT !.objs = Append(@, obj)], <<tag, Len(s.objs) + 1>>)
MakeEnvironment(s, enclosing, values) ==
  [s EXCEPT !.envs = Append(@, [values |-> values, enclosing |-> enclosing])]
Object(s, v) == s.objs[v[2]]

-----------------------------------------------------------------------------
(***************************************************************************)
(* Environments.                                                           *)
(***************************************************************************)

\* The innermost environment, from env outwards, that defines name (0: none).
RECURSIVE Holder(_, _, _)
Holder(envs, env, name) ==
  IF env = 0 \/ name \in DOMAIN envs[env].values THEN env
  ELSE Holder(envs, envs[env].enclosing, name)

define(s, env, name, v) == [s EXCEPT !.envs[env].values = (name :> v) @@ @]

get(s, name) ==
  LET env == Holder(s.envs, s.environment, name)
  IN  IF env = 0 THEN RuntimeError(s, "undefined variable") ELSE Value(s, s.envs[env].values[name])

assign(s, name, v) ==
  LET env == Holder(s.envs, s.environment, name)
  IN  IF env = 0 THEN RuntimeError(s, "undefined variable") ELSE define(s, env, name, v)

-----------------------------------------------------------------------------
(***************************************************************************)
(* Values, functions, classes and instances.                               *)
(***************************************************************************)
is_truthy(v) == v # Nil /\ v # Bool(FALSE)
values_equal(a, b) == IF IsNumber(a) /\ IsNumber(b) THEN NumEqual(a, b) ELSE a = b

stringify(s, v) ==
  CASE v[1] = "nil"      -> <<"nil">>
    [] IsNumber(v)       -> NumText(v)
    [] v[1] = "bool"     -> IF v[2] THEN <<"true">> ELSE <<"false">>
    [] v[1] = "str"      -> v[2]
    [] v[1] = "fn"       -> <<"<fn ", Object(s, v).declaration.name, ">">>
    [] v[1] = "class"    -> <<Object(s, v).name>>
    [] v[1] = "instance" -> <<s.objs[Object(s, v).klass].name, " instance">>
    [] v[1] = "native"   -> <<"<native fn ", v[2], ">">>

LumenFunction(declaration, closure, is_initializer) ==
  [declaration |-> declaration, closure |-> closure, is_initializer |-> is_initializer]

\* The function object of that method in class k or the nearest ancestor that has it (0: none).
RECURSIVE find_method(_, _, _)
find_method(s, k, name) ==
  IF k = 0 THEN 0
  ELSE IF name \in DOMAIN s.objs[k].methods THEN s.objs[k].methods[name]
  ELSE find_method(s, s.objs[k].superclass, name)

\* A copy of function f whose environment has `this`, in val.
bind(s, f, instance) ==
  LET fn == s.objs[f]
  IN  MakeShared(MakeEnvironment(s, fn.closure, ("this" :> instance)), "fn",
                 [fn EXCEPT !.closure = Len(s.envs) + 1])

arity(s, callee) ==
  LET params(f) == Len(s.objs[f].declaration.params)
  IN  CASE callee[1] = "native" -> 0
        [] callee[1] = "fn"     -> params(callee[2])
        [] callee[1] = "class"  ->
             LET init == find_method(s, callee[2], "init") IN IF init = 0 THEN 0 ELSE params(init)

\* InstanceValue::get: a field, or else a method bound to the instance.
get_property(s, self, name) ==
  LET instance == Object(s, self)
      method == find_method(s, instance.klass, name)
  IN  CASE name \in DOMAIN instance.fields -> Value(s, instance.fields[name])
        [] name \notin DOMAIN instance.fields /\ method # 0 -> bind(s, method, self)
        [] OTHER -> RuntimeError(s, "undefined property")

set_property(s, self, name, v) ==
  Value([s EXCEPT !.objs[self[2]].fields = (name :> v) @@ @], v)

\* The binary operators once both operands are values.
BinaryValue(s, op, l, r) ==
  LET numbers == IsNumber(l) /\ IsNumber(r)
      compare == CASE op = "Greater"      -> NumLess(r, l)
                   [] op = "GreaterEqual" -> NumLess(r, l) \/ NumEqual(l, r)
                   [] op = "Less"         -> NumLess(l, r)
                   [] op = "LessEqual"    -> NumLess(l, r) \/ NumEqual(l, r)
  IN  CASE op = "EqualEqual" -> Value(s, Bool(values_equal(l, r)))
        [] op = "BangEqual"  -> Value(s, Bool(~values_equal(l, r)))
        [] op = "Plus" /\ numbers -> Value(s, Arith("Add", l, r))
        [] op = "Plus" /\ IsString(l) /\ IsString(r) -> Value(s, Concat(l, r))
        [] op = "Plus" /\ ~numbers /\ ~(IsString(l) /\ IsString(r)) ->
             RuntimeError(s, "operands must be two numbers or two strings")
        [] op \notin {"EqualEqual", "BangEqual", "Plus"} /\ ~numbers ->
             RuntimeError(s, "operands must be numbers")
        [] op = "Minus" /\ numbers -> Value(s, Arith("Subtract", l, r))
        [] op = "Star"  /\ numbers -> Value(s, Arith("Multiply", l, r))
        [] op = "Slash" /\ numbers -> Value(s, Arith("Divide", l, r))
        [] OTHER -> Value(s, Bool(compare))

-----------------------------------------------------------------------------
(***************************************************************************)
(* Evaluation.                                                             *)
(***************************************************************************)
RECURSIVE evaluate(_, _), execute(_, _)

\* execute_block: the ScopeGuard restores the environment however the block ends.
execute_block(s, statements, env) ==
  LET step(t, stmt) == IF t.signal = "none" THEN execute(t, stmt) ELSE t
  IN  [FoldLeft(step, [s EXCEPT !.environment = env], statements)
         EXCEPT !.environment = s.environment]

\* LumenFunction::call.  The parameters' environment encloses the body's statements.
call(s, f, args) ==
  LET fn == s.objs[f]
      params == fn.declaration.params
      bound(n) == args[CHOOSE i \in 1 .. Len(params) :
                         params[i] = n /\ \A j \in i + 1 .. Len(params) : params[j] # n]
      t == execute_block(MakeEnvironment(s, fn.closure, [n \in Range(params) |-> bound(n)]),
                         fn.declaration.body, Len(s.envs) + 1)
  IN  IF t.signal = "error" THEN t
      ELSE [t EXCEPT !.signal = "none",
                     !.val = IF fn.is_initializer THEN t.envs[fn.closure].values["this"]
                             ELSE IF t.signal = "return" THEN t.val ELSE Nil]

\* ClassValue::call: what init returns is dropped.
construct(s, klass, args) ==
  LET made == MakeShared(s, "instance", [klass |-> klass, fields |-> NoNames])
      init == find_method(s, klass, "init")
      bound == bind(made, init, made.val)
  IN  IF init = 0 THEN made
      ELSE Then(call(bound, bound.val[2], args), LAMBDA t : Value(t, made.val))

call_value(s, callee, args) ==
  IF callee[1] \notin {"fn", "native", "class"}
  THEN RuntimeError(s, "can only call functions and classes")
  ELSE IF Len(args) # arity(s, callee) THEN RuntimeError(s, "wrong number of arguments")
  ELSE CASE callee[1] = "fn"      -> call(s, callee[2], args)
         [] callee[1] = "class"   -> construct(s, callee[2], args)
         [] callee = <<"native", "clock">> -> Value(s, Num(ClockReading))
         [] callee = <<"native", "gc">>    -> Value(s, Num(0))

\* SuperExpr: the superclass's method, bound to this.
super_method(s, name) ==
  Then(get(s, "super"), LAMBDA t : Then(get(t, "this"), LAMBDA u :
    LET method == find_method(u, t.val[2], name)
    IN  IF method = 0 THEN RuntimeError(u, "undefined property") ELSE bind(u, method, u.val)))

evaluate(s, e) ==
  CASE e.k = "Literal"  -> Value(s, e.value)
    [] e.k = "Grouping" -> evaluate(s, e.expr)
    [] e.k = "Unary"    -> Then(evaluate(s, e.right), LAMBDA t :
         CASE e.op = "Bang" -> Value(t, Bool(~is_truthy(t.val)))
           [] e.op = "Minus" /\ IsNumber(t.val) -> Value(t, Negated(t.val))
           [] OTHER -> RuntimeError(t, "operand must be a number"))
    [] e.k = "Binary"   -> Then(evaluate(s, e.left), LAMBDA t :
         Then(evaluate(t, e.right), LAMBDA u : BinaryValue(u, e.op, t.val, u.val)))
    [] e.k = "Logical"  -> Then(evaluate(s, e.left), LAMBDA t :
         IF is_truthy(t.val) = (e.op = "Or") THEN t ELSE evaluate(t, e.right))
    [] e.k = "Variable" -> get(s, e.name)
    [] e.k = "Assign"   -> Then(evaluate(s, e.value), LAMBDA t : assign(t, e.name, t.val))
    [] e.k = "Call"     -> Then(evaluate(s, e.callee), LAMBDA t :
         LET arg(acc, a) == LET u == Then(acc.s, LAMBDA w : evaluate(w, a))
                            IN  [s |-> u, args |-> Append(acc.args, u.val)]
             end == FoldLeft(arg, [s |-> t, args |-> <<>>], e.arguments)
         IN  Then(end.s, LAMBDA u : call_value(u, t.val, end.args)))
    [] e.k = "Get"      -> Then(evaluate(s, e.object), LAMBDA t :
         IF t.val[1] = "instance" THEN get_property(t, t.val, e.name)
         ELSE RuntimeError(t, "only instances have properties"))
    [] e.k = "Set"      -> Then(evaluate(s, e.object), LAMBDA t :
         IF t.val[1] # "instance" THEN RuntimeError(t, "only instances have fields")
         ELSE Then(evaluate(t, e.value), LAMBDA u : set_property(u, t.val, e.name, u.val)))
    [] e.k = "This"     -> get(s, "this")
    [] e.k = "Super"    -> super_method(s, e.method)

-----------------------------------------------------------------------------
RECURSIVE while(_, _)
while(s, stmt) ==
  Then(evaluate(s, stmt.condition), LAMBDA t :
    IF is_truthy(t.val) THEN Then(execute(t, stmt.body), LAMBDA u : while(u, stmt)) ELSE t)

\* ClassStmt once its superclass (0: none) is known to be a class.
class_statement(s, stmt, superklass) ==
  LET defined == define(s, s.environment, stmt.name, Nil)
      scoped == IF superklass = 0 THEN defined
                ELSE MakeEnvironment(defined, s.environment, ("super" :> <<"class", superklass>>))
      method_env == IF superklass = 0 THEN s.environment ELSE Len(s.envs) + 1
      method(acc, m) ==
        LET t == MakeShared(acc.s, "fn", LumenFunction(m, method_env, m.name = "init"))
        IN  [s |-> t, methods |-> (m.name :> t.val[2]) @@ acc.methods]
      bodies == FoldLeft(method, [s |-> scoped, methods |-> NoNames], stmt.methods)
      made == MakeShared(bodies.s, "class", [name |-> stmt.name, superclass |-> superklass,
                                             methods |-> bodies.methods])
  IN  assign(made, stmt.name, made.val)

execute(s, stmt) ==
  CASE stmt.k = "ExprStmt"  -> evaluate(s, stmt.expression)
    [] stmt.k = "PrintStmt" -> Then(evaluate(s, stmt.expression), LAMBDA t :
         [t EXCEPT !.out = Append(@, stringify(t, t.val))])
    [] stmt.k = "VarStmt"   ->
         Then(IF stmt.initializer = Null THEN Value(s, Nil) ELSE evaluate(s, stmt.initializer),
              LAMBDA t : define(t, t.environment, stmt.name, t.val))
    [] stmt.k = "Block"     ->
         execute_block(MakeEnvironment(s, s.environment, NoNames), stmt.statements, Len(s.envs) + 1)
    [] stmt.k = "If"        -> Then(evaluate(s, stmt.condition), LAMBDA t :
         CASE is_truthy(t.val) -> execute(t, stmt.then_branch)
           [] ~is_truthy(t.val) /\ stmt.else_branch # Null -> execute(t, stmt.else_branch)
           [] OTHER -> t)
    [] stmt.k = "While"     -> while(s, stmt)
    [] stmt.k = "Function"  ->
         LET t == MakeShared(s, "fn", LumenFunction(stmt, s.environment, FALSE))
         IN  define(t, t.environment, stmt.name, t.val)
    [] stmt.k = "Return"    ->
         Then(IF stmt.value = Null THEN Value(s, Nil) ELSE evaluate(s, stmt.value),
              LAMBDA t : [t EXCEPT !.signal = "return"])
    [] stmt.k = "Class" /\ stmt.superclass = "" -> class_statement(s, stmt, 0)
    [] stmt.k = "Class" /\ stmt.superclass # "" -> Then(get(s, stmt.superclass), LAMBDA t :
         IF t.val[1] = "class" THEN class_statement(t, stmt, t.val[2])
         ELSE RuntimeError(t, "superclass must be a class"))

\* What interpret leaves behind: output(), and whether and how it failed.
Outcome(end) == [out |-> end.out, signal |-> end.signal, message |-> end.message]

(***************************************************************************)
(* interpret: the statements run in globals_; the result is the output and *)
(* whether, and with which error, the program failed.                      *)
(***************************************************************************)
interpret(statements) == Outcome(execute_block(NewState, statements, 1))
=============================================================================
