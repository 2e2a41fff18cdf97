-------------------------------- MODULE Ast --------------------------------
(***************************************************************************)
(* The syntax tree that the parser hands to both engines (parser/ast.h),   *)
(* one constructor per node, and the runtime values that do not live on    *)
(* the collected heap.                                                     *)
(*                                                                         *)
(* A value is a pair of a tag and a payload.  Doubles are abstracted to    *)
(* the integers and NaN (the tags "num" and "nan"); arithmetic that leaves *)
(* them has no value here and stops TLC.  A string is the sequence of the  *)
(* atoms it was put together from.                                         *)
(***************************************************************************)
EXTENDS Integers, Sequences, TLC

Nil == <<"nil", 0>>
Bool(b) == <<"bool", b>>
Num(n) == <<"num", n>>
NaN == <<"nan", 0>>
Str(atom) == <<"str", <<atom>>>>

IsNumber(v) == v[1] \in {"num", "nan"}
IsString(v) == v[1] = "str"

\* Arithmetic and comparison of doubles: NaN absorbs, and compares false.
Arith(op, a, b) ==
  IF a = NaN \/ b = NaN \/ (op = "Divide" /\ a[2] = 0 /\ b[2] = 0) THEN NaN
  ELSE Num(CASE op = "Add"      -> a[2] + b[2]
             [] op = "Subtract" -> a[2] - b[2]
             [] op = "Multiply" -> a[2] * b[2]
             [] op = "Divide" /\ b[2] > 0 /\ a[2] % b[2] = 0 -> a[2] \div b[2])

NumLess(a, b) == a # NaN /\ b # NaN /\ a[2] < b[2]
NumEqual(a, b) == a # NaN /\ b # NaN /\ a[2] = b[2]

Negated(a) == IF a = NaN THEN NaN ELSE Num(-a[2])
Concat(a, b) == <<"str", a[2] \o b[2]>>

\* format_number
NumText(v) == IF v = NaN THEN <<"nan">> ELSE <<ToString(v[2])>>

-----------------------------------------------------------------------------
\* A null ExprPtr or StmtPtr.
Null == [k |-> "null"]

Literal(v) == [k |-> "Literal", value |-> v]
Unary(op, e) == [k |-> "Unary", op |-> op, right |-> e]
Binary(l, op, r) == [k |-> "Binary", left |-> l, op |-> op, right |-> r]
Logical(l, op, r) == [k |-> "Logical", left |-> l, op |-> op, right |-> r]
Grouping(e) == [k |-> "Grouping", expr |-> e]
Variable(n) == [k |-> "Variable", name |-> n]
Assign(n, e) == [k |-> "Assign", name |-> n, value |-> e]
CallExpr(f, args) == [k |-> "Call", callee |-> f, arguments |-> args]
Get(o, n) == [k |-> "Get", object |-> o, name |-> n]
SetExpr(o, n, e) == [k |-> "Set", object |-> o, name |-> n, value |-> e]
This == [k |-> "This"]
Super(m) == [k |-> "Super", method |-> m]

ExprStmt(e) == [k |-> "ExprStmt", expression |-> e]
PrintStmt(e) == [k |-> "PrintStmt", expression |-> e]
VarStmt(n, e) == [k |-> "VarStmt", name |-> n, initializer |-> e]
Block(ss) == [k |-> "Block", statements |-> ss]
IfStmt(c, t, e) == [k |-> "If", condition |-> c, then_branch |-> t, else_branch |-> e]
While(c, b) == [k |-> "While", condition |-> c, body |-> b]
Fun(n, params, body) == [k |-> "Function", name |-> n, params |-> params, body |-> body]
Return(e) == [k |-> "Return", value |-> e]
Class(n, superclass, methods) ==
  [k |-> "Class", name |-> n, superclass |-> superclass, methods |-> methods]
=============================================================================
