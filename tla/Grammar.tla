------------------------------ MODULE Grammar ------------------------------
(***************************************************************************)
(* What the parser promises, stated without a parser.  The first part is   *)
(* the grammar of docs/grammar.md, rule by rule: Rule(t, i, j) says that   *)
(* the token kinds t[i] .. t[j] can be derived from that rule.  The second *)
(* part spells a syntax tree back as tokens and says which trees respect   *)
(* precedence and associativity, so that a spelling has only one tree.     *)
(***************************************************************************)
EXTENDS Ast, SequencesExt

CONSTANT MaxArguments   \* most parameters or arguments of a function

-----------------------------------------------------------------------------
(***************************************************************************)
(* docs/grammar.md.                                                        *)
(***************************************************************************)
InfixKinds ==
  << {"Or"}, {"And"}, {"BangEqual", "EqualEqual"},
     {"Greater", "GreaterEqual", "Less", "LessEqual"}, {"Minus", "Plus"}, {"Slash", "Star"} >>

\* The terminals at i .. i + Len(kinds) - 1, which do not reach past j.
Terminals(t, i, j, kinds) ==
  i + Len(kinds) - 1 <= j /\ \A n \in 1 .. Len(kinds) : t[i + n - 1] = kinds[n]

RECURSIVE Expression(_, _, _), Infix(_, _, _, _), Prefix(_, _, _), Postfix(_, _, _),
          Arguments(_, _, _, _)

Primary(t, i, j) ==
  \/ i = j /\ t[i] \in {"Number", "String", "True", "False", "Nil", "Identifier", "This"}
  \/ i + 2 = j /\ Terminals(t, i, j, <<"Super", "Dot", "Identifier">>)
  \/ i + 2 <= j /\ t[i] = "LeftParen" /\ t[j] = "RightParen" /\ Expression(t, i + 1, j - 1)

\* arguments, at most n of them.
Arguments(t, i, j, n) ==
  /\ n > 0
  /\ \/ Expression(t, i, j)
     \/ \E k \in i + 1 .. j - 1 :
          t[k] = "Comma" /\ Expression(t, i, k - 1) /\ Arguments(t, k + 1, j, n - 1)

\* call
Postfix(t, i, j) ==
  \/ Primary(t, i, j)
  \/ i + 2 <= j /\ Terminals(t, j - 1, j, <<"Dot", "Identifier">>) /\ Postfix(t, i, j - 2)
  \/ \E k \in i + 1 .. j - 1 :
       /\ t[k] = "LeftParen" /\ t[j] = "RightParen" /\ Postfix(t, i, k - 1)
       /\ k + 1 = j \/ Arguments(t, k + 1, j - 1, MaxArguments)

\* unary
Prefix(t, i, j) ==
  (i < j /\ t[i] \in {"Bang", "Minus"} /\ Prefix(t, i + 1, j)) \/ Postfix(t, i, j)

\* logic_or (level 1) .. factor (level 6)
Infix(t, i, j, level) ==
  IF level > Len(InfixKinds) THEN Prefix(t, i, j)
  ELSE \/ Infix(t, i, j, level + 1)
       \/ \E k \in i + 1 .. j - 1 :
            t[k] \in InfixKinds[level] /\ Infix(t, i, k - 1, level) /\ Infix(t, k + 1, j, level + 1)

\* assignment
Expression(t, i, j) ==
  \/ Infix(t, i, j, 1)
  \/ \E k \in i + 1 .. j - 1 :
       /\ t[k - 1] = "Identifier" /\ t[k] = "Equal" /\ Expression(t, k + 1, j)
       /\ k - 1 = i \/ (k - 3 >= i /\ t[k - 2] = "Dot" /\ Postfix(t, i, k - 3))

ExpressionOrNothing(t, i, j) == j < i \/ Expression(t, i, j)

-----------------------------------------------------------------------------
RECURSIVE Statement(_, _, _), Declarations(_, _, _), Methods(_, _, _)

ExprStatement(t, i, j) == i < j /\ t[j] = "Semicolon" /\ Expression(t, i, j - 1)

VarDeclaration(t, i, j) ==
  /\ Terminals(t, i, j, <<"Var", "Identifier">>) /\ t[j] = "Semicolon"
  /\ i + 2 = j \/ (t[i + 2] = "Equal" /\ Expression(t, i + 3, j - 1))

BlockOf(t, i, j) == i < j /\ t[i] = "LeftBrace" /\ t[j] = "RightBrace" /\ Declarations(t, i + 1, j - 1)

Parameters(t, i, j) ==
  /\ \A k \in i .. j : t[k] = (IF (k - i) % 2 = 0 THEN "Identifier" ELSE "Comma")
  /\ (j - i) % 2 = 0 /\ (j - i) \div 2 < MaxArguments

Function(t, i, j) ==
  /\ Terminals(t, i, j, <<"Identifier", "LeftParen">>)
  /\ \E k \in i + 2 .. j - 1 :
       t[k] = "RightParen" /\ (k = i + 2 \/ Parameters(t, i + 2, k - 1)) /\ BlockOf(t, k + 1, j)

Methods(t, i, j) ==
  j < i \/ \E k \in i .. j : Function(t, i, k) /\ Methods(t, k + 1, j)

ClassDeclaration(t, i, j) ==
  /\ Terminals(t, i, j, <<"Class", "Identifier">>) /\ t[j] = "RightBrace"
  /\ \/ i + 2 < j /\ t[i + 2] = "LeftBrace" /\ Methods(t, i + 3, j - 1)
     \/ /\ Terminals(t, i + 2, j - 1, <<"Less", "Identifier", "LeftBrace">>)
        /\ Methods(t, i + 5, j - 1)

IfStatement(t, i, j) ==
  /\ Terminals(t, i, j, <<"If", "LeftParen">>)
  /\ \E k \in i + 3 .. j - 1 :
       /\ t[k] = "RightParen" /\ Expression(t, i + 2, k - 1)
       /\ \/ Statement(t, k + 1, j)
          \/ \E e \in k + 2 .. j - 1 :
               t[e] = "Else" /\ Statement(t, k + 1, e - 1) /\ Statement(t, e + 1, j)

WhileStatement(t, i, j) ==
  /\ Terminals(t, i, j, <<"While", "LeftParen">>)
  /\ \E k \in i + 3 .. j - 1 :
       t[k] = "RightParen" /\ Expression(t, i + 2, k - 1) /\ Statement(t, k + 1, j)

ForStatement(t, i, j) ==
  /\ Terminals(t, i, j, <<"For", "LeftParen">>)
  /\ \E a \in i + 2 .. j : \E b \in a + 1 .. j : \E c \in b + 1 .. j - 1 :
       /\ t[a] = "Semicolon" /\ t[b] = "Semicolon" /\ t[c] = "RightParen"
       /\ a = i + 2 \/ VarDeclaration(t, i + 2, a) \/ ExprStatement(t, i + 2, a)
       /\ ExpressionOrNothing(t, a + 1, b - 1) /\ ExpressionOrNothing(t, b + 1, c - 1)
       /\ Statement(t, c + 1, j)

Statement(t, i, j) ==
  /\ i <= j
  /\ \/ ExprStatement(t, i, j)
     \/ t[i] = "Print" /\ ExprStatement(t, i + 1, j)
     \/ t[i] = "Return" /\ t[j] = "Semicolon" /\ ExpressionOrNothing(t, i + 1, j - 1)
     \/ IfStatement(t, i, j) \/ WhileStatement(t, i, j) \/ ForStatement(t, i, j)
     \/ BlockOf(t, i, j)

Declaration(t, i, j) ==
  \/ VarDeclaration(t, i, j) \/ ClassDeclaration(t, i, j) \/ Statement(t, i, j)
  \/ t[i] = "Fun" /\ Function(t, i + 1, j)

Declarations(t, i, j) ==
  j < i \/ \E k \in i .. j : Declaration(t, i, k) /\ Declarations(t, k + 1, j)

Program(t) == Declarations(t, 1, Len(t))

-----------------------------------------------------------------------------
(***************************************************************************)
(* Trees as token texts: a token is spelled <<kind, text>>, where the text *)
(* is the name of an identifier or the value of a literal.                 *)
(***************************************************************************)
K(kind) == << <<kind, "">> >>
Name(n) == << <<"Identifier", n>> >>

LiteralKind(v) ==
  CASE v[1] = "nil"  -> "Nil"
    [] v[1] = "bool" -> IF v[2] THEN "True" ELSE "False"
    [] v[1] = "str"  -> "String"
    [] OTHER -> "Number"

\* The text of a token the lexer made.
Text(token) ==
  IF token.kind = "Identifier" THEN <<"Identifier", token.lexeme>>
  ELSE IF token.kind \in {"Number", "String"} THEN <<token.kind, token.literal>>
  ELSE <<token.kind, "">>

SpellNames(names) ==
  FlattenSeq([n \in 1 .. Len(names) |-> (IF n = 1 THEN <<>> ELSE K("Comma")) \o Name(names[n])])

RECURSIVE SpellExpr(_), SpellStmt(_), SpellFunction(_)
SpellExpr(e) ==
  CASE e.k = "Literal"  -> << <<LiteralKind(e.value),
                               IF e.value[1] \in {"nil", "bool"} THEN "" ELSE e.value>> >>
    [] e.k = "Grouping" -> K("LeftParen") \o SpellExpr(e.expr) \o K("RightParen")
    [] e.k = "Unary"    -> K(e.op) \o SpellExpr(e.right)
    [] e.k \in {"Binary", "Logical"} -> SpellExpr(e.left) \o K(e.op) \o SpellExpr(e.right)
    [] e.k = "Variable" -> Name(e.name)
    [] e.k = "Assign"   -> Name(e.name) \o K("Equal") \o SpellExpr(e.value)
    [] e.k = "Get"      -> SpellExpr(e.object) \o K("Dot") \o Name(e.name)
    [] e.k = "Set"      ->
         SpellExpr(e.object) \o K("Dot") \o Name(e.name) \o K("Equal") \o SpellExpr(e.value)
    [] e.k = "This"     -> K("This")
    [] e.k = "Super"    -> K("Super") \o K("Dot") \o Name(e.method)
    [] e.k = "Call"     ->
         SpellExpr(e.callee) \o K("LeftParen")
           \o FlattenSeq([n \in 1 .. Len(e.arguments) |->
                (IF n = 1 THEN <<>> ELSE K("Comma")) \o SpellExpr(e.arguments[n])])
           \o K("RightParen")

SpellBlock(stmts) ==
  K("LeftBrace") \o FlattenSeq([n \in 1 .. Len(stmts) |-> SpellStmt(stmts[n])]) \o K("RightBrace")

SpellFunction(f) ==
  Name(f.name) \o K("LeftParen") \o SpellNames(f.params) \o K("RightParen") \o SpellBlock(f.body)

SpellStmt(s) ==
  CASE s.k = "ExprStmt"  -> SpellExpr(s.expression) \o K("Semicolon")
    [] s.k = "PrintStmt" -> K("Print") \o SpellExpr(s.expression) \o K("Semicolon")
    [] s.k = "Return"    ->
         K("Return") \o (IF s.value = Null THEN <<>> ELSE SpellExpr(s.value)) \o K("Semicolon")
    [] s.k = "VarStmt"   ->
         K("Var") \o Name(s.name)
           \o (IF s.initializer = Null THEN <<>> ELSE K("Equal") \o SpellExpr(s.initializer))
           \o K("Semicolon")
    [] s.k = "Block"     -> SpellBlock(s.statements)
    [] s.k = "If"        ->
         K("If") \o K("LeftParen") \o SpellExpr(s.condition) \o K("RightParen")
           \o SpellStmt(s.then_branch)
           \o (IF s.else_branch = Null THEN <<>> ELSE K("Else") \o SpellStmt(s.else_branch))
    [] s.k = "While"     ->
         K("While") \o K("LeftParen") \o SpellExpr(s.condition) \o K("RightParen")
           \o SpellStmt(s.body)
    [] s.k = "Function"  -> K("Fun") \o SpellFunction(s)
    [] s.k = "Class"     ->
         K("Class") \o Name(s.name)
           \o (IF s.superclass = "" THEN <<>> ELSE K("Less") \o Name(s.superclass))
           \o K("LeftBrace")
           \o FlattenSeq([n \in 1 .. Len(s.methods) |-> SpellFunction(s.methods[n])])
           \o K("RightBrace")

Spell(stmts) == FlattenSeq([n \in 1 .. Len(stmts) |-> SpellStmt(stmts[n])])

-----------------------------------------------------------------------------
(***************************************************************************)
(* Precedence: how tightly the top of an expression binds.                 *)
(***************************************************************************)
Binding(e) ==
  CASE e.k \in {"Assign", "Set"} -> 0
    [] e.k \in {"Logical", "Binary"} -> CHOOSE l \in 1 .. Len(InfixKinds) : e.op \in InfixKinds[l]
    [] e.k = "Unary" -> 7
    [] e.k \in {"Call", "Get"} -> 8
    [] OTHER -> 9

\* Each operand binds tightly enough to need no parentheses.
RECURSIVE Canonical(_)
Canonical(e) ==
  CASE e.k \in {"Logical", "Binary"} ->
         /\ Binding(e.left) >= Binding(e) /\ Binding(e.right) > Binding(e)
         /\ Canonical(e.left) /\ Canonical(e.right)
    [] e.k = "Unary"    -> Binding(e.right) >= 7 /\ Canonical(e.right)
    [] e.k = "Grouping" -> Canonical(e.expr)
    [] e.k = "Assign"   -> Canonical(e.value)
    [] e.k = "Get"      -> Binding(e.object) >= 8 /\ Canonical(e.object)
    [] e.k = "Set"      -> Binding(e.object) >= 8 /\ Canonical(e.object) /\ Canonical(e.value)
    [] e.k = "Call"     -> /\ Binding(e.callee) >= 8 /\ Canonical(e.callee)
                           /\ \A n \in 1 .. Len(e.arguments) : Canonical(e.arguments[n])
    [] OTHER -> TRUE

\* A statement that a following else would still belong to.
RECURSIVE AwaitsElse(_)
AwaitsElse(s) ==
  CASE s.k = "If"    -> s.else_branch = Null \/ AwaitsElse(s.else_branch)
    [] s.k = "While" -> AwaitsElse(s.body)
    [] OTHER -> FALSE

RECURSIVE CanonicalStmt(_)
CanonicalStmts(stmts) == \A n \in 1 .. Len(stmts) : CanonicalStmt(stmts[n])
CanonicalStmt(s) ==
  CASE s.k \in {"ExprStmt", "PrintStmt"} -> Canonical(s.expression)
    [] s.k = "Return"   -> s.value = Null \/ Canonical(s.value)
    [] s.k = "VarStmt"  -> s.initializer = Null \/ Canonical(s.initializer)
    [] s.k = "Block"    -> CanonicalStmts(s.statements)
    [] s.k = "While"    -> Canonical(s.condition) /\ CanonicalStmt(s.body)
    [] s.k = "Function" -> CanonicalStmts(s.body)
    [] s.k = "Class"    -> CanonicalStmts(s.methods)
    [] s.k = "If"       ->
         /\ Canonical(s.condition) /\ CanonicalStmt(s.then_branch)
         /\ s.else_branch # Null => CanonicalStmt(s.else_branch) /\ ~AwaitsElse(s.then_branch)
=============================================================================
