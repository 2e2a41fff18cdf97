------------------------------- MODULE Parser ------------------------------
(***************************************************************************)
(* The recursive-descent parser (parser/parser.cpp) as operators on its    *)
(* state: the tokens, the cursor current_ (0-based, as in the source), the *)
(* errors, the node the method just run has returned, and whether a        *)
(* ParseAbort is in flight.  An error is the index of its token, which     *)
(* carries the line, and the message.  Every method of the class is an     *)
(* operator; the six left-associative levels, which differ in their token  *)
(* kinds and node only, are one operator over the table Ladder.            *)
(***************************************************************************)
EXTENDS Ast, SequencesExt

CONSTANT MaxArguments   \* most parameters or arguments: 255 in the source

ASSUME MaxArgumentsAssumption == MaxArguments \in Nat /\ MaxArguments > 0

-----------------------------------------------------------------------------
(***************************************************************************)
(* The token cursor.                                                       *)
(***************************************************************************)
NewParser(tokens) ==
  [tokens |-> tokens, current |-> 0, errors |-> <<>>, node |-> Null, abort |-> FALSE]

peek(p) == p.tokens[p.current + 1]
previous(p) == p.tokens[p.current]
at_end(p) == peek(p).kind = "Eof"
advance(p) == IF at_end(p) THEN p ELSE [p EXCEPT !.current = @ + 1]

\* check, for any of several kinds; the advance of match is written where it happens.
check(p, kinds) == peek(p).kind \in kinds

\* error(tokens_[at], message): records it and throws ParseAbort.
error(p, at, message) ==
  [p EXCEPT !.errors = Append(@, [token |-> at, message |-> message]), !.abort = TRUE]
error_at_peek(p, message) == error(p, p.current, message)

consume(p, kind, message) ==
  IF check(p, {kind}) THEN advance(p) ELSE error_at_peek(p, message)

\* What follows once p is there, unless it is unwinding.  The choice is that of the
\* only value there is: it makes TLC evaluate p first.
Then(p, Rest(_)) == CHOOSE r \in {IF q.abort THEN q ELSE Rest(q) : q \in {p}} : TRUE

Returns(p, node) == [p EXCEPT !.node = node]

\* consume(Identifier, message), returning the name.
consume_name(p, message) ==
  Then(consume(p, "Identifier", message), LAMBDA q : Returns(q, previous(q).lexeme))

-----------------------------------------------------------------------------
(***************************************************************************)
(* Expressions.                                                            *)
(***************************************************************************)
\* Mutant: comparison is entered below term, as if it bound tighter.
Ladder_swapped ==
  << {"Or"}, {"And"}, {"BangEqual", "EqualEqual"},
     {"Minus", "Plus"}, {"Greater", "GreaterEqual", "Less", "LessEqual"}, {"Slash", "Star"} >>

Ladder ==
  << {"Or"}, {"And"}, {"BangEqual", "EqualEqual"},
     {"Greater", "GreaterEqual", "Less", "LessEqual"}, {"Minus", "Plus"}, {"Slash", "Star"} >>

RECURSIVE expression(_), binary(_, _), binary_rest(_, _), unary(_), suffixes(_), arguments(_, _)

InfixNode(left, op, right) ==
  IF op \in {"Or", "And"} THEN Logical(left, op, right) ELSE Binary(left, op, right)

\* primary: a token that is an expression by itself.
AtomKinds == {"False", "True", "Nil", "Number", "String", "This", "Identifier"}
AtomNode(token) ==
  CASE token.kind \in {"False", "True"} -> Literal(Bool(token.kind = "True"))
    [] token.kind = "Nil" -> Literal(Nil)
    [] token.kind \in {"Number", "String"} -> Literal(token.literal)
    [] token.kind = "This" -> This
    [] token.kind = "Identifier" -> Variable(token.lexeme)

primary(p) ==
  CASE check(p, AtomKinds) -> Returns(advance(p), AtomNode(peek(p)))
    [] check(p, {"Super"}) ->
         Then(consume(advance(p), "Dot", "expected '.' after 'super'"), LAMBDA q :
           Then(consume_name(q, "expected superclass method name"), LAMBDA r :
             Returns(r, Super(r.node))))
    [] check(p, {"LeftParen"}) -> Then(expression(advance(p)), LAMBDA q :
         Then(consume(q, "RightParen", "expected ')' after expression"), LAMBDA r :
           Returns(r, Grouping(q.node))))
    [] OTHER -> error_at_peek(p, "expected expression")

\* Mutant: the limit is tested after the argument was pushed.
arguments_late(p, args) ==
  Then(expression(p), LAMBDA q :
    CASE Len(args) > MaxArguments -> error_at_peek(q, "cannot have more than 255 arguments")
      [] Len(args) <= MaxArguments /\ check(q, {"Comma"}) ->
           arguments(advance(q), Append(args, q.node))
      [] OTHER -> Returns(q, Append(args, q.node)))

\* The do loop of finish_call, with the arguments so far.
arguments(p, args) ==
  IF Len(args) >= MaxArguments
  THEN error_at_peek(p, "cannot have more than 255 arguments")
  ELSE Then(expression(p), LAMBDA q :
         IF check(q, {"Comma"}) THEN arguments(advance(q), Append(args, q.node))
         ELSE Returns(q, Append(args, q.node)))

finish_call(p, callee) ==
  Then(IF check(p, {"RightParen"}) THEN Returns(p, <<>>) ELSE arguments(p, <<>>), LAMBDA q :
    Then(consume(q, "RightParen", "expected ')' after arguments"), LAMBDA r :
      Returns(r, CallExpr(callee, q.node))))

\* The loop of call, with the expression so far in p.node.
suffixes(p) ==
  CASE check(p, {"LeftParen"}) -> Then(finish_call(advance(p), p.node), LAMBDA q : suffixes(q))
    [] check(p, {"Dot"}) ->
         Then(consume_name(advance(p), "expected property name after '.'"), LAMBDA q :
           suffixes(Returns(q, Get(p.node, q.node))))
    [] OTHER -> p

call(p) == Then(primary(p), LAMBDA q : suffixes(q))

unary(p) ==
  IF check(p, {"Bang", "Minus"})
  THEN Then(unary(advance(p)), LAMBDA q : Returns(q, Unary(peek(p).kind, q.node)))
  ELSE call(p)

\* The loop of a level, with the left operand so far in p.node ...
binary_rest(p, level) ==
  IF check(p, Ladder[level])
  THEN Then(binary(advance(p), level + 1), LAMBDA q :
         binary_rest(Returns(q, InfixNode(p.node, peek(p).kind, q.node)), level))
  ELSE p

\* ... and the level: logic_or (1) down to factor (6).
binary(p, level) ==
  IF level > Len(Ladder) THEN unary(p)
  ELSE Then(binary(p, level + 1), LAMBDA q : binary_rest(q, level))

\* assignment: the target is parsed as an expression and looked at afterwards.
assignment(p) ==
  Then(binary(p, 1), LAMBDA left :
    IF ~check(left, {"Equal"}) THEN left
    ELSE Then(expression(advance(left)), LAMBDA value :
      CASE left.node.k = "Variable" -> Returns(value, Assign(left.node.name, value.node))
        [] left.node.k = "Get" ->
             Returns(value, SetExpr(left.node.object, left.node.name, value.node))
        [] OTHER -> error(value, left.current, "invalid assignment target")))

expression(p) == assignment(p)

-----------------------------------------------------------------------------
(***************************************************************************)
(* Statements.                                                             *)
(***************************************************************************)
RECURSIVE declaration(_), statement(_), declarations(_, _), parameters(_, _), methods(_, _)

\* The loop of block, with the statements so far ...
declarations(p, stmts) ==
  IF check(p, {"RightBrace", "Eof"}) THEN Returns(p, stmts)
  ELSE Then(declaration(p), LAMBDA q : declarations(q, Append(stmts, q.node)))

\* ... and the block, whose '{' has been consumed.
block(p) ==
  Then(declarations(p, <<>>), LAMBDA q :
    Then(consume(q, "RightBrace", "expected '}' after block"), LAMBDA r : Returns(r, q.node)))

\* The do loop of function_statement, with the parameters so far.
parameters(p, params) ==
  IF Len(params) >= MaxArguments
  THEN error_at_peek(p, "cannot have more than 255 parameters")
  ELSE Then(consume_name(p, "expected parameter name"), LAMBDA q :
         IF check(q, {"Comma"}) THEN parameters(advance(q), Append(params, q.node))
         ELSE Returns(q, Append(params, q.node)))

function_statement(p) ==
  Then(consume_name(p, "expected name"), LAMBDA name :
  Then(consume(name, "LeftParen", "expected '(' after name"), LAMBDA q :
  Then(IF check(q, {"RightParen"}) THEN Returns(q, <<>>) ELSE parameters(q, <<>>), LAMBDA params :
  Then(consume(params, "RightParen", "expected ')' after parameters"), LAMBDA r :
  Then(consume(r, "LeftBrace", "expected '{' before body"), LAMBDA s :
  Then(block(s), LAMBDA body : Returns(body, Fun(name.node, params.node, body.node))))))))

\* The loop of class_declaration, with the methods so far.
methods(p, ms) ==
  IF check(p, {"RightBrace", "Eof"}) THEN Returns(p, ms)
  ELSE Then(function_statement(p), LAMBDA q : methods(q, Append(ms, q.node)))

class_declaration(p) ==
  Then(consume_name(p, "expected class name"), LAMBDA name :
  Then(IF check(name, {"Less"}) THEN consume_name(advance(name), "expected superclass name")
       ELSE Returns(name, ""), LAMBDA superclass :
  Then(consume(superclass, "LeftBrace", "expected '{' before class body"), LAMBDA q :
  Then(methods(q, <<>>), LAMBDA ms :
  Then(consume(ms, "RightBrace", "expected '}' after class body"), LAMBDA r :
    Returns(r, Class(name.node, superclass.node, ms.node)))))))

var_declaration(p) ==
  Then(consume_name(p, "expected variable name"), LAMBDA name :
  Then(IF check(name, {"Equal"}) THEN expression(advance(name)) ELSE Returns(name, Null), LAMBDA q :
  Then(consume(q, "Semicolon", "expected ';' after variable declaration"), LAMBDA r :
    Returns(r, VarStmt(name.node, q.node)))))

expression_statement(p) ==
  Then(expression(p), LAMBDA q :
    Then(consume(q, "Semicolon", "expected ';' after expression"), LAMBDA r :
      Returns(r, ExprStmt(q.node))))

print_statement(p) ==
  Then(expression(p), LAMBDA q :
    Then(consume(q, "Semicolon", "expected ';' after value"), LAMBDA r :
      Returns(r, PrintStmt(q.node))))

return_statement(p) ==
  Then(IF check(p, {"Semicolon"}) THEN Returns(p, Null) ELSE expression(p), LAMBDA q :
    Then(consume(q, "Semicolon", "expected ';' after return value"), LAMBDA r :
      Returns(r, Return(q.node))))

\* '(' expression ')' of if and while, returning the expression.
condition(p) ==
  Then(consume(p, "LeftParen", "expected '(' before condition"), LAMBDA q :
  Then(expression(q), LAMBDA r :
  Then(consume(r, "RightParen", "expected ')' after condition"), LAMBDA s :
    Returns(s, r.node))))

if_statement(p) ==
  Then(condition(p), LAMBDA cond :
  Then(statement(cond), LAMBDA then :
  Then(IF check(then, {"Else"}) THEN statement(advance(then)) ELSE Returns(then, Null), LAMBDA else :
    Returns(else, IfStmt(cond.node, then.node, else.node)))))

while_statement(p) ==
  Then(condition(p), LAMBDA cond :
    Then(statement(cond), LAMBDA body : Returns(body, While(cond.node, body.node))))

\* The end of for_statement: the four parts as a while loop.
desugar_for(initializer, cond, increment, body) ==
  LET once == IF increment = Null THEN body ELSE Block(<< body, ExprStmt(increment) >>)
      loop == While(IF cond = Null THEN Literal(Bool(TRUE)) ELSE cond, once)
  IN  IF initializer = Null THEN loop ELSE Block(<< initializer, loop >>)

for_initializer(p) ==
  CASE check(p, {"Semicolon"}) -> Returns(advance(p), Null)
    [] check(p, {"Var"}) -> var_declaration(advance(p))
    [] OTHER -> expression_statement(p)

for_statement(p) ==
  Then(consume(p, "LeftParen", "expected '(' after 'for'"), LAMBDA q :
  Then(for_initializer(q), LAMBDA init :
  Then(IF check(init, {"Semicolon"}) THEN Returns(init, Null) ELSE expression(init), LAMBDA cond :
  Then(consume(cond, "Semicolon", "expected ';' after loop condition"), LAMBDA r :
  Then(IF check(r, {"RightParen"}) THEN Returns(r, Null) ELSE expression(r), LAMBDA incr :
  Then(consume(incr, "RightParen", "expected ')' after for clauses"), LAMBDA s :
  Then(statement(s), LAMBDA body :
    Returns(body, desugar_for(init.node, cond.node, incr.node, body.node)))))))))

statement(p) ==
  CASE check(p, {"If"})        -> if_statement(advance(p))
    [] check(p, {"While"})     -> while_statement(advance(p))
    [] check(p, {"For"})       -> for_statement(advance(p))
    [] check(p, {"Print"})     -> print_statement(advance(p))
    [] check(p, {"Return"})    -> return_statement(advance(p))
    [] check(p, {"LeftBrace"}) -> Then(block(advance(p)), LAMBDA q : Returns(q, Block(q.node)))
    [] OTHER -> expression_statement(p)

declaration(p) ==
  CASE check(p, {"Class"}) -> class_declaration(advance(p))
    [] check(p, {"Fun"})   -> function_statement(advance(p))
    [] check(p, {"Var"})   -> var_declaration(advance(p))
    [] OTHER -> statement(p)

-----------------------------------------------------------------------------
(***************************************************************************)
(* Error recovery and the whole program.                                   *)
(***************************************************************************)
LeadingKeywords == {"Class", "Fun", "Var", "For", "If", "While", "Print", "Return"}

\* synchronize stops with the cursor at c: the token before it ends a statement, or
\* the token there starts one or is the last.
StopsAt(tokens, c) ==
  \/ tokens[c + 1].kind \in LeadingKeywords \union {"Eof"}
  \/ c > 0 /\ tokens[c].kind = "Semicolon"

\* Mutant: the token at the cursor is looked at before it is skipped.
synchronize_in_place(p) ==
  [p EXCEPT !.current = Min({c \in @ .. Len(p.tokens) - 1 : StopsAt(p.tokens, c)}), !.abort = FALSE]

\* Mutant: a semicolon is not a boundary.
synchronize_to_keyword(p) ==
  [p EXCEPT !.abort = FALSE, !.current =
     Min({c \in advance(p).current .. Len(p.tokens) - 1 :
            p.tokens[c + 1].kind \in LeadingKeywords \union {"Eof"}})]

synchronize(p) ==
  [p EXCEPT !.current = Min({c \in advance(p).current .. Len(p.tokens) - 1 : StopsAt(p.tokens, c)}),
            !.abort = FALSE]

\* Mutant: after a failure the declaration is tried again from its first token.
after_declaration_again(r, q) ==
  IF q.abort THEN r ELSE [p |-> q, statements |-> Append(r.statements, q.node)]

\* One round of the loop of parse, on the parser and the statements so far.
after_declaration(r, q) ==
  IF q.abort THEN [r EXCEPT !.p = synchronize(q)]
  ELSE [p |-> q, statements |-> Append(r.statements, q.node)]
parse_round(r) == after_declaration(r, declaration(r.p))

RECURSIVE parse_rounds(_)
parse_rounds(r) == IF at_end(r.p) THEN r ELSE parse_rounds(parse_round(r))

NewParse(tokens) == [p |-> NewParser(tokens), statements |-> <<>>]

\* What parse() and errors() return.
ParseResult(r) == [statements |-> r.statements, errors |-> r.p.errors]
parse(tokens) == ParseResult(parse_rounds(NewParse(tokens)))
=============================================================================
