----------------------------- MODULE MCParsing -----------------------------
(***************************************************************************)
(* Sources for the parser.  Words are single tokens where expressions are  *)
(* explored, and phrases where statements are.                             *)
(***************************************************************************)
EXTENDS Parsing

T(kind) == [kind |-> kind, lexeme |-> kind, literal |-> Nil, line |-> 1]
Id(n) == [T("Identifier") EXCEPT !.lexeme = n]
One == [T("Number") EXCEPT !.literal = Num(1)]
Text == [T("String") EXCEPT !.literal = Str("s")]

Words(kinds) == { << T(k) >> : k \in kinds }
x == << Id("x") >>
y == << Id("y") >>
Semi == << T("Semicolon") >>
Paren(e) == << T("LeftParen") >> \o e \o << T("RightParen") >>

\* Every token that can be in an expression, in short sentences ...
AllOperators ==
  [words |-> {x, << One >>, << Text >>}
               \union Words({"True", "False", "Nil", "This", "Super", "Dot", "LeftParen", "RightParen",
                             "Comma", "Bang", "Minus", "Plus", "Star", "Slash", "Less", "LessEqual",
                             "Greater", "GreaterEqual", "EqualEqual", "BangEqual", "And", "Or", "Equal"}),
   length |-> 3, last |-> Semi]

\* ... the ladder in longer ones ...
Precedence ==
  [words |-> { x \o << T(op) >> : op \in {"Or", "And", "EqualEqual", "Less", "Minus", "Star", "Equal"} }
               \union Words({"Bang", "Minus"}),
   length |-> 4, last |-> x \o Semi]

\* ... and calls, properties, parentheses and argument lists up to and past the limit.
CallChains ==
  [words |-> { x, << T("LeftParen") >>, x \o << T("LeftParen") >>, << T("RightParen") >>,
               << T("Dot") >> \o x, << T("Comma") >> \o y, << T("Equal") >> \o y },
   length |-> 5, last |-> Semi]

\* Phrases: if (x), while (x), else, x;, y =, print, return, var x, braces, stray tokens.
Control ==
  [words |-> { << T("If") >> \o Paren(x), << T("While") >> \o Paren(y), << T("Else") >>,
               x \o Semi, << T("Return") >>, << T("Var") >> \o x, << T("Equal") >> \o y, Semi,
               << T("LeftBrace") >>, << T("RightBrace") >> },
   length |-> 4, last |-> <<>>]

DanglingElse ==
  [words |-> { << T("If") >> \o Paren(x), << T("While") >> \o Paren(y), << T("Else") >>, x \o Semi },
   length |-> 6, last |-> <<>>]

\* Functions and classes.
Definitions ==
  [words |-> { << T("Fun") >>, << T("Class") >> \o x, << T("Less") >> \o y, x \o Paren(<<>>),
               << T("LeftBrace") >>, << T("RightBrace") >> },
   length |-> 5, last |-> <<>>]

Parameters ==
  [words |-> { << T("Fun") >> \o x, << T("LeftParen") >>, x, << T("Comma") >> \o y,
               << T("RightParen"), T("LeftBrace") >>, << T("RightBrace") >> },
   length |-> 5, last |-> << T("RightBrace") >>]

\* Statements, most of them damaged, one after the other.
Damaged ==
  [words |-> { x \o Semi, << T("Print") >> \o x \o Semi, << T("Print") >> \o Semi,
               << T("Var") >> \o x, << T("Var") >> \o Semi, x \o << T("Equal") >>,
               << One, T("Equal"), One >> \o Semi, << T("Fun") >> \o x \o Semi, Semi, << T("RightParen") >> },
   length |-> 4, last |-> Semi]

\* class x < y { x() {} y() {} }, and with its parts in the wrong order
Subclasses ==
  { << T("Class") >> \o x \o a \o b \o c \o << T("RightBrace") >> :
      a, b, c \in { << T("Less") >> \o y, << T("LeftBrace") >>,
                    x \o Paren(<<>>) \o << T("LeftBrace"), T("RightBrace") >> } }

\* for ([I]; [C]; [E]) S with every combination of clauses, and wrong ones.
ForLoops ==
  { << T("For"), T("LeftParen") >> \o init \o cond \o Semi \o incr \o << T("RightParen") >> \o body :
      init \in { Semi, << T("Var") >> \o x \o Semi, << T("Var") >> \o x \o << T("Equal"), One >> \o Semi,
                 x \o << T("Equal") >> \o y \o Semi, x },
      cond \in { <<>>, x, x \o << T("Less") >> \o y, << T("Var") >> },
      incr \in { <<>>, x, x \o << T("Equal") >> \o y, x \o Semi },
      body \in { x \o Semi, << T("Print") >> \o x \o Semi, << T("LeftBrace"), T("RightBrace") >>,
                 << T("If") >> \o Paren(x) \o y \o Semi \o << T("Else") >> \o x \o Semi,
                 << T("Var") >> \o x \o Semi } }

MCListed == Subclasses \union ForLoops

\* Any two tokens.
AnyTokens ==
  [words |-> {x, << One >>, << Text >>} \union Words({
    "LeftParen", "RightParen", "LeftBrace", "RightBrace", "Comma", "Dot", "Minus", "Plus", "Semicolon",
    "Slash", "Star", "Bang", "BangEqual", "Equal", "EqualEqual", "Greater", "GreaterEqual", "Less",
    "LessEqual", "And", "Class", "Else", "False", "Fun", "For", "If",
    "Nil", "Or", "Print", "Return", "Super", "This", "True", "Var", "While" }),
   length |-> 2, last |-> <<>>]

MCVocabularies ==
  { AllOperators, Precedence, CallChains, Control, DanglingElse, Definitions, Parameters, Damaged, AnyTokens }

-----------------------------------------------------------------------------
\* Statements without their semicolons, for the claim about leading keywords.
KeywordVocabularies ==
  { [words |-> { << T("Print") >>, << T("Var") >> \o x, x, << One >> }, length |-> 4, last |-> Semi] }
=============================================================================
