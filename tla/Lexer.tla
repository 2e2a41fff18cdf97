------------------------------- MODULE Lexer -------------------------------
(***************************************************************************)
(* The lexer (lexer/lexer.cpp) as operators on its state.  The source is a *)
(* string, that is, a sequence of characters; start and current count the  *)
(* characters before a position, as the indices of the C++ code do.  A     *)
(* number literal is the decimal it denotes: num when it is a whole        *)
(* number, dec (a mantissa and its power of ten) otherwise.                *)
(***************************************************************************)
EXTENDS Ast, SequencesExt

CONSTANTS MaxDouble,    \* largest double: about 1.8 * 10^308 in the build
          MinInverse    \* its counterpart near zero: 1 / the smallest double

ASSUME RangeAssumption == MaxDouble \in Nat /\ MinInverse \in Nat

-----------------------------------------------------------------------------
(***************************************************************************)
(* Characters.                                                             *)
(***************************************************************************)
Letters ==
  { "a", "b", "c", "d", "e", "f", "g", "h", "i", "j", "k", "l", "m", "n", "o", "p", "q", "r", "s",
    "t", "u", "v", "w", "x", "y", "z", "A", "B", "C", "D", "E", "F", "G", "H", "I", "J", "K", "L",
    "M", "N", "O", "P", "Q", "R", "S", "T", "U", "V", "W", "X", "Y", "Z" }
Digits == << "0", "1", "2", "3", "4", "5", "6", "7", "8", "9" >>

is_alpha(c) == c \in Letters \union {"_"}
is_digit(c) == c \in Range(Digits)
is_alnum(c) == is_alpha(c) \/ is_digit(c)

keywords ==
  [and |-> "And", class |-> "Class", else |-> "Else", false |-> "False", for |-> "For",
   fun |-> "Fun", if |-> "If", nil |-> "Nil", or |-> "Or", print |-> "Print",
   return |-> "Return", super |-> "Super", this |-> "This", true |-> "True", var |-> "Var",
   while |-> "While"]

\* Punctuation that is a token by itself, and the kinds of what may be followed by '='.
Single ==
  ("(" :> "LeftParen") @@ (")" :> "RightParen") @@ ("{" :> "LeftBrace") @@ ("}" :> "RightBrace")
    @@ ("," :> "Comma") @@ ("." :> "Dot") @@ ("-" :> "Minus") @@ ("+" :> "Plus")
    @@ (";" :> "Semicolon") @@ ("*" :> "Star")
MaybeEqual ==
  ("!" :> << "Bang", "BangEqual" >>) @@ ("=" :> << "Equal", "EqualEqual" >>)
    @@ ("<" :> << "Less", "LessEqual" >>) @@ (">" :> << "Greater", "GreaterEqual" >>)

-----------------------------------------------------------------------------
(***************************************************************************)
(* State and cursor.                                                       *)
(***************************************************************************)
NewLexer(source) ==
  [source |-> source, tokens |-> <<>>, errors |-> <<>>, start |-> 0, current |-> 0, line |-> 1]

\* substr(from, to - from)
Text(l, from, to) == SubSeq(l.source, from + 1, to)

at_end(l) == l.current >= Len(l.source)

\* The character n places after the cursor: peek (0) and peek_next (1).
look(l, n) == IF l.current + n >= Len(l.source) THEN "NUL" ELSE Text(l, l.current + n, l.current + n + 1)
peek(l) == look(l, 0)

to(l, n) == [l EXCEPT !.current = n]
advance(l) == to(l, l.current + 1)

Token(kind, lexeme, literal, line) ==
  [kind |-> kind, lexeme |-> lexeme, literal |-> literal, line |-> line]

add(l, kind, literal) ==
  [l EXCEPT !.tokens = Append(@, Token(kind, Text(l, l.start, l.current), literal, l.line))]

error(l, message) == [l EXCEPT !.errors = Append(@, [line |-> l.line, message |-> message])]

\* The first position at or after the cursor where Stop holds: where the loops
\* 'while (!at_end() && !Stop) advance()' end.
Until(l, Stop(_)) ==
  Min({n \in l.current .. Len(l.source) : n = Len(l.source) \/ Stop(Text(l, n, n + 1))})

-----------------------------------------------------------------------------
(***************************************************************************)
(* Token classes.                                                          *)
(***************************************************************************)
Newlines(text) == Cardinality({i \in 1 .. Len(text) : SubSeq(text, i, i) = "\n"})

\* Mutant: newlines inside a string are not counted.
close_string_same_line(l, end) ==
  IF end = Len(l.source) THEN error(to(l, end), "unterminated string")
  ELSE add(to(l, end + 1), "String", Str(Text(l, l.current, end)))

\* Mutant: the end of the source ends a string.
close_string_at_end(l, end) ==
  add(to([l EXCEPT !.line = @ + Newlines(Text(l, l.current, end))], Min({end + 1, Len(l.source)})),
      "String", Str(Text(l, l.current, end)))

\* string_literal, once the loop has found the closing quote or the end there.
\* The newlines passed have been counted.
close_string(l, end) ==
  LET m == [to(l, end) EXCEPT !.line = @ + Newlines(Text(l, l.current, end))]
  IN  IF end = Len(l.source) THEN error(m, "unterminated string")
      ELSE add(to(m, end + 1), "String", Str(Text(l, l.current, end)))
string_literal(l) == close_string(l, Until(l, LAMBDA c : c = "\""))

\* std::stod: the digits as a mantissa, the point as a power of ten; it throws when
\* the value is beyond the doubles.
DigitValue(c) == CHOOSE d \in 0 .. 9 : Digits[d + 1] = c
Power(n) == FoldLeft(LAMBDA p, i : p * 10, 1, [i \in 1 .. n |-> i])
Mantissa(text) ==
  FoldLeft(LAMBDA v, i : IF SubSeq(text, i, i) = "." THEN v ELSE 10 * v + DigitValue(SubSeq(text, i, i)),
           0, [i \in 1 .. Len(text) |-> i])
Places(text) ==
  LET point == {i \in 1 .. Len(text) : SubSeq(text, i, i) = "."}
  IN  IF point = {} THEN 0 ELSE Len(text) - Max(point)
OutOfRange(m, places) ==
  m > MaxDouble * Power(places) \/ (m > 0 /\ m * MinInverse < Power(places))
Decimal(m, places) ==
  LET zeros == Max({z \in 0 .. places : m % Power(z) = 0})
  IN  IF zeros = places THEN Num(m \div Power(places))
      ELSE << "dec", << m \div Power(zeros), places - zeros >> >>

add_number(l, m, places) ==
  IF OutOfRange(m, places) THEN error(l, "invalid number literal")
  ELSE add(l, "Number", Decimal(m, places))
convert(l, text) == add_number(l, Mantissa(text), Places(text))

\* Mutant: a point is taken into the number whatever follows it.
fraction_greedy(l) ==
  IF look(l, 0) = "." THEN to(advance(l), Until(advance(l), LAMBDA c : ~is_digit(c))) ELSE l

\* The point and the digits after it, if a digit follows the point.
fraction(l) ==
  IF look(l, 0) = "." /\ is_digit(look(l, 1))
  THEN to(l, Until(advance(l), LAMBDA c : ~is_digit(c))) ELSE l
number_literal(l) ==
  LET m == fraction(to(l, Until(l, LAMBDA c : ~is_digit(c))))
  IN  convert(m, Text(m, m.start, m.current))

add_word(l, text) ==
  IF text \notin DOMAIN keywords THEN add(l, "Identifier", Nil)
  ELSE add(l, keywords[text], IF text \in {"true", "false"} THEN Bool(text = "true") ELSE Nil)
identifier(l) ==
  LET m == to(l, Until(l, LAMBDA c : ~is_alnum(c)))
  IN  add_word(m, Text(m, m.start, m.current))

-----------------------------------------------------------------------------
(***************************************************************************)
(* The dispatch on the first character, and the whole source.              *)
(***************************************************************************)
\* Mutant: match does not move past the '='.
add_operator_kept(l, kinds) == add(l, kinds[IF peek(l) = "=" THEN 2 ELSE 1], Nil)

\* add(match('=') ? kinds[2] : kinds[1])
add_operator(l, kinds) ==
  IF peek(l) = "=" THEN add(advance(l), kinds[2], Nil) ELSE add(l, kinds[1], Nil)

\* l is past c, the first character of the lexeme.
scan_from(l, c) ==
  CASE c \in DOMAIN Single -> add(l, Single[c], Nil)
    [] c \in DOMAIN MaybeEqual ->
         add_operator(l, MaybeEqual[c])
    [] c = "/" -> IF peek(l) = "/" THEN to(l, Until(l, LAMBDA d : d = "\n")) ELSE add(l, "Slash", Nil)
    [] c \in {" ", "\r", "\t"} -> l
    [] c = "\n" -> [l EXCEPT !.line = @ + 1]
    [] c = "\"" -> string_literal(l)
    [] is_digit(c) -> number_literal(l)
    [] is_alpha(c) -> identifier(l)
    [] OTHER -> error(l, "unexpected character")

\* One round of the loop of scan_tokens.
scan_one(l) == scan_from(advance([l EXCEPT !.start = l.current]), peek(l))

\* After the loop.
add_eof(l) == [l EXCEPT !.tokens = Append(@, Token("Eof", "", Nil, l.line))]

RECURSIVE scan_rounds(_)
scan_rounds(l) == IF at_end(l) THEN add_eof(l) ELSE scan_rounds(scan_one(l))
scan_tokens(source) == scan_rounds(NewLexer(source))
=============================================================================
