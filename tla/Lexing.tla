------------------------------- MODULE Lexing ------------------------------
(***************************************************************************)
(* Runs of Lexer::scan_tokens, one step per call of scan_one, on all short *)
(* sources over given alphabets; and the lexical grammar stated without a  *)
(* scanner, as the set of texts of each class.                             *)
(***************************************************************************)
EXTENDS Lexer

CONSTANTS Alphabets     \* records: the characters (strings) and how many

VARIABLES lexer,        \* the state of the Lexer
          done          \* scan_tokens has returned

vars == <<lexer, done>>

Concatenation(parts) == FoldLeft(LAMBDA s, c : s \o c, "", parts)

Init ==
  /\ done = FALSE
  /\ \E a \in Alphabets : \E n \in 0 .. a.length : \E s \in [1 .. n -> a.characters] :
       lexer = NewLexer(Concatenation(s))

Scan == ~done /\ ~at_end(lexer) /\ lexer' = scan_one(lexer) /\ UNCHANGED done

Finish == ~done /\ at_end(lexer) /\ lexer' = add_eof(lexer) /\ done' = TRUE

Next == Scan \/ Finish

Spec == Init /\ [][Next]_vars

-----------------------------------------------------------------------------
(***************************************************************************)
(* The texts of each class.                                                *)
(***************************************************************************)
Char(s, i) == SubSeq(s, i, i)
All(s, P(_)) == \A i \in 1 .. Len(s) : P(Char(s, i))

IsBlank(s) == s \in {" ", "\r", "\t", "\n"}
IsComment(s) == Len(s) >= 2 /\ SubSeq(s, 1, 2) = "//" /\ All(s, LAMBDA c : c # "\n")
IsQuoted(s) ==
  /\ Len(s) >= 2 /\ Char(s, 1) = "\"" /\ Char(s, Len(s)) = "\""
  /\ All(SubSeq(s, 2, Len(s) - 1), LAMBDA c : c # "\"")
IsWord(s) == Len(s) >= 1 /\ All(s, is_alnum) /\ is_alpha(Char(s, 1))
IsWhole(s) == Len(s) >= 1 /\ All(s, is_digit)
IsNumeral(s) ==
  \/ IsWhole(s)
  \/ \E i \in 2 .. Len(s) - 1 :
       IsWhole(SubSeq(s, 1, i - 1)) /\ Char(s, i) = "." /\ IsWhole(SubSeq(s, i + 1, Len(s)))
IsPunctuation(s) ==
  s \in DOMAIN Single \union DOMAIN MaybeEqual \union {c \o "=" : c \in DOMAIN MaybeEqual} \union {"/"}

IsLexeme(s) ==
  IsBlank(s) \/ IsComment(s) \/ IsQuoted(s) \/ IsWord(s) \/ IsNumeral(s) \/ IsPunctuation(s)

Rest == SubSeq(lexer.source, lexer.current + 1, Len(lexer.source))

\* Each round takes the longest lexeme the rest of the source starts with; if it
\* starts with none, the round reports an error, adds no token and still moves on, so
\* that the lexer comes to the end of every source, unterminated ones included.
LongestMatch ==
  [][Scan =>
       LET lexemes == {n \in 1 .. Len(Rest) : IsLexeme(SubSeq(Rest, 1, n))}
       IN  IF lexemes = {} THEN lexer'.errors # lexer.errors /\ lexer'.tokens = lexer.tokens
                                 /\ lexer'.current > lexer.current
           ELSE lexer'.current = lexer.current + Max(lexemes)]_vars

\* Two slashes begin a comment, and a comment takes the rest of its line.
SlashesRespected(s, i, j) ==
  /\ SubSeq(s, i + 1, j) = "/" => j = Len(s) \/ Char(s, j + 1) # "/"
  /\ IsComment(SubSeq(s, i + 1, j)) => j = Len(s) \/ Char(s, j + 1) = "\n"

\* Can the source from position i on be cut into lexemes?
RECURSIVE Divides(_, _)
Divides(s, i) ==
  \/ i = Len(s)
  \/ \E j \in i + 1 .. Len(s) :
       IsLexeme(SubSeq(s, i + 1, j)) /\ SlashesRespected(s, i, j) /\ Divides(s, j)

\* Is there a numeral too large or too small for a double?
HasRangeError == \E n \in 1 .. Len(lexer.errors) : lexer.errors[n].message = "invalid number literal"

\* An error is reported exactly for the sources that are not a sequence of lexemes
\* (numerals out of range apart): taking the longest one never leads into a dead
\* end that a shorter one would have avoided.
RejectsExactly ==
  done /\ ~HasRangeError => (lexer.errors = <<>> <=> Divides(lexer.source, 0))

\* Whatever was passed - blanks, comments, strings over several lines, errors - the
\* line number is that of the cursor, so the tokens and errors carry the line they
\* end on.
LinesCounted == lexer.line = 1 + Newlines(SubSeq(lexer.source, 1, lexer.current))

Unlined(tokens) == [i \in 1 .. Len(tokens) |-> [tokens[i] EXCEPT !.line = 0]]

\* Writing the lexemes again, one blank between them, gives the same tokens
\* (lexer_property_test.cpp: "a random sequence of valid tokens, joined by spaces,
\* lexes back to exactly that kind sequence"): no token depends on its neighbours,
\* on comments or on layout, and no lexeme misses a part of its text.
LayoutIsIrrelevant ==
  done /\ lexer.errors = <<>> =>
    LET again == scan_tokens(Concatenation([i \in 1 .. Len(lexer.tokens) |-> lexer.tokens[i].lexeme \o " "]))
    IN  again.errors = <<>> /\ Unlined(again.tokens) = Unlined(lexer.tokens)
=============================================================================
