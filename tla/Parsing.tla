------------------------------ MODULE Parsing ------------------------------
(***************************************************************************)
(* Runs of Parser::parse, one step per round of its loop: a declaration is *)
(* parsed and kept, or its error is recorded and synchronize finds the     *)
(* place to go on.  The sources are all sentences of a few words over      *)
(* given vocabularies, right and wrong ones alike.                         *)
(***************************************************************************)
EXTENDS Parser

CONSTANTS Vocabularies, \* records: the words (token sequences), how many, and a last one
          Listed        \* further sources

VARIABLES parser,       \* the state of the Parser
          statements    \* the result of parse() so far

vars == <<parser, statements>>

G == INSTANCE Grammar

\* The tokens the lexer hands over always end with Eof.
Eof == [kind |-> "Eof", lexeme |-> "", literal |-> Nil, line |-> 1]

Starts(tokens) == parser = NewParser(Append(tokens, Eof))

Init ==
  /\ statements = <<>>
  /\ \/ \E tokens \in Listed : Starts(tokens)
     \/ \E v \in Vocabularies : \E n \in 0 .. v.length : \E sentence \in [1 .. n -> v.words] :
          Starts(FlattenSeq(sentence) \o v.last)

Round ==
  LET r == parse_round([p |-> parser, statements |-> statements])
  IN  parser' = r.p /\ statements' = r.statements

\* declaration() returns a statement ...
Declare == ~at_end(parser) /\ Round /\ parser'.errors = parser.errors

\* ... or throws.
Recover == ~at_end(parser) /\ Round /\ parser'.errors # parser.errors

Next == Declare \/ Recover

Spec == Init /\ [][Next]_vars

-----------------------------------------------------------------------------
Source == Front(parser.tokens)
Kinds == [i \in 1 .. Len(Source) |-> Source[i].kind]
Done == at_end(parser)

\* A program is accepted exactly when it can be derived from the grammar of
\* docs/grammar.md and no parameter or argument list is longer than the limit.
AcceptsGrammar == Done => (parser.errors = <<>> <=> G!Program(Kinds))

\* Does s have a token of that kind?
Has(s, kinds) == \E i \in 1 .. Len(s) : s[i].kind \in kinds

Texts(s) == [i \in 1 .. Len(s) |-> G!Text(s[i])]

\* The first index from n on at which s has a token of that kind.
First(s, n, kind) == Min({i \in n .. Len(s) : s[i].kind = kind})

\* for (I C; E) S written with while; a is the end of I, b of C, c of E.
Unrolled(s, a, b, c) ==
  LET t == Texts(s)
      cond == SubSeq(t, a + 1, b - 1)
      incr == SubSeq(t, b + 1, c - 1)
      body == SubSeq(t, c + 1, Len(t))
      loop == G!K("While") \o G!K("LeftParen") \o (IF cond = <<>> THEN G!K("True") ELSE cond)
                \o G!K("RightParen")
                \o (IF incr = <<>> THEN body
                    ELSE G!K("LeftBrace") \o body \o incr \o G!K("Semicolon") \o G!K("RightBrace"))
  IN  IF a = 3 THEN loop ELSE G!K("LeftBrace") \o SubSeq(t, 3, a) \o loop \o G!K("RightBrace")

\* The source without its for loop: the text of s, if s is one for statement whose
\* clauses have no parentheses then with the loop written out.
WithoutFor(s) ==
  IF ~Has(s, {"For"}) THEN Texts(s)
  ELSE Unrolled(s, First(s, 1, "Semicolon"), First(s, First(s, 1, "Semicolon") + 1, "Semicolon"),
                First(s, 1, "RightParen"))

\* The tree of an accepted program says what the text says: spelled out it is the
\* program, token for token (for loops as the while loops they stand for), every
\* operand binds as tightly as its place requires, and an else belongs to the
\* nearest if.  Spelling and binding together leave one possible tree.
TreeIsTheText ==
  Done /\ parser.errors = <<>> =>
    G!Spell(statements) = WithoutFor(Source) /\ G!CanonicalStmts(statements)

\* What parse makes of the tokens i .. j alone, with the errors' tokens counted
\* as in the whole source.
Part(i, j) ==
  LET r == parse(Append(SubSeq(Source, i, j), Eof))
  IN  [statements |-> r.statements,
       errors |-> [n \in 1 .. Len(r.errors) |-> [r.errors[n] EXCEPT !.token = @ + i - 1]]]

\* The whole is its two parts.
Splits(k) ==
  LET left == Part(1, k)
      right == Part(k + 1, Len(Source))
  IN  /\ statements = left.statements \o right.statements
      /\ parser.errors = left.errors \o right.errors

\* An error is confined to its statement (parser.h: "the offending statement is
\* skipped via synchronization and parsing continues so that all errors are
\* reported together"): where semicolons do nothing but end statements, the
\* statements and the errors on either side of one are those found without the
\* other side, damaged or not.
SemicolonsSeparate ==
  Done /\ ~Has(Source, {"For", "Else", "LeftBrace", "RightBrace"}) =>
    \A k \in 1 .. Len(Source) : Source[k].kind = "Semicolon" => Splits(k)

\* Errors come in the order of the source, at most one per token: recovery never
\* goes back, and no token is complained about twice.
ErrorsInOrder ==
  \A n \in 1 .. Len(parser.errors) - 1 : parser.errors[n].token < parser.errors[n + 1].token

\* The parser does not hang (parser_fuzz.cpp: "must never crash, hang, or trip a
\* sanitizer on any input"): every round of the loop consumes a token, also when the
\* declaration failed at its first one or the recovery found a boundary at once.
RoundsAdvance ==
  ~Done => parse_round([p |-> parser, statements |-> statements]).p.current > parser.current

\* docs/grammar.md: the parser "synchronizes to the next statement boundary (a `;`
\* or a leading keyword) so a single source file can surface multiple independent
\* errors in one pass".  Two statements, each wrong by itself, the second at a
\* leading keyword, are two errors.
IndependentErrorsSurface ==
  Done => \A k \in 1 .. Len(Source) - 1 :
    /\ Source[k + 1].kind \in LeadingKeywords
    /\ Part(1, k).errors # <<>>
    /\ Part(k + 1, Len(Source)).errors # <<>>
    => Len(parser.errors) > 1
=============================================================================
