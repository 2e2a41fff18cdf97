------------------------------ MODULE MCLexing -----------------------------
(***************************************************************************)
(* Alphabets: one that reaches every token class with few characters, and  *)
(* smaller ones for longer sources (numbers with points, comments and      *)
(* strings across lines, keywords and their neighbours).                   *)
(***************************************************************************)
EXTENDS Lexing

Mixed ==
  [characters |-> { "o", "r", "1", ".", "\"", "\n", "/", "=", "!", " ", "#", ";" }, length |-> 4]
Points == [characters |-> { "0", "1", "9", ".", "=" }, length |-> 6]
LinesAndQuotes == [characters |-> { "\"", "\n", "/", "x" }, length |-> 7]
Words ==
  [characters |-> { "and", "class", "else", "false", "for", "fun", "if", "nil", "or", "print", "return",
                    "super", "this", "true", "var", "while", "_", "X", "7", " ", "\t", "\r" },
   length |-> 2]
Punctuation ==
  [characters |-> { "(", ")", "{", "}", ",", ".", "-", "+", ";", "*", "!", "=", "<", ">", "/" },
   length |-> 3]

MCAlphabets == { Mixed, Points, LinesAndQuotes, Words, Punctuation }
=============================================================================
