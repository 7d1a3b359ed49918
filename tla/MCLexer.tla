------------------------------- MODULE MCLexer -------------------------------
(* Every file of up to MaxChars of these characters: each one that GetNextToken *)
(* tells apart, and one of those it treats alike.                               *)
EXTENDS Lexer
AnyChar ==
  {"newline", "letter", "zero", "digit", "quote", "slash", "star", "minus",
   "greater", "semi_colon", "other"}
==============================================================================
