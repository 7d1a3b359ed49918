----------------------------- MODULE TokenSource -----------------------------
(***************************************************************************)
(* What the parser gets from the lexer: any tokens, at most MaxTokens of   *)
(* them, then the end of the file for ever.  Lexer implements it.          *)
(*                                                                         *)
(* Tokens that no function tells apart share a name: LITERAL is a Boolean  *)
(* or a string, OP an operator other than ASSIGN, COMMENT either kind.     *)
(* The values that are looked at are in the name: VOID is the type Void,   *)
(* ZERO the number 0.  UNKNOWN is a bad literal, number or comment, which  *)
(* the lexer skips; BAD is a character it knows nothing of, which it does  *)
(* not skip, so that it answers UNKNOWN for ever.                          *)
(***************************************************************************)
EXTENDS Naturals

CONSTANTS
  Tokens,      \* tokens that the source may hold
  MaxTokens    \* bound: tokens before the end of the file

Token ==
  {"FUNCTION", "IF", "PRINT", "RETURN", "SCAN", "SPAWN", "SLEEP", "SYNC", "TYPE",
   "VOID", "VAR", "WHILE", "LITERAL", "NUMBER", "ZERO", "ASSIGN", "OP", "ARROW",
   "COMMA", "COMMENT", "COLON", "IDENTIFIER", "LEFT_BRACE", "LEFT_BRACKET",
   "LEFT_PAREN", "SEMI_COLON", "RIGHT_BRACE", "RIGHT_BRACKET", "RIGHT_PAREN",
   "TOK_EOF", "UNKNOWN", "BAD"}
ForEver == {"TOK_EOF", "BAD"}

ASSUME TokensAssumption == Tokens \subseteq Token
ASSUME MaxTokensAssumption == MaxTokens \in Nat

VARIABLES
  mCurrentToken,
  fed            \* tokens the lexer gave

SourceInit ==
  /\ mCurrentToken = "UNKNOWN"
  /\ fed = 0

Lexed(token) ==
  IF mCurrentToken \in ForEver THEN token = mCurrentToken
  ELSE IF fed < MaxTokens THEN token \in Tokens
  ELSE token = "TOK_EOF"

GetNextToken(token) ==
  /\ Lexed(token)
  /\ mCurrentToken' = token
  /\ fed' = IF mCurrentToken \in ForEver THEN fed ELSE fed + 1

SourceSpec == SourceInit /\ [][\E token \in Token : GetNextToken(token)]_<<mCurrentToken, fed>>
==============================================================================
