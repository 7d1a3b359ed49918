-------------------------------- MODULE Lexer --------------------------------
(***************************************************************************)
(* The lexer of TosLang (TosLang/Parse/lexer.cpp), on the characters of a  *)
(* file.  A step is one call of GetNextToken; every call of it is by the   *)
(* parser, which keeps the answer in mCurrentToken.                        *)
(*                                                                         *)
(* Characters that no branch tells apart share a name (letter, digit,      *)
(* other); zero is a digit of its own, because the parser looks for the    *)
(* number 0.  Of what a token says only its kind is kept: a word is any    *)
(* keyword or an identifier.  Of the location the line is kept.            *)
(***************************************************************************)
EXTENDS Integers, FiniteSets, Sequences

CONSTANTS
  Chars,       \* characters that a file may hold
  MaxChars,    \* bound: characters of a file
  MaxDigits    \* digits of the longest number that fits an int

Space == {"space", "newline"}
Digits == {"zero", "digit"}
AlNum == Digits \cup {"letter"}
Single ==
  [comma |-> "COMMA", colon |-> "COLON", semi_colon |-> "SEMI_COLON",
   left_brace |-> "LEFT_BRACE", left_bracket |-> "LEFT_BRACKET",
   left_paren |-> "LEFT_PAREN", right_brace |-> "RIGHT_BRACE",
   right_bracket |-> "RIGHT_BRACKET", right_paren |-> "RIGHT_PAREN",
   plus |-> "OP", star |-> "OP", percent |-> "OP", not |-> "OP"]
(* An operator whose character may be doubled. *)
Double ==
  [equal |-> "ASSIGN", and |-> "OP", or |-> "OP", greater |-> "OP", less |-> "OP"]
Char ==
  Space \cup AlNum \cup DOMAIN Single \cup DOMAIN Double
    \cup {"minus", "slash", "quote", "other"}

Words ==
  {"FUNCTION", "PRINT", "SCAN", "TYPE", "VOID", "VAR", "LITERAL", "IF", "WHILE",
   "SPAWN", "SLEEP", "SYNC", "RETURN", "IDENTIFIER"}

Given ==
  Words \cup {Single[c] : c \in DOMAIN Single}
    \cup {"ASSIGN", "ARROW", "COMMENT", "NUMBER", "ZERO", "TOK_EOF", "UNKNOWN", "BAD"}

ASSUME CharsAssumption == Chars \subseteq Char
ASSUME MaxCharsAssumption == MaxChars \in Nat
ASSUME MaxDigitsAssumption == MaxDigits \in Nat \ {0}

VARIABLES
  mBuffer,
  mBufferIt,
  mLine,           \* mSrcLoc.mCurrentLine
  mCurrentToken,
  fed,             \* tokens given, the end of the file or a bad character once
  status           \* "lexing", "past" the end of the buffer or "crashed"

vars == <<mBuffer, mBufferIt, mLine, mCurrentToken, fed, status>>

End == Len(mBuffer) + 1

TypeOK ==
  /\ mBuffer \in Seq(Chars) /\ Len(mBuffer) <= MaxChars
  /\ mBufferIt \in 1 .. End + 1
  /\ mLine \in Nat
  /\ fed \in Nat
  /\ status \in {"lexing", "past", "crashed"}

Init ==
  /\ \E n \in 0 .. MaxChars : mBuffer \in [1 .. n -> Chars]
  /\ mBufferIt = 1
  /\ mLine = 1
  /\ mCurrentToken = "UNKNOWN"
  /\ fed = 0
  /\ status = "lexing"

----------------------------------------------------------------------------
(* Behind the last character of a string there is a zero to be read. *)
At(p) == IF p < End THEN mBuffer[p] ELSE "nul"

(* q is the first place from p on whose character is in Stop, or the end. *)
Upto(p, q, Stop) ==
  /\ q \in p .. End
  /\ q < End => mBuffer[q] \in Stop
  /\ \A r \in p .. q - 1 : mBuffer[r] \notin Stop

NewLines(p, q) == Cardinality({r \in p .. q - 1 : mBuffer[r] = "newline"})

Give(token, q) ==
  /\ mCurrentToken' = token
  /\ mBufferIt' = q
  /\ UNCHANGED status

EndOfFile(p) == p = End /\ Give("TOK_EOF", p)

Punctuation(p) ==
  /\ At(p) \in DOMAIN Single
  /\ Give(Single[At(p)], p + 1)

Operator(p) ==
  /\ At(p) \in DOMAIN Double
  /\ IF At(p + 1) = At(p) THEN Give("OP", p + 2) ELSE Give(Double[At(p)], p + 1)

(* Defect: the position is not advanced past a lone minus. *)
MinusStays(p) ==
  /\ At(p) = "minus"
  /\ IF At(p + 1) = "greater" THEN Give("ARROW", p + 2) ELSE Give("OP", p)

Minus(p) ==
  /\ At(p) = "minus"
  /\ IF At(p + 1) = "greater" THEN Give("ARROW", p + 2) ELSE Give("OP", p + 1)

(* The star that opens a comment may be the one that closes it. *)
Closes(p, q) == q > p /\ At(q - 1) = "star" /\ At(q) = "slash"

Comment(p) ==
  \E q \in p + 1 .. End - 1 :
    /\ Closes(p, q) /\ \A r \in p + 1 .. q - 1 : ~Closes(p, r)
    /\ Give("COMMENT", q + 1)

(* Defect: the end of the file is not looked for, and the loop that looks for *)
(* the end of a comment is not left.                                          *)
MultiLineEndless(p) == Comment(p)

MultiLine(p) ==
  \/ Comment(p)
  \/ (\A q \in p + 1 .. End - 1 : ~Closes(p, q)) /\ Give("UNKNOWN", End)

LineComment(p) ==
  /\ At(p + 1) = "slash"
  /\ \E q \in p .. End : Upto(p + 1, q, {"newline"}) /\ Give("COMMENT", q)

Slash(p) ==
  /\ At(p) = "slash"
  /\ \/ LineComment(p)
     \/ At(p + 1) = "star" /\ MultiLine(p + 1)
     \/ At(p + 1) \notin {"slash", "star"} /\ Give("OP", p + 1)

(* A literal broken by a new line is skipped up to a quote and beyond it, or  *)
(* up to the end and beyond that.                                             *)
Broken(q) ==
  \E r \in q .. End :
    /\ Upto(q, r, {"quote"})
    /\ mCurrentToken' = "UNKNOWN"
    /\ mBufferIt' = r + 1
    /\ status' = IF r = End THEN "past" ELSE status

(* Defect: a new line does not end a literal. *)
QuoteOverLines(p) ==
  /\ At(p) = "quote"
  /\ \E q \in p + 1 .. End :
       /\ Upto(p + 1, q, {"quote"})
       /\ IF q = End THEN Give("UNKNOWN", q) ELSE Give("LITERAL", q + 1)

Quote(p) ==
  /\ At(p) = "quote"
  /\ \E q \in p + 1 .. End :
       /\ Upto(p + 1, q, {"newline", "quote"})
       /\ \/ q = End /\ Give("UNKNOWN", q)
          \/ At(q) = "newline" /\ Broken(q)
          \/ At(q) = "quote" /\ Give("LITERAL", q + 1)

Word(p) ==
  /\ At(p) = "letter"
  /\ \E word \in Words :
       \E q \in p .. End : Upto(p, q, Char \ AlNum) /\ Give(word, q)

(* A letter after the digits: up to the end of the statement. *)
BadSuffix(q) ==
  \E r \in q .. End :
    Upto(q, r, {"semi_colon"}) /\ Give("UNKNOWN", IF r < End THEN r + 1 ELSE r)

(* std::stoi throws what nobody catches. *)
Overflow(q) ==
  status' = "crashed" /\ mBufferIt' = q /\ UNCHANGED mCurrentToken

(* The number has n digits or more, its leading zeros left out. *)
HasDigits(p, q, n) == \E r \in p .. q - 1 : mBuffer[r] = "digit" /\ q - r >= n

(* One of MaxDigits digits may or may not fit. *)
Value(p, q) ==
  \/ ~HasDigits(p, q, 1) /\ Give("ZERO", q)
  \/ HasDigits(p, q, 1) /\ ~HasDigits(p, q, MaxDigits + 1) /\ Give("NUMBER", q)
  \/ HasDigits(p, q, MaxDigits) /\ Overflow(q)

Number(p) ==
  /\ At(p) \in Digits
  /\ \E q \in p .. End :
       /\ Upto(p, q, Char \ Digits)
       /\ IF At(q) = "letter" THEN BadSuffix(q) ELSE Value(p, q)

Unknown(p) == At(p) = "other" /\ Give("BAD", p)

(* White space is skipped first, and only there are new lines counted. *)
GetNextToken ==
  /\ status = "lexing"
  /\ \E p \in mBufferIt .. End :
       /\ Upto(mBufferIt, p, Char \ Space)
       /\ mLine' = mLine + NewLines(mBufferIt, p)
       /\ \/ EndOfFile(p) \/ Punctuation(p) \/ Operator(p) \/ Minus(p) \/ Slash(p)
          \/ Quote(p) \/ Word(p) \/ Number(p) \/ Unknown(p)
  /\ fed' = IF mCurrentToken \in {"TOK_EOF", "BAD"} \/ status' = "crashed"
            THEN fed ELSE fed + 1
  /\ UNCHANGED mBuffer

Next == GetNextToken
Spec == Init /\ [][Next]_vars
(* The parser asks for tokens as long as there are any (Parser!Terminates). *)
FairSpec == Spec /\ WF_vars(Next)

----------------------------------------------------------------------------
Source == INSTANCE TokenSource WITH Tokens <- Given, MaxTokens <- MaxChars

(* What the parser relies on: a token takes a character of the file at least, *)
(* and the end of the file is for ever, as is a character that starts no      *)
(* token.  Whatever is skipped, broken or unclosed, GetNextToken gives the    *)
(* parser a finite number of tokens and never one after the end.              *)
ImplementsTokens == Source!SourceSpec

(* Every file comes to an end: its own, a bad character, or a failure.        *)
(* No token, comment or literal makes GetNextToken stand still.               *)
AllRead == <>(mCurrentToken \in Source!ForEver \/ status # "lexing")

(* How far the line that errors are reported at is behind the true one. *)
Lag == NewLines(1, IF mBufferIt < End THEN mBufferIt ELSE End) + 1 - mLine

(* A step that leaves the line where it should be, or lets it fall behind at  *)
(* one of two kinds of token.                                                 *)
LineStep ==
  /\ Lag' >= Lag
  /\ Lag' > Lag =>
       \/ mCurrentToken' = "UNKNOWN"
       \/ mCurrentToken' = "COMMENT" /\ At(mBufferIt' - 1) = "slash"

(* The line falls behind at a comment of several lines and at what was skipped *)
(* as bad, and nowhere else: not at a word, a literal, a comment of one line   *)
(* or white space.  It is never ahead.                                         *)
LinesCounted == [][LineStep]_vars
==============================================================================
