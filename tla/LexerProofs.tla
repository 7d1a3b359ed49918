----------------------------- MODULE LexerProofs -----------------------------
(***************************************************************************)
(* For files of every length and every longest number: the lexer is the    *)
(* source of tokens that the parser is checked against.                    *)
(***************************************************************************)
EXTENDS Lexer, FiniteSetTheorems, TLAPS

ForEver == {"TOK_EOF", "BAD"}

(* Where the lexer is tells what it gave: as many tokens as characters at     *)
(* most; the end of the file at the end, the bad token at a bad character.    *)
Consumed ==
  /\ mCurrentToken \notin ForEver => fed <= mBufferIt - 1
  /\ mCurrentToken = "TOK_EOF" => mBufferIt = End
  /\ mCurrentToken = "BAD" => mBufferIt < End /\ mBuffer[mBufferIt] = "other"

IInv ==
  /\ TypeOK
  /\ status = "lexing" => mBufferIt <= End
  /\ mCurrentToken \in Given
  /\ Consumed

----------------------------------------------------------------------------
(* The tokens of the lexer are tokens of the source, and punctuation is none  *)
(* of the two that are for ever.                                              *)
LEMMA GivenTokens ==
  /\ Given \subseteq Source!Token
  /\ \A c \in DOMAIN Single : Single[c] \in Given \ ForEver
  /\ \A c \in DOMAIN Double : Double[c] \in Given \ ForEver
  /\ Words \subseteq Given \ ForEver
<1>1. \A c \in DOMAIN Single : Single[c] \in Given \ ForEver
  BY DEF Single, Given, ForEver
<1>2. \A c \in DOMAIN Double : Double[c] \in Given \ ForEver
  BY DEF Single, Double, Given, ForEver
<1>3. Words \subseteq Given \ ForEver
  BY DEF Words, Given, ForEver
<1>4. Words \subseteq Source!Token
  BY DEF Words, Source!Token
<1>5. \A c \in DOMAIN Single : Single[c] \in Source!Token
  BY DEF Single, Source!Token
<1>6. Given \subseteq Source!Token
  BY <1>4, <1>5 DEF Given, Source!Token
<1> QED
  BY <1>1, <1>2, <1>3, <1>6

(* What one look for a token at p comes to: the end of the file at the end, a *)
(* bad character that stays, a failure, or a token and a position behind p.   *)
Outcome(p) ==
  \/ p = End /\ mCurrentToken' = "TOK_EOF" /\ mBufferIt' = p /\ status' = status
  \/ /\ p < End /\ mBuffer[p] = "other"
     /\ mCurrentToken' = "BAD" /\ mBufferIt' = p /\ status' = status
  \/ /\ p < End
     /\ mCurrentToken' = mCurrentToken /\ status' = "crashed"
     /\ mBuffer[p] # "other"
     /\ mBufferIt' \in p .. End
  \/ /\ p < End
     /\ mBuffer[p] # "other"
     /\ mCurrentToken' \in Given \ ForEver
     /\ mBufferIt' \in p + 1 .. End + 1
     /\ status' \in {"lexing", "past"}
     /\ status' = "lexing" => mBufferIt' <= End

LEMMA GetsOutcome ==
  ASSUME IInv, status = "lexing", NEW p \in mBufferIt .. End,
         \/ EndOfFile(p) \/ Punctuation(p) \/ Operator(p) \/ Minus(p) \/ Slash(p)
         \/ Quote(p) \/ Word(p) \/ Number(p) \/ Unknown(p)
  PROVE  Outcome(p)
<1> DEFINE n == Len(mBuffer)
<1>1. /\ n \in Nat /\ End = n + 1 /\ End \in Nat
      /\ p \in Nat /\ p >= 1 /\ p <= End
  BY DEF IInv, TypeOK, End
<1>2. \A q \in Nat : At(q) = IF q < End THEN mBuffer[q] ELSE "nul"
  BY DEF At
<1>3. At(p) # "nul" => p < End /\ At(p) = mBuffer[p]
  BY <1>1, <1>2
<1>n. At(p + 1) # "nul" => p + 1 < End
  BY <1>1, <1>2
<1>4. CASE EndOfFile(p)
  BY <1>4 DEF EndOfFile, Give, Outcome
<1>5. CASE Punctuation(p)
  <2>1. At(p) # "nul" /\ At(p) # "other"
    BY <1>5 DEF Punctuation, Single
  <2>2. Single[At(p)] \in Given \ ForEver
    BY <1>5, GivenTokens DEF Punctuation
  <2> QED
    BY <1>1, <1>3, <1>5, <2>1, <2>2 DEF Punctuation, Give, Outcome
<1>6. CASE Operator(p)
  <2>1. At(p) # "nul" /\ At(p) # "other"
    BY <1>6 DEF Operator, Double
  <2>2. Double[At(p)] \in Given \ ForEver /\ "OP" \in Given \ ForEver
    BY <1>6, GivenTokens DEF Operator, Double, Single, Given, ForEver
  <2>3. At(p + 1) = At(p) => p + 2 <= End
    BY <1>1, <1>n, <2>1
  <2> QED
    BY <1>1, <1>3, <1>6, <2>1, <2>2, <2>3 DEF Operator, Give, Outcome
<1>7. CASE Minus(p)
  <2>1. "ARROW" \in Given \ ForEver /\ "OP" \in Given \ ForEver
    BY DEF Single, Given, ForEver
  <2>2. At(p + 1) = "greater" => p + 2 <= End
    BY <1>1, <1>n
  <2> QED
    BY <1>1, <1>3, <1>7, <2>1, <2>2 DEF Minus, Give, Outcome
<1>8. CASE Slash(p)
  <2>1. /\ "COMMENT" \in Given \ ForEver /\ "OP" \in Given \ ForEver
        /\ "UNKNOWN" \in Given \ ForEver
    BY DEF Single, Given, ForEver
  <2>2. p < End /\ mBuffer[p] = "slash"
    BY <1>3, <1>8 DEF Slash
  <2>3. CASE LineComment(p)
    BY <1>1, <1>n, <2>1, <2>2, <2>3 DEF LineComment, Upto, Give, Outcome
  <2>4. CASE At(p + 1) = "star" /\ MultiLine(p + 1)
    BY <1>1, <1>n, <2>1, <2>2, <2>4 DEF MultiLine, Comment, Give, Outcome
  <2>5. CASE Give("OP", p + 1)
    BY <1>1, <2>1, <2>2, <2>5 DEF Give, Outcome
  <2> QED
    BY <1>8, <2>3, <2>4, <2>5 DEF Slash
<1>9. CASE Quote(p)
  <2>1. "LITERAL" \in Given \ ForEver /\ "UNKNOWN" \in Given \ ForEver
    BY DEF Words, Given, ForEver
  <2>2. p < End /\ mBuffer[p] = "quote"
    BY <1>3, <1>9 DEF Quote
  <2>3. PICK q \in p + 1 .. End :
          \/ q = End /\ Give("UNKNOWN", q)
          \/ At(q) = "newline" /\ Broken(q)
          \/ At(q) = "quote" /\ Give("LITERAL", q + 1)
    BY <1>9 DEF Quote
  <2>4. CASE q = End /\ Give("UNKNOWN", q)
    BY <1>1, <2>1, <2>2, <2>4 DEF Give, Outcome
  <2>5. CASE Broken(q)
    <3>1. PICK r \in q .. End :
            /\ mCurrentToken' = "UNKNOWN" /\ mBufferIt' = r + 1
            /\ status' = IF r = End THEN "past" ELSE status
      BY <2>5 DEF Broken
    <3> QED
      BY <1>1, <2>1, <2>2, <3>1 DEF Outcome
  <2>6. CASE At(q) = "quote" /\ Give("LITERAL", q + 1)
    <3>1. q < End
      BY <1>1, <1>2, <2>6
    <3> QED
      BY <1>1, <2>1, <2>2, <2>6, <3>1 DEF Give, Outcome
  <2> QED
    BY <2>3, <2>4, <2>5, <2>6
<1>10. CASE Word(p)
  <2>1. p < End /\ mBuffer[p] = "letter"
    BY <1>3, <1>10 DEF Word
  <2>2. PICK word \in Words : \E q \in p .. End : Upto(p, q, Char \ AlNum) /\ Give(word, q)
    BY <1>10 DEF Word
  <2>a. PICK q \in p .. End : Upto(p, q, Char \ AlNum) /\ Give(word, q)
    BY <2>2
  <2>3. q # p
    BY <2>1, <2>a DEF Upto, AlNum
  <2> QED
    BY <1>1, <2>1, <2>a, <2>3, GivenTokens DEF Give, Outcome
<1>11. CASE Number(p)
  <2>1. /\ "NUMBER" \in Given \ ForEver /\ "ZERO" \in Given \ ForEver
        /\ "UNKNOWN" \in Given \ ForEver
    BY DEF Given, ForEver
  <2>2. p < End /\ mBuffer[p] \in Digits /\ mBuffer[p] # "other"
    BY <1>3, <1>11 DEF Number, Digits
  <2>3. PICK q \in p .. End :
          /\ Upto(p, q, Char \ Digits)
          /\ IF At(q) = "letter" THEN BadSuffix(q) ELSE Value(p, q)
    BY <1>11 DEF Number
  <2>4. q > p
    BY <1>1, <2>2, <2>3 DEF Upto
  <2>5. CASE BadSuffix(q)
    BY <1>1, <2>1, <2>2, <2>4, <2>5 DEF BadSuffix, Give, Outcome
  <2>6. CASE Value(p, q)
    BY <1>1, <2>1, <2>2, <2>4, <2>6 DEF Value, Give, Overflow, Outcome
  <2> QED
    BY <2>3, <2>5, <2>6
<1>12. CASE Unknown(p)
  BY <1>1, <1>3, <1>12 DEF Unknown, Give, Outcome
<1> QED
  BY <1>4, <1>5, <1>6, <1>7, <1>8, <1>9, <1>10, <1>11, <1>12

(* A token that is for ever is given again: the search for the next one ends  *)
(* where it begins.                                                           *)
LEMMA StaysForEver ==
  ASSUME IInv, status = "lexing", mCurrentToken \in ForEver,
         NEW p \in mBufferIt .. End, Upto(mBufferIt, p, Char \ Space), Outcome(p)
  PROVE  p = mBufferIt /\ mCurrentToken' = mCurrentToken /\ mBufferIt' = p /\ status' = status
<1>1. p = mBufferIt
  <2>1. CASE mBufferIt = End
    BY <2>1 DEF IInv, TypeOK, End
  <2>2. CASE mBufferIt < End /\ mBuffer[mBufferIt] = "other"
    <3>1. "other" \in Char \ Space
      BY DEF Char, Space
    <3>2. ~(mBufferIt < p)
      BY <2>2, <3>1 DEF Upto, IInv, TypeOK, End
    <3> QED
      BY <3>2 DEF IInv, TypeOK, End
  <2> QED
    BY <2>1, <2>2 DEF IInv, Consumed, ForEver
<1> QED
  BY <1>1 DEF Outcome, IInv, TypeOK, Consumed, ForEver, End

----------------------------------------------------------------------------
LEMMA InitIInv == Init => IInv
<1> SUFFICES ASSUME Init PROVE IInv
  OBVIOUS
<1>1. PICK n \in 0 .. MaxChars : mBuffer \in [1 .. n -> Chars]
  BY DEF Init
<1>2. mBuffer \in Seq(Chars) /\ Len(mBuffer) = n
  BY <1>1, MaxCharsAssumption
<1>3. "UNKNOWN" \in Given \ ForEver
  BY DEF Given, ForEver
<1> QED
  BY <1>1, <1>2, <1>3, MaxCharsAssumption DEF Init, IInv, TypeOK, Consumed, End, ForEver

LEMMA StepIInv == IInv /\ [Next]_vars => IInv'
<1> SUFFICES ASSUME IInv, [Next]_vars PROVE IInv'
  OBVIOUS
<1>1. CASE UNCHANGED vars
  BY <1>1 DEF vars, IInv, TypeOK, Consumed, End
<1>2. CASE Next
  <2>1. status = "lexing" /\ UNCHANGED mBuffer
    BY <1>2 DEF Next, GetNextToken
  <2>2. PICK p \in mBufferIt .. End :
          /\ Upto(mBufferIt, p, Char \ Space)
          /\ mLine' = mLine + NewLines(mBufferIt, p)
          /\ \/ EndOfFile(p) \/ Punctuation(p) \/ Operator(p) \/ Minus(p) \/ Slash(p)
             \/ Quote(p) \/ Word(p) \/ Number(p) \/ Unknown(p)
    BY <1>2 DEF Next, GetNextToken
  <2>3. Outcome(p)
    BY <2>1, <2>2, GetsOutcome
  <2>4. fed' = IF mCurrentToken \in ForEver \/ status' = "crashed" THEN fed ELSE fed + 1
    BY <1>2 DEF Next, GetNextToken, ForEver
  <2>5. NewLines(mBufferIt, p) \in Nat
    <3>1. IsFiniteSet(mBufferIt .. p - 1)
      BY FS_Interval DEF IInv, TypeOK, End
    <3>2. IsFiniteSet({r \in mBufferIt .. p - 1 : mBuffer[r] = "newline"})
      BY <3>1, FS_Subset
    <3> QED
      BY <3>2, FS_CardinalityType DEF NewLines
  <2>6. TypeOK' /\ (status' = "lexing" => mBufferIt' <= End') /\ mCurrentToken' \in Given
    BY <2>1, <2>2, <2>3, <2>4, <2>5 DEF IInv, TypeOK, End, Outcome, Given
  <2>7. Consumed'
    <3>1. CASE mCurrentToken \in ForEver
      BY <2>1, <2>2, <2>3, <3>1, StaysForEver DEF IInv, Consumed, End
    <3>2. CASE mCurrentToken \notin ForEver
      BY <2>1, <2>2, <2>3, <2>4, <3>2 DEF IInv, TypeOK, Consumed, Outcome, End, ForEver
    <3> QED
      BY <3>1, <3>2
  <2> QED
    BY <2>6, <2>7 DEF IInv
<1> QED
  BY <1>1, <1>2

----------------------------------------------------------------------------
(* Every call of GetNextToken, on every file, is a step that the parser was   *)
(* checked against, or changes nothing that the parser sees.                  *)
LEMMA StepIsSourceStep ==
  IInv /\ [Next]_vars =>
    [\E token \in Source!Token : Source!GetNextToken(token)]_<<mCurrentToken, fed>>
<1> SUFFICES ASSUME IInv, Next, ~UNCHANGED <<mCurrentToken, fed>>
             PROVE  \E token \in Source!Token : Source!GetNextToken(token)
  BY DEF vars
<1>1. status = "lexing"
  BY DEF Next, GetNextToken
<1>2. PICK p \in mBufferIt .. End :
        /\ Upto(mBufferIt, p, Char \ Space)
        /\ \/ EndOfFile(p) \/ Punctuation(p) \/ Operator(p) \/ Minus(p) \/ Slash(p)
           \/ Quote(p) \/ Word(p) \/ Number(p) \/ Unknown(p)
  BY DEF Next, GetNextToken
<1>3. Outcome(p)
  BY <1>1, <1>2, GetsOutcome
<1>4. fed' = IF mCurrentToken \in ForEver \/ status' = "crashed" THEN fed ELSE fed + 1
  BY DEF Next, GetNextToken, ForEver
<1>5. mCurrentToken \notin ForEver
  BY <1>1, <1>2, <1>3, <1>4, StaysForEver
<1>6. status' # "crashed"
  BY <1>1, <1>3, <1>4 DEF Outcome
<1>7. mCurrentToken' \in Given /\ (p < End \/ mCurrentToken' = "TOK_EOF")
  BY <1>3, <1>6 DEF Outcome, Given
<1>8. p < End => fed < MaxChars
  BY <1>5, MaxCharsAssumption DEF IInv, TypeOK, Consumed, End
<1>9. Source!GetNextToken(mCurrentToken')
  BY <1>4, <1>5, <1>6, <1>7, <1>8 DEF Source!GetNextToken, Source!Lexed, Source!ForEver, ForEver
<1> QED
  BY <1>7, <1>9, GivenTokens

(* The position in the file bounds the tokens given, and the end of the file  *)
(* or a bad character is where the lexer says it is.                          *)
THEOREM LexerConsumes == Spec => []Consumed
<1>1. IInv => Consumed
  BY DEF IInv
<1> QED
  BY InitIInv, StepIInv, <1>1, PTL DEF Spec

(* GetNextToken implements the source of tokens that Parser is checked with:  *)
(* never more tokens than the file has characters, whatever is unclosed or    *)
(* bad in it, and nothing after the end of the file.                          *)
THEOREM LexerIsTokenSource == Spec => ImplementsTokens
<1>1. Init => Source!SourceInit
  BY DEF Init, Source!SourceInit
<1> QED
  BY InitIInv, StepIInv, StepIsSourceStep, <1>1, PTL DEF Spec, ImplementsTokens, Source!SourceSpec

----------------------------------------------------------------------------
(* New lines. *)

LEMMA NewLinesType ==
  ASSUME NEW p \in Int, NEW q \in Int
  PROVE  /\ IsFiniteSet({r \in p .. q - 1 : mBuffer[r] = "newline"})
         /\ NewLines(p, q) \in Nat
<1>1. IsFiniteSet(p .. q - 1)
  BY FS_Interval
<1>2. IsFiniteSet({r \in p .. q - 1 : mBuffer[r] = "newline"})
  BY <1>1, FS_Subset
<1> QED
  BY <1>2, FS_CardinalityType DEF NewLines

(* They add up from one part of the file to the next. *)
LEMMA NewLinesSplit ==
  ASSUME NEW p \in Int, NEW q \in Int, NEW s \in Int, p <= q, q <= s
  PROVE  NewLines(p, s) = NewLines(p, q) + NewLines(q, s)
<1> DEFINE A == {r \in p .. q - 1 : mBuffer[r] = "newline"}
           B == {r \in q .. s - 1 : mBuffer[r] = "newline"}
           C == {r \in p .. s - 1 : mBuffer[r] = "newline"}
<1>1. IsFiniteSet(A) /\ IsFiniteSet(B)
  BY NewLinesType
<1>2. A \cup B = C /\ A \cap B = {}
  OBVIOUS
<1>3. Cardinality(A) \in Nat /\ Cardinality(B) \in Nat
  BY NewLinesType DEF NewLines
<1> HIDE DEF A, B, C
<1>4. Cardinality(C) = Cardinality(A) + Cardinality(B)
  BY <1>1, <1>2, <1>3, FS_Union, FS_EmptySet
<1> QED
  BY <1>4 DEF NewLines, A, B, C

LEMMA NewLinesNone ==
  ASSUME NEW p \in Int, NEW q \in Int, \A r \in p .. q - 1 : mBuffer[r] # "newline"
  PROVE  NewLines(p, q) = 0
<1>1. {r \in p .. q - 1 : mBuffer[r] = "newline"} = {}
  OBVIOUS
<1> QED
  BY <1>1, FS_EmptySet DEF NewLines

(* The tokens that hold no new line: all but a bad one and a comment that is  *)
(* closed.                                                                    *)
OnOneLine(p) ==
  \/ mCurrentToken' = "UNKNOWN"
  \/ mCurrentToken' = "COMMENT" /\ At(mBufferIt' - 1) = "slash"
  \/ mBufferIt' <= End /\ \A r \in p .. mBufferIt' - 1 : mBuffer[r] # "newline"

LEMMA GetsOneLine ==
  ASSUME IInv, status = "lexing", NEW p \in mBufferIt .. End,
         \/ EndOfFile(p) \/ Punctuation(p) \/ Operator(p) \/ Minus(p) \/ Slash(p)
         \/ Quote(p) \/ Word(p) \/ Number(p) \/ Unknown(p)
  PROVE  OnOneLine(p)
<1>1. /\ Len(mBuffer) \in Nat /\ End = Len(mBuffer) + 1 /\ End \in Nat
      /\ p \in Nat /\ p >= 1 /\ p <= End
  BY DEF IInv, TypeOK, End
<1>2. \A q \in Nat : At(q) = IF q < End THEN mBuffer[q] ELSE "nul"
  BY DEF At
<1>3. At(p) # "nul" => p < End /\ At(p) = mBuffer[p]
  BY <1>1, <1>2
<1>n. At(p + 1) # "nul" => p + 1 < End /\ At(p + 1) = mBuffer[p + 1]
  BY <1>1, <1>2
<1>4. CASE EndOfFile(p) \/ Unknown(p)
  BY <1>1, <1>4 DEF EndOfFile, Unknown, Give, OnOneLine
<1>5. CASE Punctuation(p)
  <2>1. At(p) # "nul" /\ At(p) # "newline"
    BY <1>5 DEF Punctuation, Single
  <2> QED
    BY <1>1, <1>3, <1>5, <2>1 DEF Punctuation, Give, OnOneLine
<1>6. CASE Operator(p)
  <2>1. At(p) # "nul" /\ At(p) # "newline"
    BY <1>6 DEF Operator, Double
  <2>2. \/ mBufferIt' = p + 1
        \/ mBufferIt' = p + 2 /\ At(p + 1) = At(p)
    BY <1>6 DEF Operator, Give
  <2> QED
    BY <1>1, <1>3, <1>n, <2>1, <2>2 DEF OnOneLine
<1>7. CASE Minus(p)
  BY <1>1, <1>3, <1>n, <1>7 DEF Minus, Give, OnOneLine
<1>8. CASE Slash(p)
  <2>1. p < End /\ mBuffer[p] = "slash"
    BY <1>3, <1>8 DEF Slash
  <2>2. CASE LineComment(p)
    <3>1. PICK q \in p .. End : Upto(p + 1, q, {"newline"}) /\ Give("COMMENT", q)
      BY <2>2 DEF LineComment
    <3>2. \A r \in p .. q - 1 : mBuffer[r] # "newline"
      BY <1>1, <2>1, <3>1 DEF Upto
    <3> QED
      BY <1>1, <3>1, <3>2 DEF Give, OnOneLine
  <2>3. CASE MultiLine(p + 1)
    <3>1. CASE Comment(p + 1)
      <4>1. PICK q \in p + 1 + 1 .. End - 1 :
              Closes(p + 1, q) /\ Give("COMMENT", q + 1)
        BY <3>1 DEF Comment
      <4>2. At(q) = "slash" /\ q + 1 - 1 = q
        BY <1>1, <4>1 DEF Closes
      <4> QED
        BY <4>1, <4>2 DEF Give, OnOneLine
    <3>2. CASE Give("UNKNOWN", End)
      BY <3>2 DEF Give, OnOneLine
    <3> QED
      BY <2>3, <3>1, <3>2 DEF MultiLine
  <2>4. CASE Give("OP", p + 1)
    BY <1>1, <2>1, <2>4 DEF Give, OnOneLine
  <2> QED
    BY <1>8, <2>2, <2>3, <2>4 DEF Slash
<1>9. CASE Quote(p)
  <2>1. p < End /\ mBuffer[p] = "quote"
    BY <1>3, <1>9 DEF Quote
  <2>2. PICK q \in p + 1 .. End :
          /\ Upto(p + 1, q, {"newline", "quote"})
          /\ \/ q = End /\ Give("UNKNOWN", q)
             \/ At(q) = "newline" /\ Broken(q)
             \/ At(q) = "quote" /\ Give("LITERAL", q + 1)
    BY <1>9 DEF Quote
  <2>3. CASE q = End /\ Give("UNKNOWN", q)
    BY <2>3 DEF Give, OnOneLine
  <2>4. CASE Broken(q)
    BY <2>4 DEF Broken, OnOneLine
  <2>5. CASE At(q) = "quote" /\ Give("LITERAL", q + 1)
    <3>1. q < End /\ mBuffer[q] = "quote"
      BY <1>1, <1>2, <2>5
    <3>2. \A r \in p .. q : mBuffer[r] # "newline"
      BY <1>1, <2>1, <2>2, <3>1 DEF Upto
    <3> QED
      BY <1>1, <2>5, <3>1, <3>2 DEF Give, OnOneLine
  <2> QED
    BY <2>2, <2>3, <2>4, <2>5
<1>10. CASE Word(p)
  <2>1. PICK q \in p .. End : Upto(p, q, Char \ AlNum) /\ mBufferIt' = q
    BY <1>10 DEF Word, Give
  <2>2. "newline" \in Char \ AlNum
    BY DEF Char, Space, AlNum, Digits
  <2> QED
    BY <1>1, <2>1, <2>2 DEF Upto, OnOneLine
<1>11. CASE Number(p)
  <2>1. PICK q \in p .. End :
          /\ Upto(p, q, Char \ Digits)
          /\ IF At(q) = "letter" THEN BadSuffix(q) ELSE Value(p, q)
    BY <1>11 DEF Number
  <2>2. "newline" \in Char \ Digits
    BY DEF Char, Space, Digits
  <2>3. CASE BadSuffix(q)
    BY <2>3 DEF BadSuffix, Give, OnOneLine
  <2>4. CASE Value(p, q)
    <3>1. mBufferIt' = q
      BY <2>4 DEF Value, Give, Overflow
    <3> QED
      BY <1>1, <2>1, <2>2, <3>1 DEF Upto, OnOneLine
  <2> QED
    BY <2>1, <2>3, <2>4
<1> QED
  BY <1>4, <1>5, <1>6, <1>7, <1>8, <1>9, <1>10, <1>11

LEMMA StepCountsLines == IInv /\ [Next]_vars => [LineStep]_vars
<1> SUFFICES ASSUME IInv, Next PROVE LineStep
  OBVIOUS
<1>1. status = "lexing" /\ mBuffer' = mBuffer /\ End' = End
  BY DEF Next, GetNextToken, End
<1>2. PICK p \in mBufferIt .. End :
        /\ mLine' = mLine + NewLines(mBufferIt, p)
        /\ \/ EndOfFile(p) \/ Punctuation(p) \/ Operator(p) \/ Minus(p) \/ Slash(p)
           \/ Quote(p) \/ Word(p) \/ Number(p) \/ Unknown(p)
  BY DEF Next, GetNextToken
<1>3. Outcome(p) /\ OnOneLine(p)
  BY <1>1, <1>2, GetsOutcome, GetsOneLine
<1> DEFINE it == mBufferIt
           pos == IF mBufferIt' < End THEN mBufferIt' ELSE End
<1>4. /\ it \in Nat /\ it >= 1 /\ it <= End /\ End \in Nat /\ p \in Nat /\ mLine \in Nat
      /\ it <= p /\ p <= End
  BY <1>1, <1>2 DEF IInv, TypeOK, End
<1>5. pos \in Nat /\ p <= pos /\ pos <= End /\ mBufferIt' \in Nat
  BY <1>3, <1>4 DEF Outcome
<1>7. Lag = NewLines(1, it) + 1 - mLine
  <2>1. (IF mBufferIt < End THEN mBufferIt ELSE End) = it
    BY <1>4
  <2> QED
    BY <2>1 DEF Lag
<1>8. Lag' = NewLines(1, pos) + 1 - mLine'
  BY <1>1 DEF Lag, NewLines
<1> HIDE DEF it, pos
<1>9. /\ NewLines(1, pos) = NewLines(1, it) + NewLines(it, pos)
      /\ NewLines(it, pos) = NewLines(it, p) + NewLines(p, pos)
  <2>1. it <= pos
    BY <1>4, <1>5
  <2> QED
    BY <1>4, <1>5, <2>1, NewLinesSplit
<1>10. /\ NewLines(1, it) \in Nat /\ NewLines(it, p) \in Nat /\ NewLines(p, pos) \in Nat
       /\ NewLines(it, pos) \in Nat /\ NewLines(1, pos) \in Nat
  <2>1. \A a, b \in Int : NewLines(a, b) \in Nat
    BY NewLinesType, Zenon
  <2>2. {1, it, p, pos} \subseteq Int
    BY <1>4, <1>5
  <2> QED
    BY <2>1, <2>2, Zenon
<1>11. Lag' = Lag + NewLines(p, pos) /\ Lag \in Int
  BY <1>2, <1>4, <1>7, <1>8, <1>9, <1>10 DEF it
<1>12. \/ mCurrentToken' = "UNKNOWN"
       \/ mCurrentToken' = "COMMENT" /\ At(mBufferIt' - 1) = "slash"
       \/ NewLines(p, pos) = 0
  <2>1. CASE mBufferIt' <= End /\ \A r \in p .. mBufferIt' - 1 : mBuffer[r] # "newline"
    <3>1. pos = mBufferIt' /\ p \in Int /\ pos \in Int
      BY <1>4, <1>5, <2>1 DEF pos
    <3> QED
      BY <1>4, <1>5, <2>1, <3>1, NewLinesNone, Zenon
  <2> QED
    BY <1>3, <2>1 DEF OnOneLine
<1> QED
  BY <1>10, <1>11, <1>12 DEF LineStep

(* In every file the line number falls behind only at a comment of several    *)
(* lines or at something bad, and is never ahead.                             *)
THEOREM LexerCountsLines == Spec => LinesCounted
BY InitIInv, StepIInv, StepCountsLines, PTL DEF Spec, LinesCounted
==============================================================================
