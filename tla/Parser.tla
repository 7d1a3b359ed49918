------------------------------- MODULE Parser -------------------------------
(***************************************************************************)
(* The recursive-descent parser of TosLang (TosLang/Parse/parser.cpp) on   *)
(* the tokens of TokenSource.  The call stack is explicit: a frame has the *)
(* place in its function where it goes on, the expression it has so far,   *)
(* and whether that one is spawned.  A step runs from one call of          *)
(* GetNextToken, of a parsing function or of a return to the next.         *)
(*                                                                         *)
(* Of the tree only what later steps look at is kept: whether a node is    *)
(* null, an identifier or something else.                                  *)
(***************************************************************************)
EXTENDS TokenSource, Sequences

Operators == {"ASSIGN", "OP"}
ExprTerminators ==
  {"SEMI_COLON", "LEFT_BRACE", "RIGHT_BRACE", "RIGHT_PAREN", "COMMA"}

Null == "null"
Node == {Null, "ident", "expr"}
(* What a function returns: an expression; a statement or declaration, which  *)
(* is never null but for the CompoundStmt; ParseArrayType's verdict.          *)
Result == Node \cup {"stmt", "error", "true", "false"}

VARIABLES
  stack,       \* frames, the running one first
  ret,         \* result of the last function that returned
  logged,      \* the parser printed an error (the lexer's own are left out)
  status       \* "parsing", "done" or "crashed"

vars == <<mCurrentToken, stack, ret, logged, fed, status>>

Frame(at) == [at |-> at, node |-> Null, spawn |-> FALSE]
top == stack[1]
At(label) == status = "parsing" /\ top.at = label

Init ==
  /\ SourceInit
  /\ stack = <<Frame("start")>>
  /\ ret = Null
  /\ logged = FALSE
  /\ status = "parsing"

----------------------------------------------------------------------------
(* The ways on. *)

NoToken == UNCHANGED <<mCurrentToken, fed>>

Frames(frames) ==
  stack' = frames \o Tail(stack) /\ UNCHANGED <<ret, logged, status>>
Goto(label) == Frames(<<[top EXCEPT !.at = label]>>)
Call(function, label) == Frames(<<Frame(function), [top EXCEPT !.at = label]>>)

Leave(result) == stack' = Tail(stack) /\ ret' = result /\ UNCHANGED status
Return(result) == Leave(result) /\ UNCHANGED logged
Log(result) == Leave(result) /\ logged' = TRUE

Crash == status' = "crashed" /\ UNCHANGED <<mCurrentToken, stack, ret, logged, fed>>

(* Take the next token (or look at the current one), and go where it says;    *)
(* any other one is an error.                                                 *)
Branch(token, labels) ==
  IF token \in DOMAIN labels THEN Goto(labels[token]) ELSE Log("error")
Expect(label, labels) ==
  /\ At(label)
  /\ \E token \in Token : GetNextToken(token) /\ Branch(token, labels)
Check(label, labels) == At(label) /\ NoToken /\ Branch(mCurrentToken, labels)

(* Take the next token and call a function. *)
ReadAndCall(label, function, after) ==
  /\ At(label)
  /\ \E token \in Token : GetNextToken(token)
  /\ Call(function, after)

----------------------------------------------------------------------------
(* A size in brackets may follow a type. *)
Size(label, sized, next) ==
  /\ At(label)
  /\ \E token \in Token :
       /\ GetNextToken(token)
       /\ IF token = "LEFT_BRACKET" THEN Call("array.number", sized) ELSE Goto(next)

ParseArrayType ==
  \/ /\ At("array.number")
     /\ \E token \in Token :
          /\ GetNextToken(token)
          /\ IF token = "NUMBER" THEN Goto("array.bracket") ELSE Log("false")
  \/ /\ At("array.bracket")
     /\ \E token \in Token :
          /\ GetNextToken(token)
          /\ IF token = "RIGHT_BRACKET" THEN Goto("array.end") ELSE Log("false")
  \/ /\ At("array.end")
     /\ \E token \in Token : GetNextToken(token)
     /\ Return("true")

----------------------------------------------------------------------------
(* Declarations. *)

(* A wrong file name or a file that does not open ends it all. *)
ParseProgram ==
  /\ At("start")
  /\ \/ \E token \in Token : GetNextToken(token) /\ Goto("program")
     \/ /\ NoToken
        /\ logged' = TRUE
        /\ status' = "done"
        /\ UNCHANGED <<stack, ret>>

Decls == {"VAR", "FUNCTION", "TOK_EOF"}

ParseProgramDecl ==
  \/ /\ At("program") /\ NoToken
     /\ \/ mCurrentToken = "VAR" /\ Call("var.name", "program.skip")
        \/ mCurrentToken = "FUNCTION" /\ Call("fn.name", "program.skip")
        \/ mCurrentToken = "COMMENT" /\ Goto("program.skip")
        \/ /\ mCurrentToken \notin Decls \cup {"COMMENT"}
           /\ stack' = <<[top EXCEPT !.at = "program.skip"]>>
           /\ logged' = TRUE
           /\ UNCHANGED <<ret, status>>
        \/ /\ mCurrentToken = "TOK_EOF"
           /\ status' = "done"
           /\ UNCHANGED <<stack, ret, logged>>
  \/ /\ At("program.skip")
     /\ \/ mCurrentToken \in Decls /\ NoToken /\ Goto("program")
        \/ /\ mCurrentToken \notin Decls
           /\ \E token \in Token : GetNextToken(token)
           /\ Goto("program.skip")

(* The tests of ParseArrayType's verdict are the other way round than in      *)
(* ParseVarDecl: a function with a well-formed array ends here.               *)
ParseFunctionDecl ==
  \/ Expect("fn.name", [IDENTIFIER |-> "fn.paren"])
  \/ Expect("fn.paren", [LEFT_PAREN |-> "fn.param"])
  \/ Expect("fn.param", [RIGHT_PAREN |-> "fn.arrow", IDENTIFIER |-> "fn.colon"])
  \/ Expect("fn.colon", [COLON |-> "fn.type"])
  \/ Expect("fn.type", [TYPE |-> "fn.size", VOID |-> "fn.size"])
  \/ Size("fn.size", "fn.sized", "fn.next")
  \/ /\ At("fn.sized") /\ NoToken
     /\ IF ret = "true" THEN Return("error") ELSE Goto("fn.next")
  \/ Check("fn.next", [RIGHT_PAREN |-> "fn.arrow", COMMA |-> "fn.param"])
  \/ Expect("fn.arrow", [ARROW |-> "fn.return"])
  \/ Expect("fn.return", [TYPE |-> "fn.retsize", VOID |-> "fn.retsize"])
  \/ Size("fn.retsize", "fn.retsized", "fn.body")
  \/ /\ At("fn.retsized") /\ NoToken
     /\ IF ret = "true" THEN Return("error") ELSE Goto("fn.body")
  \/ At("fn.body") /\ NoToken /\ Call("block", "fn.end")
  \/ At("fn.end") /\ NoToken /\ Return("stmt")

ParseVarDecl ==
  \/ Expect("var.name", [IDENTIFIER |-> "var.colon"])
  \/ Expect("var.colon", [COLON |-> "var.type"])
  \/ Expect("var.type", [TYPE |-> "var.size"])
  \/ Size("var.size", "var.sized", "var.assign")
  \/ /\ At("var.sized") /\ NoToken
     /\ IF ret = "true" THEN Goto("var.assign") ELSE Return("error")
  \/ /\ At("var.assign")
     /\ IF mCurrentToken = "ASSIGN"
        THEN (\E token \in Token : GetNextToken(token)) /\ Call("expr", "var.init")
        ELSE NoToken /\ Goto("var.end")
  \/ /\ At("var.init") /\ NoToken
     /\ IF ret = Null THEN Return("error") ELSE Goto("var.end")
  \/ /\ At("var.end") /\ NoToken
     /\ IF mCurrentToken = "SEMI_COLON" THEN Return("stmt") ELSE Log("error")

----------------------------------------------------------------------------
(* Expressions. *)

(* Go on behind the expression read so far. *)
Extend(node, spawn) ==
  Frames(<<[at |-> "expr.loop", node |-> node, spawn |-> spawn]>>)

(* A function that takes over the expression read so far. *)
Hand(function) == Frames(<<[top EXCEPT !.at = function], [top EXCEPT !.at = "expr.part"]>>)

BeginExpr ==
  /\ At("expr")
  /\ \/ /\ mCurrentToken \in {"LITERAL", "NUMBER", "ZERO"}
        /\ \E token \in Token : GetNextToken(token)
        /\ Extend("expr", FALSE)
     \/ /\ mCurrentToken = "IDENTIFIER"
        /\ \E token \in Token : GetNextToken(token)
        /\ Extend("ident", FALSE)
     \/ /\ mCurrentToken = "LEFT_BRACE"
        /\ NoToken
        /\ Call("elements", "expr.array")
     \/ /\ mCurrentToken = "SPAWN"
        /\ \E token \in Token : GetNextToken(token)
        /\ Goto("expr.spawn")
     \/ /\ mCurrentToken \in Operators
        /\ \E token \in Token : GetNextToken(token)
        /\ Log(Null)
     \/ /\ mCurrentToken \notin Operators
             \cup {"LITERAL", "NUMBER", "ZERO", "IDENTIFIER", "LEFT_BRACE", "SPAWN"}
        /\ NoToken
        /\ Return(Null)

ContinueExpr ==
  /\ At("expr.loop") /\ NoToken
  /\ \/ mCurrentToken \in ExprTerminators /\ Return(top.node)
     \/ mCurrentToken \in Operators /\ Hand("binary")
     \/ mCurrentToken = "LEFT_PAREN" /\ Hand("call")
     \/ mCurrentToken = "LEFT_BRACKET" /\ Call("expr", "expr.index")
     \/ /\ mCurrentToken \notin
             ExprTerminators \cup Operators \cup {"LEFT_PAREN", "LEFT_BRACKET"}
        /\ Return(Null)

(* Mutant: IndexedExpr takes any expression to index. *)
IndexExprUnasserted ==
  /\ At("expr.index") /\ NoToken
  /\ IF mCurrentToken = "RIGHT_BRACKET" THEN Return(Null) ELSE Extend("expr", top.spawn)

(* The bracket that opens an index is the current token while the index is    *)
(* parsed, and still is afterwards: the test of a right one never succeeds.   *)
(* IndexedExpr asserts that it indexes an identifier.                         *)
IndexExpr ==
  /\ At("expr.index")
  /\ IF mCurrentToken = "RIGHT_BRACKET" THEN NoToken /\ Return(Null)
     ELSE IF top.node # "ident" THEN Crash
     ELSE NoToken /\ Extend("expr", top.spawn)

ParseExpr ==
  \/ BeginExpr
  \/ /\ At("expr.array")
     /\ \E token \in Token : GetNextToken(token)
     /\ Extend(ret, FALSE)
  \/ /\ At("expr.spawn")
     /\ \E token \in Token : GetNextToken(token)
     /\ Extend(Null, TRUE)
  \/ ContinueExpr
  \/ At("expr.part") /\ NoToken /\ Extend(ret, top.spawn)
  \/ IndexExpr

(* Mutant: the opening brace is not skipped. *)
ParseArrayExprStays ==
  \/ /\ At("elements") /\ NoToken
     /\ IF mCurrentToken = "RIGHT_BRACE" THEN Return("expr") ELSE Call("expr", "element")
  \/ /\ At("element") /\ NoToken
     /\ \/ mCurrentToken = "RIGHT_BRACE" /\ Return("expr")
        \/ mCurrentToken = "COMMA" /\ Goto("elements")
        \/ mCurrentToken \notin {"RIGHT_BRACE", "COMMA"} /\ Log(Null)

ParseArrayExpr ==
  \/ /\ At("elements")
     /\ \E token \in Token :
          /\ GetNextToken(token)
          /\ IF token = "RIGHT_BRACE" THEN Return("expr") ELSE Call("expr", "element")
  \/ /\ At("element") /\ NoToken
     /\ \/ mCurrentToken = "RIGHT_BRACE" /\ Return("expr")
        \/ mCurrentToken = "COMMA" /\ Goto("elements")
        \/ mCurrentToken \notin {"RIGHT_BRACE", "COMMA"} /\ Log(Null)

(* Mutant: a missing right-hand side is not reported. *)
ParseBinaryOpExprSilent ==
  \/ ReadAndCall("binary", "expr", "binary.rhs")
  \/ /\ At("binary.rhs")
     /\ \/ ret = Null /\ NoToken /\ Return(Null)
        \/ ret # Null /\ top.node = Null /\ Crash
        \/ ret # Null /\ top.node # Null /\ NoToken /\ Return("expr")

(* BinaryOpExpr asserts that neither side is null. *)
ParseBinaryOpExpr ==
  \/ ReadAndCall("binary", "expr", "binary.rhs")
  \/ /\ At("binary.rhs")
     /\ \/ ret = Null /\ NoToken /\ Log(Null)
        \/ ret # Null /\ top.node = Null /\ Crash
        \/ ret # Null /\ top.node # Null /\ NoToken /\ Return("expr")

ParseCallExpr ==
  \/ /\ At("call")
     /\ \E token \in Token : GetNextToken(token)
     /\ Goto("call.arg")
  \/ /\ At("call.arg") /\ NoToken
     /\ IF mCurrentToken = "RIGHT_PAREN" THEN Goto("call.end")
                                         ELSE Call("expr", "call.next")
  \/ /\ At("call.next")
     /\ \/ mCurrentToken = "RIGHT_PAREN" /\ NoToken /\ Goto("call.end")
        \/ /\ mCurrentToken = "COMMA"
           /\ \E token \in Token : GetNextToken(token)
           /\ Goto("call.arg")
        \/ mCurrentToken \notin {"RIGHT_PAREN", "COMMA"} /\ NoToken /\ Log(Null)
  \/ /\ At("call.end")
     /\ \/ top.node = Null /\ Crash
        \/ /\ top.node # Null
           /\ \E token \in Token : GetNextToken(token)
           /\ Return("expr")

----------------------------------------------------------------------------
(* Statements. *)

(* The function that parses the statement a token starts. *)
Conditional == [token \in {"IF", "WHILE"} |-> "cond"]
Simple ==
  [VAR |-> "var.name", IDENTIFIER |-> "expr", SPAWN |-> "expr", RETURN |-> "return",
   PRINT |-> "print", SCAN |-> "scan", SLEEP |-> "sleep"]

(* Whatever ends a statement is skipped.  What starts no statement (a second  *)
(* left brace too) is skipped alone.                                          *)
ParseCompoundStmt ==
  \/ /\ At("block")
     /\ \/ mCurrentToken # "LEFT_BRACE" /\ NoToken /\ Log(Null)
        \/ /\ mCurrentToken = "LEFT_BRACE"
           /\ \E token \in Token : GetNextToken(token)
           /\ Goto("block.loop")
  \/ /\ At("block.loop") /\ NoToken
     /\ \/ mCurrentToken = "RIGHT_BRACE" /\ Return("stmt")
        \/ mCurrentToken = "TOK_EOF" /\ Log("stmt")
        \/ /\ mCurrentToken \in DOMAIN Simple
           /\ Call(Simple[mCurrentToken], "block.next")
        \/ /\ mCurrentToken \in DOMAIN Conditional
           /\ Call(Conditional[mCurrentToken], "block.next")
        \/ /\ mCurrentToken = "FUNCTION"
           /\ stack' = <<[top EXCEPT !.at = "block.skip"]>> \o Tail(stack)
           /\ logged' = TRUE
           /\ UNCHANGED <<ret, status>>
        \/ /\ mCurrentToken \notin
                {"RIGHT_BRACE", "TOK_EOF", "FUNCTION"} \cup DOMAIN Simple \cup DOMAIN Conditional
           /\ Goto("block.next")
  \/ /\ At("block.skip")
     /\ IF mCurrentToken \in {"RIGHT_BRACE", "TOK_EOF"}
        THEN NoToken /\ Goto("block.next")
        ELSE (\E token \in Token : GetNextToken(token)) /\ Goto("block.skip")
  \/ /\ At("block.next")
     /\ \E token \in Token : GetNextToken(token)
     /\ Goto("block.loop")

(* ParseIfStmt and ParseWhileStmt. *)
ParseCondStmt ==
  \/ ReadAndCall("cond", "expr", "cond.body")
  \/ /\ At("cond.body") /\ NoToken
     /\ stack' = <<Frame("block"), [top EXCEPT !.at = "cond.end", !.node = ret]>>
                   \o Tail(stack)
     /\ logged' = (logged \/ ret = Null)
     /\ UNCHANGED <<ret, status>>
  \/ /\ At("cond.end") /\ NoToken
     /\ \/ ret = Null /\ Log("error")
        \/ ret # Null /\ top.node = Null /\ Return("error")
        \/ ret # Null /\ top.node # Null /\ Return("stmt")

ParsePrintStmt ==
  \/ /\ At("print")
     /\ \E token \in Token :
          /\ GetNextToken(token)
          /\ IF token = "SEMI_COLON" THEN Return("stmt") ELSE Call("expr", "print.end")
  \/ /\ At("print.end") /\ NoToken
     /\ IF ret = Null THEN Log("error") ELSE Return("stmt")

ParseReturnStmt ==
  \/ ReadAndCall("return", "expr", "return.end")
  \/ /\ At("return.end") /\ NoToken
     /\ IF mCurrentToken = "SEMI_COLON" THEN Return("stmt") ELSE Log("stmt")

ParseScanStmt ==
  \/ ReadAndCall("scan", "expr", "scan.end")
  \/ /\ At("scan.end") /\ NoToken
     /\ IF ret = "ident" THEN Return("stmt") ELSE Log("error")

ParseSleepStmt ==
  \/ ReadAndCall("sleep", "expr", "sleep.end")
  \/ /\ At("sleep.end") /\ NoToken
     /\ IF ret = Null THEN Log("error") ELSE Return("stmt")

Next ==
  \/ ParseProgram \/ ParseProgramDecl
  \/ ParseFunctionDecl \/ ParseVarDecl \/ ParseArrayType
  \/ ParseExpr \/ ParseArrayExpr \/ ParseBinaryOpExpr \/ ParseCallExpr
  \/ ParseCompoundStmt \/ ParseCondStmt
  \/ ParsePrintStmt \/ ParseReturnStmt \/ ParseScanStmt \/ ParseSleepStmt

Spec == Init /\ [][Next]_vars

(* The parser is sequential and has nothing to wait for. *)
FairSpec == Spec /\ WF_vars(Next)

----------------------------------------------------------------------------
(* Properties. *)

(* The recursion is driven by the source: with n tokens read the parser is at *)
(* most 2n + 2 calls deep (an array in an array takes two for a token), so no *)
(* token makes it call itself for ever.                                       *)
DepthBounded == Len(stack) <= 2 * fed + 2

(* A parser that runs into an assertion or a null node has complained about   *)
(* the source before, unless the source spawns or indexes something.          *)
CrashesAreAnnounced ==
  status = "crashed" =>
    logged \/ top.at = "expr.index" \/ \E i \in DOMAIN stack : stack[i].spawn

(* The parser comes to an end on every source without a bad character.        *)
Terminates == <>(status \in {"done", "crashed"} \/ mCurrentToken = "BAD")
=============================================================================
