------------------------------- MODULE ASTFile -------------------------------
(***************************************************************************)
(* A tree written to an .ast file (TosLang/Utils/astprinter.h) and read    *)
(* back from it (astreader.cpp).  The printer walks in pre-order and       *)
(* writes a line for a node of a kind that it handles, with a tab for      *)
(* every level.  The reader goes by the kind of the current line and by    *)
(* its number of tabs, those in a string included.  Its calls are explicit *)
(* here: todo holds what is left of the functions that are running, the    *)
(* innermost first.                                                        *)
(***************************************************************************)
EXTENDS AST

CONSTANT MaxRuns   \* bound: runs of one reader
ASSUME MaxRunsAssumption == MaxRuns \in Nat

VARIABLES
  lines,         \* the file
  status,        \* "printing", "printed", "reading", or how the last run ended
  runs,          \* runs begun
  mStreamOpen,   \* whether the reader's stream has a file open
  mCurrentLine,  \* number of the current line
  todo,
  read           \* the nodes read so far, in pre-order

readerVars == <<mCurrentLine, todo, read>>
vars == <<source, tree, open, lines, status, runs, mStreamOpen, readerVars>>

Tab == "tab"     \* a string literal with a tab in it
Zero == "0"      \* the number literal 0

(* Only a function has parameters, a block is nothing but its statements, and *)
(* of the names, operations and literals only a string may have a tab in it.  *)
ASSUME ShapesAssumption ==
  \A family \in Sources : \A s \in family.shapes :
     /\ s.kind # "FUNCTION_DECL" => s.params = <<>>
     /\ s.kind = "COMPOUND_STMT" => s = Plain("COMPOUND_STMT")
     /\ s.name = Tab => s.kind = "STRING_EXPR"
     /\ \A k \in DOMAIN s.params : s.params[k].name # Tab

LineOf(kind, shape, level) ==
  [kind |-> kind, name |-> shape.name, type |-> shape.type, size |-> shape.size,
   tabs |-> level + IF shape.name = Tab THEN 1 ELSE 0]

Init ==
  /\ source \in Sources
  /\ tree = <<Program>>
  /\ open = <<1>>
  /\ lines = <<LineOf("PROGRAM_DECL", Plain("PROGRAM_DECL"), 0)>>
  /\ status = "printing"
  /\ runs = 0
  /\ mStreamOpen = FALSE
  /\ mCurrentLine = 0
  /\ todo = <<>>
  /\ read = <<>>

----------------------------------------------------------------------------
(* The printer.  The level of a node is that of its parent and one more; the *)
(* ParamVarDecls that parameters are under has a level and no line.          *)

NoLine == {"PARAM_VAR_DECL", "SPAWN_EXPR", "SLEEP_STMT", "SYNC_STMT", "null"}

Printed(shape) ==
  (IF shape.kind \in NoLine THEN <<>> ELSE <<LineOf(shape.kind, shape, Len(open))>>)
  \o [k \in 1..Len(shape.params) |->
        LineOf("PARAM_VAR_DECL", shape.params[k], Len(open) + 2)]

PrintNode ==
  /\ status = "printing"
  /\ \E shape \in source.shapes :
       EnterNew(shape) /\ lines' = lines \o Printed(shape)
  /\ UNCHANGED <<status, runs, mStreamOpen, readerVars>>

PrintLeave ==
  /\ status = "printing"
  /\ LeaveNew
  /\ status' = IF open' = <<>> THEN "printed" ELSE status
  /\ UNCHANGED <<lines, runs, mStreamOpen, readerVars>>

----------------------------------------------------------------------------
(* The reader. *)

EndOfFile == [kind |-> "eof", name |-> "", type |-> "", size |-> 0, tabs |-> 0]
LineAt(k) == IF k <= Len(lines) THEN lines[k] ELSE EndOfFile
line == LineAt(mCurrentLine)
nextLine == LineAt(mCurrentLine + 1)
GetLine == mCurrentLine' = mCurrentLine + 1

Goal(what, node, tabs) == [what |-> what, node |-> node, tabs |-> tabs]
Doing(what) == status = "reading" /\ Head(todo).what = what
Then(goals) == todo' = goals \o Tail(todo)
goal == Head(todo)

NodeRead(kind, up) ==
  [kind |-> kind, name |-> line.name, type |-> line.type, size |-> line.size, up |-> up]
Bare(kind, up) == [kind |-> kind, name |-> "", type |-> "", size |-> 0, up |-> up]
NewNode == Len(read) + 1
Adds(node) == read' = Append(read, node)

Stop(how) == status' = how /\ UNCHANGED readerVars

(* Run opens the file.  A stream that still has the last one open, because   *)
(* that run ended at the end of the file and did not close it, cannot open   *)
(* another: the first line that it gets is the empty one it had last.        *)
Run ==
  /\ status \in {"printed", "done", "null"}
  /\ runs < MaxRuns
  /\ runs' = runs + 1
  /\ IF mStreamOpen
     THEN status' = "null" /\ mStreamOpen' = FALSE /\ UNCHANGED readerVars
     ELSE /\ status' = "reading"
          /\ mStreamOpen' = TRUE
          /\ mCurrentLine' = 2
          /\ todo' = <<Goal("decls", 1, 0)>>
          /\ read' = <<Program>>
  /\ UNCHANGED <<source, tree, open, lines>>

(* ReadVarDecl, for a node under up: an initial value follows if the next    *)
(* line has more tabs.                                                       *)
ReadVarDecl(up, goals) ==
  /\ Adds(NodeRead("VAR_DECL", up))
  /\ GetLine
  /\ Then((IF nextLine.tabs > line.tabs THEN <<Goal("expr", NewNode, 0)>> ELSE <<>>) \o goals)
  /\ UNCHANGED status

(* The loop of Run.  A line that is no declaration closes the stream and is  *)
(* looked at again, for ever: a closed stream is not at its end.             *)
ReadDecls ==
  /\ Doing("decls")
  /\ \/ /\ line.kind = "eof"
        /\ Stop("done")
     \/ /\ line.kind = "FUNCTION_DECL"
        /\ read' = read \o <<NodeRead("FUNCTION_DECL", 1), Bare("PARAM_VAR_DECL", NewNode)>>
        /\ GetLine
        /\ Then(<<Goal("params", NewNode, 0), goal>>)
        /\ UNCHANGED status
     \/ /\ line.kind = "VAR_DECL"
        /\ ReadVarDecl(1, <<goal>>)
     \/ /\ line.kind \notin {"eof", "FUNCTION_DECL", "VAR_DECL"}
        /\ Stop("hung")

(* Mutant: parameters are looked for under the kind of a variable. *)
ReadParamsAsVariables ==
  /\ Doing("params")
  /\ IF line.kind = "VAR_DECL"
     THEN ReadVarDecl(goal.node + 1, <<goal>>)
     ELSE /\ Then(<<Goal("block", goal.node, 0)>>)
          /\ UNCHANGED <<status, mCurrentLine, read>>

ReadParams ==
  /\ Doing("params")
  /\ IF line.kind = "PARAM_VAR_DECL"
     THEN ReadVarDecl(goal.node + 1, <<goal>>)
     ELSE /\ Then(<<Goal("block", goal.node, 0)>>)
          /\ UNCHANGED <<status, mCurrentLine, read>>

(* ReadCompoundStmt takes the current line for its own, whatever it is. *)
ReadCompoundStmt ==
  /\ Doing("block")
  /\ Adds(Bare("COMPOUND_STMT", goal.node))
  /\ GetLine
  /\ Then(<<Goal("stmts", NewNode, line.tabs)>>)
  /\ UNCHANGED status

InBlock(tabs) == line.tabs > tabs

EndBlock ==
  /\ Doing("stmts")
  /\ ~InBlock(goal.tabs)
  /\ Then(<<>>)
  /\ UNCHANGED <<status, mCurrentLine, read>>

(* ReadStmt.  For a ScanStmt the expression is read off the same line, and an *)
(* assertion stops it.  A line of another kind is looked at for ever.         *)
ReadStmt ==
  /\ Doing("stmts")
  /\ InBlock(goal.tabs)
  /\ \/ line.kind = "VAR_DECL" /\ ReadVarDecl(goal.node, <<goal>>)
     \/ /\ line.kind \in {"IF_STMT", "WHILE_STMT"}
        /\ Adds(NodeRead(line.kind, goal.node))
        /\ GetLine
        /\ Then(<<Goal("expr", NewNode, 0), Goal("block", NewNode, 0), goal>>)
        /\ UNCHANGED status
     \/ /\ line.kind \in {"PRINT_STMT", "RETURN_STMT"}
        /\ Adds(NodeRead(line.kind, goal.node))
        /\ GetLine
        /\ Then((IF nextLine.tabs > line.tabs THEN <<Goal("expr", NewNode, 0)>> ELSE <<>>)
                \o <<goal>>)
        /\ UNCHANGED status
     \/ /\ line.kind \in {"BINARY_EXPR", "CALL_EXPR"}
        /\ Then(<<Goal("expr", goal.node, 0), goal>>)
        /\ UNCHANGED <<status, mCurrentLine, read>>
     \/ /\ line.kind = "COMPOUND_STMT"
        /\ Then(<<Goal("block", goal.node, 0), goal>>)
        /\ UNCHANGED <<status, mCurrentLine, read>>
     \/ line.kind = "SCAN_STMT" /\ Stop("crashed")
     \/ /\ line.kind \in {"IDENTIFIER_EXPR", "NUMBER_EXPR", "BOOLEAN_EXPR", "STRING_EXPR",
                          "ARRAY_EXPR", "FUNCTION_DECL", "PARAM_VAR_DECL"}
        /\ Stop("hung")

(* Mutant: the arguments are the lines with as many tabs as the call. *)
PartsBeside(n) ==
  CASE line.kind = "BINARY_EXPR" -> <<Goal("expr", n, 0), Goal("expr", n, 0)>>
    [] line.kind = "CALL_EXPR" -> <<Goal("args", n, line.tabs)>>
    [] line.kind = "ARRAY_EXPR" -> <<Goal("elements", n, nextLine.tabs)>>
    [] OTHER -> <<>>

(* What is read under the expression on the current line, as node n. *)
Parts(n) ==
  CASE line.kind = "BINARY_EXPR" -> <<Goal("expr", n, 0), Goal("expr", n, 0)>>
    [] line.kind = "CALL_EXPR" -> <<Goal("args", n, line.tabs + 1)>>
    [] line.kind = "ARRAY_EXPR" -> <<Goal("elements", n, nextLine.tabs)>>
    [] OTHER -> <<>>

(* ReadExpr: a line that it does not know becomes an expression of kind ERROR. *)
KnownExpr ==
  line.kind \in Exprs /\ ~(line.kind = "NUMBER_EXPR" /\ line.name = Zero)

ReadExpr ==
  /\ Doing("expr")
  /\ Adds(IF KnownExpr THEN NodeRead(line.kind, goal.node) ELSE Bare("ERROR", goal.node))
  /\ GetLine
  /\ Then(IF KnownExpr THEN Parts(NewNode) ELSE <<>>)
  /\ UNCHANGED status

(* The arguments of a call are the expressions that have more tabs than it, the *)
(* elements of an array those that have as many as the first line after it.     *)
(* None has fewer than none: then the end of the file is read as an element     *)
(* for ever.                                                                    *)
ReadMore ==
  /\ Doing("args") \/ Doing("elements")
  /\ \/ /\ line.tabs >= goal.tabs
        /\ line.kind # "eof"
        /\ Then(<<Goal("expr", goal.node, 0), goal>>)
        /\ UNCHANGED <<status, mCurrentLine, read>>
     \/ /\ line.tabs >= goal.tabs
        /\ line.kind = "eof"
        /\ Stop("hung")
     \/ /\ line.tabs < goal.tabs
        /\ Then(<<>>)
        /\ UNCHANGED <<status, mCurrentLine, read>>

Read ==
  /\ ReadDecls \/ ReadParams \/ ReadCompoundStmt \/ EndBlock \/ ReadStmt \/ ReadExpr
     \/ ReadMore
  /\ UNCHANGED <<source, tree, open, lines, runs, mStreamOpen>>

Next == PrintNode \/ PrintLeave \/ Run \/ Read
Spec == Init /\ [][Next]_vars
FairSpec == Spec /\ WF_vars(Read)

----------------------------------------------------------------------------
(* The trees that the format can hold: without the nodes that get no line, a  *)
(* scan, an identifier or a spawned call for a statement, an empty array, a   *)
(* zero, a tab in a string.                                                   *)
Readable ==
  \A n \in Nodes :
     /\ Kind(n) \notin {"SPAWN_EXPR", "SLEEP_STMT", "SYNC_STMT", "SCAN_STMT", "null"}
     /\ Kind(n) = "IDENTIFIER_EXPR" => Kind(tree[n].up) # "COMPOUND_STMT"
     /\ Kind(n) = "ARRAY_EXPR" => Arity(n) > 0
     /\ Kind(n) = "NUMBER_EXPR" => tree[n].name # Zero
     /\ Kind(n) = "STRING_EXPR" => tree[n].name # Tab

(* Reading a file gives back the tree that was printed to it, whatever the    *)
(* nesting, for every tree that the format can hold: indentation alone tells  *)
(* the reader where arguments, elements, blocks and initial values end.       *)
RoundTrip ==
  Readable /\ status = "done" => read = tree

(* A run over a file that can be read comes to its end: no line of it makes   *)
(* the loops of Run and ReadCompoundStmt go round without reading on, and no  *)
(* assertion fails.                                                           *)
ReadableIsRead == (Readable /\ status = "reading") ~> (status = "done")
=============================================================================
