------------------------------- MODULE FrontEnd -------------------------------
(***************************************************************************)
(* The front end on one program after another (Execution/interpreter.cpp,  *)
(* compiler.cpp): the symbol collector, then, if it found no error, the    *)
(* type checker, then, if that found none either, the search for main.     *)
(* The passes and the table are the same objects for every program, and    *)
(* the nodes of a program are freed before those of the next one are made, *)
(* so that these may be given the addresses of the former.                 *)
(***************************************************************************)
EXTENDS TypeChecker

CONSTANT Repeated   \* the sources of which two programs are run
ASSUME RepeatedAssumption == Repeated \subseteq Sources

VARIABLE programs   \* programs begun

vars == <<source, tree, open, mTable, mUseDefs, pass, mErrorCount, mCurrentFunc,
          collectorVars, checkerVars, programs>>

Ended == {"accepted", "nomain", "rejected"}
Passed == pass \in {"accepted", "nomain"}

Init ==
  /\ source \in Sources
  /\ tree = <<Program>>
  /\ open = <<1>>
  /\ mTable = <<>>
  /\ mUseDefs = <<>>
  /\ pass = "collecting"
  /\ mErrorCount = 0
  /\ mCurrentFunc = 0
  /\ mCurrentScopeID = 0
  /\ mCurrentScopesPath = <<0>>
  /\ visited = {}
  /\ mNodeTypes = <<>>
  /\ mOverloadMap = <<>>
  /\ programs = 1

----------------------------------------------------------------------------
Collect ==
  /\ pass = "collecting"
  /\ \E shape \in source.shapes :
       \/ CollectFunctionDecl(shape)
       \/ CollectVarDecl(shape)
       \/ CollectCallExpr(shape)
       \/ CollectIdentifierExpr(shape)
       \/ CollectCompoundStmt(shape)
       \/ CollectOther(shape)
  /\ UNCHANGED <<pass, checkerVars, programs>>

Leave ==
  /\ pass = "collecting"
  /\ CollectLeave
  /\ UNCHANGED <<pass, checkerVars, programs>>

EndCollecting ==
  /\ pass = "collecting"
  /\ open = <<>>
  /\ IF mErrorCount # 0
     THEN pass' = "rejected" /\ UNCHANGED <<mErrorCount, checkerVars>>
     ELSE pass' = "checking" /\ StartChecking
  /\ UNCHANGED <<source, tree, open, mTable, mUseDefs, mCurrentFunc, collectorVars, programs>>

Check ==
  /\ CheckNode
  /\ UNCHANGED <<source, tree, open, mTable, mCurrentFunc, collectorVars, programs>>

EndChecking ==
  /\ pass = "checking"
  /\ Ready = {}
  /\ SettleLeftovers
  /\ mErrorCount' = Errors
  /\ pass' = IF mErrorCount' # 0 THEN "rejected"
             ELSE IF GetFunctionDecl(FunctionSymbol(<<"VOID">>, "main")) = {} THEN "nomain"
             ELSE "accepted"
  /\ UNCHANGED <<source, tree, open, mTable, mCurrentFunc, collectorVars, checkerVars, programs>>

NextProgram ==
  /\ pass \in Ended
  /\ programs = 1 /\ source \in Repeated
  /\ programs' = 2
  /\ tree' = <<Program>>
  /\ open' = <<1>>
  /\ pass' = "collecting"
  /\ StartCollecting
  /\ UNCHANGED <<source, checkerVars>>

Next == Collect \/ Leave \/ EndCollecting \/ Check \/ EndChecking \/ NextProgram

Spec == Init /\ [][Next]_vars

----------------------------------------------------------------------------
Identifiers == OfKind("IDENTIFIER_EXPR")
WholeFunctions == \A f \in OfKind("FUNCTION_DECL") : Arity(f) = 2 => Kind(Child(f, 2)) # "null"

(* Where a declaration can be seen: in the block, or the function, or the    *)
(* program, that it stands in.                                               *)
Region(d) ==
  IF IsParameter(d) THEN tree[tree[d].up].up ELSE tree[d].up

(* What an identifier means: of the variables of its name whose region it is *)
(* in and that come before it, the one with the innermost region.            *)
Visible(i) ==
  {d \in OfKind("VAR_DECL") :
     tree[d].name = tree[i].name /\ d < i /\ Region(d) \in Ancestors[i]}
Innermost(i) == {d \in Visible(i) : \A e \in Visible(i) : Region(e) \in Ancestors[Region(d)]}

(* A program that passes has every identifier tied to a declaration that is  *)
(* of this program and can be seen where the identifier stands, although     *)
(* scopes are misfiled, use-def pairs of earlier programs are never cleared   *)
(* (symboltable.h:58) and their addresses come back.  A function that lost    *)
(* its body leaves its parameters to the next block (symbolcollector.cpp:115).*)
PassedUsesAreVisible ==
  Passed /\ WholeFunctions =>
    \A i \in Identifiers :
       /\ HasSymbol(i)
       /\ mUseDefs[i] \in Visible(i)

(* A variable that is declared after a block inside its own block is filed   *)
(* under the number of that block (symbolcollector.cpp:138): it is not found  *)
(* where it should be, and an outer variable of the name is taken instead.    *)
DeclaredBeforeBlocks ==
  \A d \in OfKind("VAR_DECL"), c \in OfKind("COMPOUND_STMT") :
     c < d /\ c # Region(d) => Region(d) \notin Ancestors[c]

(* As long as every block declares its variables before it opens a block, an *)
(* identifier of a program that passes means the innermost variable of its    *)
(* name, of all those that shadow each other in the blocks around it.         *)
PassedUsesAreInnermost ==
  Passed /\ WholeFunctions /\ DeclaredBeforeBlocks =>
    \A i \in Identifiers : mUseDefs[i] \in Innermost(i)

(* Once a program has passed, every call is tied to a function of this       *)
(* program that has its name and takes as many arguments, whether a context  *)
(* settled it, the loop at the end of Run did, or both left it (lines 59-71).*)
PassedCallsAreResolved ==
  Passed =>
    \A c \in OfKind("CALL_EXPR") :
       /\ HasSymbol(c)
       /\ SymbolOf(c).mIsFunction
       /\ SymbolOf(c).mName = tree[c].name
       /\ Len(GetFunctionParamTypes(SymbolOf(c))) = Arity(c)

(* The type an expression has by the declarations it is tied to, on its own  *)
(* and not by what the checker noted.                                        *)
TrueType[n \in Nodes] ==
  CASE Kind(n) \in DOMAIN LiteralType -> LiteralType[Kind(n)]
    [] Kind(n) \in {"IDENTIFIER_EXPR", "CALL_EXPR"} -> Head(SymbolOf(n).mType)
    [] Kind(n) = "ARRAY_EXPR" -> GetArrayVersion[TrueType[Child(n, 1)]]
    [] Kind(n) = "BINARY_EXPR" ->
         IF tree[n].name \in {"EQUAL", "GREATER_THAN", "LESS_THAN"} THEN "BOOL"
         ELSE TrueType[Child(n, 1)]
    [] OTHER -> "ERROR"

DefinedOperands ==
  \A b \in OfKind("BINARY_EXPR"), k \in 1..2 :
     Kind(Child(b, k)) \in {"BINARY_EXPR", "BOOLEAN_EXPR", "IDENTIFIER_EXPR", "NUMBER_EXPR"}

(* A program that passes is well typed: initial values, conditions, returned *)
(* values, operands, and arguments that are no calls themselves have the     *)
(* types that their places ask for, by the declarations that names are tied  *)
(* to.  Operands whose types the checker never writes are left out           *)
(* (typechecker.cpp:280).                                                    *)
PassedIsWellTyped ==
  Passed /\ DefinedOperands =>
    /\ \A v \in OfKind("VAR_DECL") : Arity(v) = 1 => TrueType[Child(v, 1)] = tree[v].type
    /\ \A s \in OfKind("IF_STMT") \cup OfKind("WHILE_STMT") : TrueType[Child(s, 1)] = "BOOL"
    /\ \A r \in OfKind("RETURN_STMT") :
         LET type == tree[FunctionAround(r)].type
         IN  IF Arity(r) = 0 THEN type = "VOID" ELSE TrueType[Child(r, 1)] = type
    /\ \A b \in OfKind("BINARY_EXPR") : TrueType[Child(b, 1)] = TrueType[Child(b, 2)]
    /\ \A c \in OfKind("CALL_EXPR") : \A k \in 1..Arity(c) :
         Kind(Child(c, k)) # "CALL_EXPR" =>
           TrueType[Child(c, k)] = GetFunctionParamTypes(SymbolOf(c))[k]

(* Every argument of a call in a program that passes has the type of its      *)
(* parameter: "Remove candidates that don't require one of the possible types *)
(* at iArg index" (typechecker.cpp:383).                                      *)
ArgumentsMatch ==
  Passed =>
    \A c \in OfKind("CALL_EXPR") : \A k \in 1..Arity(c) :
       Kind(Child(c, k)) = "CALL_EXPR" =>
         TrueType[Child(c, k)] = GetFunctionParamTypes(SymbolOf(c))[k]

(* Whether all children of n are literals of one of the kinds, and there is  *)
(* at least one.                                                             *)
OfOneKind(n, kinds) ==
  Arity(n) > 0 /\ \E k \in kinds : \A i \in Children(n) : Kind(i) = k

(* What the checker may die on: a spawn used as a value, an array that is not *)
(* made of literals of one kind, a null argument or element, a name that is   *)
(* also a function's, a return without a value from a function that returns   *)
(* one, an operand that may itself be ill-typed.                              *)
Fatal ==
  \/ \E n \in OfKind("SPAWN_EXPR") : Kind(tree[n].up) # "COMPOUND_STMT"
  \/ \E a \in OfKind("ARRAY_EXPR") : ~OfOneKind(a, DOMAIN LiteralType)
  \/ OfKind("null") # {}
  \/ \E i \in Identifiers : IsFunctionNameValid(tree[i].name)
  \/ \E r \in OfKind("RETURN_STMT") : Arity(r) = 0 /\ tree[FunctionAround(r)].type # "VOID"
  \/ \E b \in OfKind("BINARY_EXPR") :
       /\ Kind(tree[b].up) = "BINARY_EXPR"
       /\ tree[b].name = "ASSIGNMENT" \/ ~OfOneKind(b, {"BOOLEAN_EXPR", "NUMBER_EXPR"})

(* The assertions and unchecked look-ups of the checker hold for every        *)
(* program without one of these, whatever errors it has.                      *)
CrashesAreKnown == pass = "crashed" => Fatal
=============================================================================
