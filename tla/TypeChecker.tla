----------------------------- MODULE TypeChecker -----------------------------
(***************************************************************************)
(* The second pass (TosLang/Sema/typechecker.cpp): it walks in post-order, *)
(* gives expressions their types, narrows down the functions that a call   *)
(* may mean, and settles on one when what is around the call says which    *)
(* return type it takes.  It starts from the table of a program in which   *)
(* the collector found no error.                                           *)
(*                                                                         *)
(* A failed assertion, an exception that nobody catches and a null pointer *)
(* followed all end in "crashed".  Left out: the scope numbers that the    *)
(* checker counts and never reads, the entries that operator[] leaves in   *)
(* its maps (an entry ERROR or {} reads the same as none), and the type of *)
(* a binary expression that is settled late, which nothing reads again.    *)
(***************************************************************************)
EXTENDS SymbolCollector

VARIABLES
  visited,        \* nodes left by the walk
  mNodeTypes,     \* expression -> type
  mOverloadMap    \* call -> functions that it may mean

checkerVars == <<visited, mNodeTypes, mOverloadMap>>

(* Run, up to the walk. *)
StartChecking ==
  /\ mErrorCount' = 0
  /\ visited' = {}
  /\ mNodeTypes' = <<>>
  /\ mOverloadMap' = <<>>

(* In post-order the next node is the first in the tree that has nothing left *)
(* under it.                                                                  *)
Ready ==
  {n \in Nodes \ visited :
     /\ Kind(n) # "null"
     /\ \A i \in Children(n) : i \in visited \/ Kind(i) = "null"}
mCurrentNode == LET ready == Ready IN {n \in ready : \A m \in ready : n <= m}

TypeOf(n) == IF n \in DOMAIN mNodeTypes THEN mNodeTypes[n] ELSE "ERROR"
OverloadSet(n) == IF n \in DOMAIN mOverloadMap THEN mOverloadMap[n] ELSE {}
ReturnTypes(fns) == {GetReturnType(mTable[d]) : d \in fns}
FunctionAround(n) == CHOOSE f \in Ancestors[n] : Kind(f) = "FUNCTION_DECL"

Crash == pass' = "crashed" /\ UNCHANGED <<mErrorCount, mUseDefs, mNodeTypes, mOverloadMap>>

----------------------------------------------------------------------------
(* CheckExprEvaluateToType.  A binary expression that has no type is opened *)
(* up: Operands[<<n, t>>] are the expressions that are looked at, each with *)
(* the type that it is to have.                                             *)

Side(o, k) ==
  <<Child(o[1], k), IF tree[o[1]].name \in {"GREATER_THAN", "LESS_THAN"} THEN "NUMBER" ELSE o[2]>>
Operands[o \in Nodes \X Type] ==
  IF Kind(o[1]) # "BINARY_EXPR" \/ o[1] \in DOMAIN mNodeTypes THEN {o}
  ELSE Operands[Side(o, 1)] \cup Operands[Side(o, 2)]

Throws(n, t) ==
  \E o \in Operands[<<n, t>>] : Kind(o[1]) # "CALL_EXPR" /\ o[1] \notin DOMAIN mNodeTypes

Calls(n, t) == {o \in Operands[<<n, t>>] : Kind(o[1]) = "CALL_EXPR"}
Matched(n, t) == {o \in Calls(n, t) : o[2] \in ReturnTypes(OverloadSet(o[1]))}
Unmatched(n, t) == {o \in Calls(n, t) \ Matched(n, t) : OverloadSet(o[1]) # {}}

Evaluates(n, t) ==
  \A o \in Operands[<<n, t>>] :
     IF Kind(o[1]) = "CALL_EXPR" THEN o \in Matched(n, t) ELSE mNodeTypes[o[1]] = o[2]

(* The calls that match are tied to a function, and give up their sets. *)
Settle(n, t) ==
  LET calls == {o[1] : o \in Matched(n, t)}
      wanted == [c \in calls |-> (CHOOSE o \in Matched(n, t) : o[1] = c)[2]]
  IN  /\ \E choice \in [calls -> DOMAIN mTable] :
           /\ \A c \in calls : /\ choice[c] \in OverloadSet(c)
                               /\ GetReturnType(mTable[choice[c]]) = wanted[c]
           /\ mUseDefs' = [u \in DOMAIN mUseDefs \cup calls |->
                             IF u \in calls THEN choice[u] ELSE mUseDefs[u]]
      /\ mOverloadMap' = [c \in DOMAIN mOverloadMap \ calls |-> mOverloadMap[c]]

(* A handler that checks that n evaluates to t: a failure costs it errors, on *)
(* top of those that it has found already.                                    *)
CheckExprEvaluateToType(n, t, errors, found) ==
  IF Throws(n, t) THEN Crash
  ELSE /\ Settle(n, t)
       /\ mErrorCount' = mErrorCount + found + Cardinality(Unmatched(n, t))
                         + IF Evaluates(n, t) THEN 0 ELSE errors
       /\ UNCHANGED <<pass, mNodeTypes>>

----------------------------------------------------------------------------
(* The handlers. *)

Gives(n, type) ==
  mNodeTypes' = With(mNodeTypes, n, type) /\ UNCHANGED <<pass, mErrorCount, mUseDefs, mOverloadMap>>
Fails ==
  mErrorCount' = mErrorCount + 1 /\ UNCHANGED <<pass, mUseDefs, mNodeTypes, mOverloadMap>>
Passes == UNCHANGED <<pass, mErrorCount, mUseDefs, mNodeTypes, mOverloadMap>>

HandleVarDecl(n) ==
  LET init == Child(n, 1)
      wrongType == IF Kind(init) = "CALL_EXPR" THEN 0 ELSE 1
      wrongLength == IF /\ tree[n].size # 0
                        /\ Kind(init) = "ARRAY_EXPR"
                        /\ tree[n].size # Arity(init) THEN 1 ELSE 0
  IN  IF Arity(n) = 0 THEN Passes
      ELSE CheckExprEvaluateToType(init, tree[n].type, wrongType, wrongLength)

GetArrayVersion == [BOOL |-> "BOOL_ARRAY", NUMBER |-> "NUMBER_ARRAY", STRING |-> "STRING_ARRAY"]

HandleArrayExpr(n) ==
  LET elements == {TypeOf(c) : c \in Children(n)}
  IN  IF Cardinality(elements) # 1 THEN Fails
      ELSE LET type == CHOOSE t \in elements : TRUE
           IN  IF type \in DOMAIN GetArrayVersion
               THEN Gives(n, GetArrayVersion[type]) ELSE Crash

(* The types of the operands that are neither binary expressions, variables, *)
(* Booleans nor numbers are never written: they are whatever is there.       *)
Uninitialized == {"BOOL", "NUMBER", "STRING", "UNKNOWN"}
OperandTypes(c) ==
  CASE Kind(c) = "BOOLEAN_EXPR" -> {"BOOL"}
    [] Kind(c) = "NUMBER_EXPR" -> {"NUMBER"}
    [] Kind(c) = "IDENTIFIER_EXPR" -> {mNodeTypes[c]}
    [] Kind(c) = "BINARY_EXPR" -> {mNodeTypes[c]}
    [] OTHER -> Uninitialized

HandleBinaryExpr(n) ==
  LET lhs == Child(n, 1)
      rhs == Child(n, 2)
  IN  IF tree[n].name = "ASSIGNMENT" /\ Kind(lhs) # "IDENTIFIER_EXPR" THEN Fails
      ELSE IF Kind(rhs) = "BINARY_EXPR" /\ rhs \notin DOMAIN mNodeTypes THEN Crash
      ELSE \E l \in OperandTypes(lhs), r \in OperandTypes(rhs) :
             IF l # r THEN Fails
             ELSE Gives(n, IF tree[n].name \in {"EQUAL", "GREATER_THAN", "LESS_THAN"}
                           THEN "BOOL" ELSE l)

(* Whether function d can take argument k of call n.  An argument that is    *)
(* itself a call is held against the function's return type.                 *)
Accepts(d, n, k) ==
  LET arg == Child(n, k)
  IN  IF Kind(arg) = "CALL_EXPR"
      THEN GetReturnType(mTable[d]) \in ReturnTypes(OverloadSet(arg))
      ELSE GetFunctionParamTypes(mTable[d])[k] = TypeOf(arg)

HandleCallExpr(n) ==
  LET sameLength == {d \in GetOverloadCandidates(tree[n].name) :
                       Len(GetFunctionParamTypes(mTable[d])) = Arity(n)}
      stops == {k \in 1..Arity(n) :
                  \/ Kind(Child(n, k)) = "null"
                  \/ Kind(Child(n, k)) = "CALL_EXPR" /\ OverloadSet(Child(n, k)) = {}}
      first == CHOOSE k \in stops : \A l \in stops : k <= l
      candidates == {d \in sameLength : \A k \in 1..Arity(n) : Accepts(d, n, k)}
      Entry(fns, errors) ==
        /\ mOverloadMap' = With(mOverloadMap, n, fns)
        /\ mErrorCount' = mErrorCount + errors
        /\ UNCHANGED <<pass, mUseDefs, mNodeTypes>>
  IN  IF sameLength = {} THEN Entry({}, 1)
      ELSE IF stops # {} THEN IF Kind(Child(n, first)) = "null" THEN Crash ELSE Passes
      ELSE Entry(candidates, IF candidates = {} THEN 1 ELSE 0)

HandleIdentifierExpr(n) ==
  IF HasSymbol(n) /\ ~SymbolOf(n).mIsFunction
  THEN Gives(n, Head(SymbolOf(n).mType)) ELSE Crash

(* Mutant: the answer of the check is dropped. *)
HandleCondUnchecked(n) == CheckExprEvaluateToType(Child(n, 1), "BOOL", 0, 0)

HandleCond(n) == CheckExprEvaluateToType(Child(n, 1), "BOOL", 1, 0)

(* Mutant: the value is asked for before the return type. *)
HandleReturnStmtEager(n) ==
  LET type == GetReturnType(mTable[FunctionAround(n)])
  IN  IF Arity(n) = 0 THEN Crash
      ELSE IF type = "VOID" THEN Fails
      ELSE CheckExprEvaluateToType(Child(n, 1), type, 1, 0)

HandleReturnStmt(n) ==
  LET type == GetReturnType(mTable[FunctionAround(n)])
  IN  IF type = "VOID" THEN IF Arity(n) = 0 THEN Passes ELSE Fails
      ELSE IF Arity(n) = 0 THEN Crash
      ELSE CheckExprEvaluateToType(Child(n, 1), type, 1, 0)

----------------------------------------------------------------------------
LiteralType == [BOOLEAN_EXPR |-> "BOOL", NUMBER_EXPR |-> "NUMBER", STRING_EXPR |-> "STRING"]

(* The kinds without a handler; SLEEP_STMT has one that is never dispatched, *)
(* and that of SPAWN_EXPR asks what the parser has made sure of.             *)
NotHandled ==
  (Decls \ {"VAR_DECL"}) \cup {"SPAWN_EXPR"}
  \cup (Stmts \ {"IF_STMT", "WHILE_STMT", "RETURN_STMT"})

DispatchNode(n) ==
  \/ Kind(n) = "VAR_DECL" /\ HandleVarDecl(n)
  \/ Kind(n) = "ARRAY_EXPR" /\ HandleArrayExpr(n)
  \/ Kind(n) = "BINARY_EXPR" /\ HandleBinaryExpr(n)
  \/ Kind(n) = "CALL_EXPR" /\ HandleCallExpr(n)
  \/ Kind(n) = "IDENTIFIER_EXPR" /\ HandleIdentifierExpr(n)
  \/ Kind(n) \in DOMAIN LiteralType /\ Gives(n, LiteralType[Kind(n)])
  \/ Kind(n) = "IF_STMT" /\ HandleCond(n)
  \/ Kind(n) = "WHILE_STMT" /\ HandleCond(n)
  \/ Kind(n) = "RETURN_STMT" /\ HandleReturnStmt(n)
  \/ Kind(n) \in NotHandled /\ Passes

CheckNode ==
  /\ pass = "checking"
  /\ \E n \in mCurrentNode :
       DispatchNode(n) /\ visited' = visited \cup {n}

(* What Run does after the walk with the calls that nothing settled. *)
Leftover(k) == {c \in DOMAIN mOverloadMap : Cardinality(mOverloadMap[c]) = k}
Ambiguous == {c \in DOMAIN mOverloadMap : Cardinality(mOverloadMap[c]) > 1}
(* Mutant: calls whose value nothing uses are left as they are. *)
SettleLeftoversNot == UNCHANGED mUseDefs

SettleLeftovers ==
  mUseDefs' = [u \in DOMAIN mUseDefs \cup Leftover(1) |->
                 IF u \in Leftover(1) THEN CHOOSE d \in mOverloadMap[u] : TRUE
                 ELSE mUseDefs[u]]
Errors == mErrorCount + Cardinality(Ambiguous)
=============================================================================
