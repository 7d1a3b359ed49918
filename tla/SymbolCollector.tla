--------------------------- MODULE SymbolCollector ---------------------------
(***************************************************************************)
(* The first pass over a tree (TosLang/Sema/symbolcollector.cpp): it walks *)
(* in pre-order, fills the symbol table and ties every identifier to a     *)
(* declaration.  A scope gets a number when it is opened; a variable is    *)
(* filed under the number that was given out last, which is its own scope  *)
(* only until a scope inside it has been opened.                           *)
(***************************************************************************)
EXTENDS SymbolTable

VARIABLES
  pass,                 \* which pass runs, or how the last program ended
  mErrorCount,          \* errors of the running pass
  mCurrentFunc,         \* the function being walked over, 0 if none
  mCurrentScopeID,
  mCurrentScopesPath

collectorVars == <<mCurrentScopeID, mCurrentScopesPath>>

(* SymbolCollector::Run, up to the walk. *)
StartCollecting ==
  /\ mErrorCount' = 0
  /\ mTable' = <<>>
  /\ mCurrentScopeID' = 0
  /\ UNCHANGED <<mUseDefs, mCurrentScopesPath, mCurrentFunc>>

----------------------------------------------------------------------------
(* The handlers, each with the prologue of its node. *)

(* The parameters are filed under the scope that the body is about to open,  *)
(* one after the other: one is kept out by a symbol of the table, or by a    *)
(* parameter before it (which, if that one was kept out, keeps it out too).  *)
CollectFunctionDecl(shape) ==
  /\ shape.kind = "FUNCTION_DECL"
  /\ EnterNew(shape)
  /\ LET types == <<shape.type>> \o [k \in DOMAIN shape.params |-> shape.params[k].type]
         fnSym == FunctionSymbol(types, shape.name)
         Param(k) == VariableSymbol(shape.params[k].type, mCurrentScopeID + 1,
                                    shape.params[k].name, shape.params[k].size)
         table == AddSymbol(mTable, Here, fnSym)
         clashes == {k \in DOMAIN shape.params :
                       \/ ~CanAddSymbol(table, Param(k))
                       \/ \E j \in 1..k - 1 : Redefines(Param(k), Param(j))}
         added == {Here + 1 + k : k \in DOMAIN shape.params \ clashes}
     IN  /\ mTable' = [d \in DOMAIN table \cup added |->
                         IF d \in added THEN Param(d - Here - 1) ELSE table[d]]
         /\ mErrorCount' = mErrorCount + (IF CanAddSymbol(mTable, fnSym) THEN 0 ELSE 1)
                                       + Cardinality(clashes)
  /\ mCurrentFunc' = Here
  /\ UNCHANGED <<mUseDefs, collectorVars>>

CollectVarDecl(shape) ==
  LET sym == VariableSymbol(shape.type, mCurrentScopeID, shape.name, shape.size)
  IN  /\ shape.kind = "VAR_DECL"
      /\ EnterNew(shape)
      /\ mTable' = AddSymbol(mTable, Here, sym)
      /\ mErrorCount' = mErrorCount + IF CanAddSymbol(mTable, sym) THEN 0 ELSE 1
      /\ UNCHANGED <<mUseDefs, mCurrentFunc, collectorVars>>

CollectCallExpr(shape) ==
  /\ shape.kind = "CALL_EXPR"
  /\ EnterNew(shape)
  /\ mErrorCount' = mErrorCount + IF IsFunctionNameValid(shape.name) THEN 0 ELSE 1
  /\ UNCHANGED <<mTable, mUseDefs, mCurrentFunc, collectorVars>>

CollectIdentifierExpr(shape) ==
  /\ shape.kind = "IDENTIFIER_EXPR"
  /\ EnterNew(shape)
  /\ \/ \E d \in FoundOn(mCurrentScopesPath, shape.name) :
          mUseDefs' = With(mUseDefs, Here, d) /\ UNCHANGED mErrorCount
     \/ /\ FoundOn(mCurrentScopesPath, shape.name) = {}
        /\ mErrorCount' = mErrorCount + 1
        /\ UNCHANGED mUseDefs
  /\ UNCHANGED <<mTable, mCurrentFunc, collectorVars>>

CollectCompoundStmt(shape) ==
  /\ shape.kind = "COMPOUND_STMT"
  /\ EnterNew(shape)
  /\ mCurrentScopeID' = mCurrentScopeID + 1
  /\ mCurrentScopesPath' = <<mCurrentScopeID'>> \o mCurrentScopesPath
  /\ UNCHANGED <<mTable, mUseDefs, mErrorCount, mCurrentFunc>>

(* The kinds that the collector has no handler for. *)
CollectOther(shape) ==
  /\ shape.kind \notin {"FUNCTION_DECL", "VAR_DECL", "CALL_EXPR", "IDENTIFIER_EXPR",
                        "COMPOUND_STMT"}
  /\ EnterNew(shape)
  /\ UNCHANGED <<mTable, mUseDefs, mErrorCount, mCurrentFunc, collectorVars>>

(* Mutant: a block stays on the path when it is left. *)
CollectLeaveStays ==
  /\ LeaveNew
  /\ mCurrentFunc' = IF Kind(Head(open)) = "FUNCTION_DECL" THEN 0 ELSE mCurrentFunc
  /\ UNCHANGED <<mTable, mUseDefs, mErrorCount, collectorVars>>

(* The epilogue. *)
CollectLeave ==
  /\ LeaveNew
  /\ mCurrentScopesPath' = IF Kind(Head(open)) = "COMPOUND_STMT"
                           THEN Tail(mCurrentScopesPath) ELSE mCurrentScopesPath
  /\ mCurrentFunc' = IF Kind(Head(open)) = "FUNCTION_DECL" THEN 0 ELSE mCurrentFunc
  /\ UNCHANGED <<mTable, mUseDefs, mErrorCount, mCurrentScopeID>>
=============================================================================
