----------------------------- MODULE SymbolTable -----------------------------
(***************************************************************************)
(* The symbol table (TosLang/Sema/symboltable.cpp, symbol.h): a symbol for *)
(* every declaration, and for every use the declaration it stands for.     *)
(* The table is a hash map keyed by addresses: where several symbols answer *)
(* a search, any of them may be the one that is found.  Clear empties the  *)
(* first map only.                                                         *)
(***************************************************************************)
EXTENDS AST

VARIABLES
  mTable,     \* declaration -> symbol
  mUseDefs    \* identifier or call -> declaration

VariableSymbol(type, scopeID, name, size) ==
  [mType |-> <<type>>, mScopeID |-> scopeID, mIsFunction |-> FALSE,
   mName |-> name, mSize |-> size]
FunctionSymbol(types, name) ==
  [mType |-> types, mScopeID |-> 0, mIsFunction |-> TRUE, mName |-> name, mSize |-> 0]

GetReturnType(sym) == Head(sym.mType)
GetFunctionParamTypes(sym) == Tail(sym.mType)

With(f, x, v) == [y \in DOMAIN f \cup {x} |-> IF y = x THEN v ELSE f[y]]

----------------------------------------------------------------------------
(* Functions clash on name, return and parameter types, variables on name  *)
(* and scope; a function and a variable never do.                          *)
Redefines(sym, other) ==
  /\ sym.mIsFunction = other.mIsFunction
  /\ sym.mName = other.mName
  /\ IF sym.mIsFunction
     THEN sym.mType = other.mType
     ELSE sym.mScopeID = other.mScopeID

CanAddSymbol(table, sym) == \A d \in DOMAIN table : ~Redefines(sym, table[d])

AddSymbol(table, node, sym) ==
  IF CanAddSymbol(table, sym) THEN With(table, node, sym) ELSE table

(* AddVariableUse: the scopes from the innermost outwards, the first that    *)
(* holds the name.  Functions count as symbols of scope 0 here.              *)
NamedIn(scopeID, name) ==
  {d \in DOMAIN mTable : mTable[d].mScopeID = scopeID /\ mTable[d].mName = name}
(* Mutant: the last scope that holds the name is taken. *)
FoundOnOutermost(path, name) ==
  LET hits == {k \in DOMAIN path : NamedIn(path[k], name) # {}}
  IN  IF hits = {} THEN {}
      ELSE NamedIn(path[CHOOSE k \in hits : \A l \in hits : k >= l], name)

FoundOn(path, name) ==
  LET hits == {k \in DOMAIN path : NamedIn(path[k], name) # {}}
  IN  IF hits = {} THEN {}
      ELSE NamedIn(path[CHOOSE k \in hits : \A l \in hits : k <= l], name)

(* TryGetSymbol of a use: there is one when the declaration that the use is  *)
(* tied to is in the table.                                                  *)
HasSymbol(use) == use \in DOMAIN mUseDefs /\ mUseDefs[use] \in DOMAIN mTable
SymbolOf(use) == mTable[mUseDefs[use]]

GetOverloadCandidates(name) ==
  {d \in DOMAIN mTable : Kind(d) = "FUNCTION_DECL" /\ mTable[d].mName = name}
IsFunctionNameValid(name) == GetOverloadCandidates(name) # {}
GetFunctionDecl(sym) == {d \in DOMAIN mTable : mTable[d] = sym}
=============================================================================
