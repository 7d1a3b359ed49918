--------------------------------- MODULE AST ---------------------------------
(***************************************************************************)
(* The tree of a TosLang program (TosLang/AST) and the walk over it that   *)
(* every pass shares (Common/astvisitor.h).  A tree is the sequence of its *)
(* nodes in pre-order, a node is known by its place in it (its address)    *)
(* and names its parent.  The first pass makes the tree up as it walks:    *)
(* any tree that the parser builds from the shapes of a source.            *)
(*                                                                         *)
(* "null" is a child that the parser left null: an argument or an element  *)
(* that it could not parse, a function's body that does not begin with a   *)
(* brace.  Declarations and statements of kind ERROR have no children and  *)
(* no handler, and a statement that is null is skipped: both are as good   *)
(* as absent.  INDEX_EXPR is missing since the parser cannot build one (it *)
(* stops at an assertion, see Parser).                                     *)
(***************************************************************************)
EXTENDS Naturals, Sequences, FiniteSets

CONSTANT
  Sources    \* families of programs: what a node may be (shapes), the shapes
             \* that every program begins with, place by place (given), and
             \* the bound on nodes, those a node cannot do without aside (nodes)

Decls == {"PROGRAM_DECL", "FUNCTION_DECL", "PARAM_VAR_DECL", "VAR_DECL"}
Exprs == {"ARRAY_EXPR", "BINARY_EXPR", "BOOLEAN_EXPR", "CALL_EXPR",
          "IDENTIFIER_EXPR", "NUMBER_EXPR", "SPAWN_EXPR", "STRING_EXPR"}
Stmts == {"COMPOUND_STMT", "IF_STMT", "PRINT_STMT", "RETURN_STMT", "SCAN_STMT",
          "SLEEP_STMT", "SYNC_STMT", "WHILE_STMT"}
NodeKind == Decls \cup Exprs \cup Stmts \cup {"null"}

Type == {"ERROR", "BOOL", "NUMBER", "STRING", "VOID", "BOOL_ARRAY",
         "NUMBER_ARRAY", "STRING_ARRAY", "UNKNOWN"}

(* params is for a FUNCTION_DECL: the shapes of its parameters.  type is what *)
(* a declaration declares; name also holds an operation or a literal.         *)
Shape(kind, name, type, size, params) ==
  [kind |-> kind, name |-> name, type |-> type, size |-> size, params |-> params]
Plain(kind) == Shape(kind, "", "", 0, <<>>)
Named(kind, name) == Shape(kind, name, "", 0, <<>>)
Var(name, type) == Shape("VAR_DECL", name, type, 0, <<>>)
Array(name, type, size) == Shape("VAR_DECL", name, type, size, <<>>)
Function(name, type, params) == Shape("FUNCTION_DECL", name, type, 0, params)

ParamShape ==
  [kind : {"VAR_DECL"}, name : STRING, type : Type, size : Nat, params : {<<>>}]
NodeShape ==
  [kind : NodeKind, name : STRING, type : Type \cup {""}, size : Nat,
   params : Seq(ParamShape)]

Source(shapes, given, nodes) == [shapes |-> shapes, given |-> given, nodes |-> nodes]
ASSUME SourcesAssumption ==
  \A source \in Sources :
     /\ source.shapes \subseteq NodeShape
     /\ \A s \in source.shapes : s.kind \in {"FUNCTION_DECL", "VAR_DECL"} => s.type \in Type
     /\ source.nodes \in Nat

VARIABLES
  source, \* the family that the programs are of
  tree,   \* the nodes, in pre-order
  open    \* the node being visited and its ancestors, innermost first

----------------------------------------------------------------------------
(* Nodes. *)

NodeOf(shape, up) ==
  [kind |-> shape.kind, name |-> shape.name, type |-> shape.type,
   size |-> shape.size, up |-> up]
Program == NodeOf(Plain("PROGRAM_DECL"), 0)

Nodes == DOMAIN tree
Kind(n) == tree[n].kind
Children(n) == {i \in Nodes : tree[i].up = n}
Arity(n) == Cardinality(Children(n))
Child(n, k) ==
  CHOOSE i \in Children(n) : Cardinality({j \in Children(n) : j < i}) = k - 1
OfKind(kind) == {n \in Nodes : Kind(n) = kind}
IsParameter(n) == Kind(tree[n].up) = "PARAM_VAR_DECL"

(* Ancestors[n] is the set of the nodes that n is under, n among them. *)
Ancestors[n \in 0..Len(tree)] ==
  IF n = 0 THEN {} ELSE {n} \cup Ancestors[tree[n].up]

----------------------------------------------------------------------------
(* What the parser puts under a node: the kinds its k-th child may have.   *)
(* The left operand of a binary expression is no binary expression (the    *)
(* right one takes all that follows), and a statement that is an           *)
(* expression begins with an identifier or with spawn.                     *)

Takes(n, k) ==
  CASE Kind(n) = "PROGRAM_DECL" -> {"FUNCTION_DECL", "VAR_DECL"}
    [] Kind(n) = "FUNCTION_DECL" -> IF k = 2 THEN {"COMPOUND_STMT", "null"} ELSE {}
    [] Kind(n) = "COMPOUND_STMT" ->
         {"VAR_DECL", "BINARY_EXPR", "CALL_EXPR", "IDENTIFIER_EXPR", "SPAWN_EXPR"}
         \cup (Stmts \ {"COMPOUND_STMT"})
    [] Kind(n) \in {"ARRAY_EXPR", "CALL_EXPR"} -> Exprs \cup {"null"}
    [] Kind(n) \in {"VAR_DECL", "PRINT_STMT", "RETURN_STMT", "SLEEP_STMT"} ->
         IF k = 1 THEN Exprs ELSE {}
    [] Kind(n) = "SPAWN_EXPR" -> IF k = 1 THEN {"CALL_EXPR"} ELSE {}
    [] Kind(n) = "SCAN_STMT" -> IF k = 1 THEN {"IDENTIFIER_EXPR"} ELSE {}
    [] Kind(n) \in {"IF_STMT", "WHILE_STMT"} ->
         IF k = 1 THEN Exprs ELSE IF k = 2 THEN {"COMPOUND_STMT"} ELSE {}
    [] Kind(n) = "BINARY_EXPR" ->
         IF k = 2 THEN Exprs
         ELSE IF k = 1 THEN
           IF Kind(tree[n].up) = "COMPOUND_STMT"
           THEN {"IDENTIFIER_EXPR", "CALL_EXPR", "SPAWN_EXPR"}
           ELSE Exprs \ {"BINARY_EXPR"}
         ELSE {}
    [] OTHER -> {}

Needs(n) ==
  CASE Kind(n) \in {"FUNCTION_DECL", "BINARY_EXPR", "IF_STMT", "WHILE_STMT"} -> 2
    [] Kind(n) \in {"SPAWN_EXPR", "SCAN_STMT", "SLEEP_STMT"} -> 1
    [] OTHER -> 0

(* Beyond the bound a node only gets the children that it cannot do without, *)
(* each of a kind that needs none itself.                                    *)
Filler(n) ==
  CASE Kind(n) = "SPAWN_EXPR" -> "CALL_EXPR"
    [] Kind(n) = "SCAN_STMT" -> "IDENTIFIER_EXPR"
    [] Kind(n) \in {"FUNCTION_DECL", "IF_STMT", "WHILE_STMT"} /\ Arity(n) = 1 -> "COMPOUND_STMT"
    [] OTHER -> "BOOLEAN_EXPR"
Room(kind) ==
  \/ Len(tree) < source.nodes
  \/ Arity(Head(open)) < Needs(Head(open)) /\ kind = Filler(Head(open))

----------------------------------------------------------------------------
(* The walk.  A pass enters a node, then its children, then leaves it. *)

Here == Len(tree) + 1   \* the node that is being entered
InGiven == Here <= Len(source.given)

NextOf(shape) ==
  /\ open # <<>>
  /\ InGiven => shape = source.given[Here]
  /\ shape.kind \in Takes(Head(open), Arity(Head(open)) + 1)
  /\ Room(shape.kind)

(* A function comes with its parameters: the ParamVarDecls and its children, *)
(* which have none, are walked over at once.                                 *)
Grown(shape) ==
  LET n == Here
      params == [k \in 1..Len(shape.params) |-> NodeOf(shape.params[k], n + 1)]
  IN  Append(tree, NodeOf(shape, Head(open)))
      \o (IF shape.kind = "FUNCTION_DECL"
          THEN <<NodeOf(Plain("PARAM_VAR_DECL"), n)>> \o params ELSE <<>>)

(* A node that never has children is entered and left in one step; a null *)
(* one is not entered.                                                    *)
Leaves == {"BOOLEAN_EXPR", "NUMBER_EXPR", "STRING_EXPR", "IDENTIFIER_EXPR",
           "SYNC_STMT", "null"}

EnterNew(shape) ==
  /\ NextOf(shape)
  /\ tree' = Grown(shape)
  /\ open' = IF shape.kind \in Leaves THEN open ELSE <<Here>> \o open
  /\ UNCHANGED source

Complete ==
  /\ open # <<>>
  /\ Arity(Head(open)) >= Needs(Head(open))
  /\ InGiven => source.given[Here].kind \notin Takes(Head(open), Arity(Head(open)) + 1)

LeaveNew ==
  /\ Complete
  /\ open' = Tail(open)
  /\ UNCHANGED <<source, tree>>
=============================================================================
