------------------------------ MODULE MCASTFile ------------------------------
(* Trees of every kind of node. *)
EXTENDS ASTFile
AnyNode ==
  {Function("f", "VOID", <<>>), Function("g", "VOID", <<Var("p", "NUMBER")>>),
   Var("x", "NUMBER"), Named("NUMBER_EXPR", Zero),
   Named("STRING_EXPR", Tab), Named("IDENTIFIER_EXPR", "x"), Named("CALL_EXPR", "f"),
   Named("BINARY_EXPR", "PLUS"), Named("BOOLEAN_EXPR", "True")}
  \cup {Plain(kind) : kind \in {"ARRAY_EXPR", "SPAWN_EXPR", "COMPOUND_STMT", "WHILE_STMT",
                                "PRINT_STMT", "SCAN_STMT", "SLEEP_STMT", "null"}}
AnyTree == {Source(AnyNode, <<>>, 7)}
==============================================================================
