----------------------------- MODULE MCFrontEnd ------------------------------
(* Two families of programs.                                                 *)
EXTENDS FrontEnd

(* Blocks, declarations and uses of one variable name and one function name. *)
BlockShapes ==
  {Function("f", "VOID", <<Var("x", "NUMBER")>>), Function("main", "VOID", <<>>),
   Var("x", "NUMBER"), Plain("COMPOUND_STMT"), Plain("null"), Plain("IF_STMT"),
   Plain("BOOLEAN_EXPR"), Named("IDENTIFIER_EXPR", "x")}

(* A number n, two functions g that differ in what they return, and f from   *)
(* Booleans to numbers, then anything that uses them.                        *)
Given ==
  <<Plain("PROGRAM_DECL"), Var("n", "NUMBER"),
    Function("g", "NUMBER", <<>>), Plain("PARAM_VAR_DECL"), Plain("COMPOUND_STMT"),
    Function("g", "BOOL", <<>>), Plain("PARAM_VAR_DECL"), Plain("COMPOUND_STMT"),
    Function("f", "NUMBER", <<Var("p", "BOOL")>>), Plain("PARAM_VAR_DECL"), Var("p", "BOOL"),
    Plain("COMPOUND_STMT")>>
UseShapes ==
  {Given[k] : k \in {2, 3, 5, 6, 9}}
  \cup {Function("main", "VOID", <<>>), Var("b", "BOOL"),
        Array("a", "NUMBER_ARRAY", 2),
        Named("CALL_EXPR", "f"), Named("CALL_EXPR", "g"), Named("IDENTIFIER_EXPR", "n"),
        Named("IDENTIFIER_EXPR", "g")}
  \cup {Named("BINARY_EXPR", op) : op \in {"PLUS", "LESS_THAN", "ASSIGNMENT"}}
  \cup {Plain(kind) : kind \in {"ARRAY_EXPR", "BOOLEAN_EXPR", "STRING_EXPR",
                                "SPAWN_EXPR", "WHILE_STMT", "RETURN_STMT",
                                "null"}}

Blocks == Source(BlockShapes, <<>>, 11)
ShortBlocks == Source(BlockShapes, <<>>, 8)
Uses == Source(UseShapes, Given, 16)
MCSources == {Blocks, ShortBlocks, Uses}
MCRepeated == {ShortBlocks}
UsesOnly == {Uses}
None == {}
==============================================================================
