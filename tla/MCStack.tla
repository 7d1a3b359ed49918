------------------------------ MODULE MCStack ------------------------------
(* Every program of three stack, call, store, load and move instructions in  *)
(* a loop, on a stack of five words: PUSHALL fits once and gets stuck the    *)
(* second time.                                                              *)
EXTENDS MCInterpreter

StackOps ==
  Table(<<Op("PUSH"), Op("POP"), Op("PUSHALL"), Op("POPALL"), Op("PUSHF"),
          Op("POPF"), Op("DirectCALL"), Op("RET"), Op("MOV"),
          Op("RegisterLDI"), Op("DirectSTM"), Op("IndirectSTM"),
          Op("DirectJMP"), Op("IndirectLDM"), Op("RND"), Op("DirectLDM")>>)

StackInstructions ==
  {Encode(0, 1, 0, 0),        \* PUSH R1
   Encode(1, 2, 0, 0),        \* POP R2
   Encode(2, 0, 0, 0),        \* PUSHALL
   Encode(3, 0, 0, 0),        \* POPALL
   Encode(4, 0, 0, 0),        \* PUSHF
   Encode(5, 0, 0, 0),        \* POPF
   Encode(6, 0, 0, 0),        \* CALL 0
   Encode(7, 0, 0, 0),        \* RET
   Encode(9, 1, 0, 205),      \* LDI R1, 205
   Encode(10, 1, 0, 203),     \* STM R1, STACK_START - 1
   Encode(10, 1, 0, 204),     \* STM R1, STACK_START
   Encode(11, 1, 1, 0)}       \* STM R1, R1
(* Loads, a move and a random number between two pushes. *)
MoveInstructions ==
  {Encode(8, 1, 3, 0),        \* MOV R1, R3
   Encode(13, 1, 1, 0),       \* LDM R1, R1
   Encode(14, 1, 0, 1),       \* RND R1, 1
   Encode(15, 1, 0, 204)}     \* LDM R1, STACK_START
StackPrograms ==
  Triples(StackInstructions, Encode(12, 0, 0, 0))
    \cup {i \o m \o Encode(0, 1, 0, 0) \o Encode(12, 0, 0, 0) :
            i \in StackInstructions, m \in MoveInstructions}
============================================================================
