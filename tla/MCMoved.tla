------------------------------ MODULE MCMoved ------------------------------
(* Programs that also move the stack pointer (LDI SP, to odd addresses too), *)
(* machines that are loaded again, from ROMs with and without data, and      *)
(* callers that reset the machine in the middle of a program.                *)
EXTENDS MCInterpreter

MovedOps ==
  Table(<<Op("PUSH"), Op("POP"), Op("PUSHALL"), Op("POPALL"), Op("StackLDI"),
          Op("RET"), Op("DirectCALL"), Op("NOP"), Op("IndirectCALL"),
          Op("RegisterLDI"), Op("DirectSTM"), Op("IndirectSTM"),
          Op("DirectJMP"), Op("IndirectJMP")>>)

(* Loops over two instructions, the first of which moves words. *)
Movers ==
  {Encode(0, 1, 0, 0),        \* PUSH R1
   Encode(1, 2, 0, 0),        \* POP R2
   Encode(2, 0, 0, 0),        \* PUSHALL
   Encode(3, 0, 0, 0),        \* POPALL
   Encode(5, 0, 0, 0),        \* RET
   Encode(6, 0, 0, 0)}        \* CALL 0
Placers ==
  {Encode(4, 0, 0, 209),      \* LDI SP, 209
   Encode(4, 0, 0, 214),      \* LDI SP, STACK_END
   Encode(4, 0, 0, 215),      \* LDI SP, 215: refused
   Encode(8, 0, 0, 0),        \* CALL R0
   Encode(9, 1, 0, 205),      \* LDI R1, 205
   Encode(10, 1, 0, 206)}     \* STM R1, STACK_START + 2: refused
Jump == Encode(12, 0, 0, 0)
MovedPrograms ==
  {m \o p \o Jump : m \in Movers, p \in Placers}
    \cup {Encode(11, 1, 1, 0) \o Encode(7, 0, 0, 0) \o Encode(13, 1, 0, 0),
          Encode(2, 0, 0, 0) \o Encode(15, 0, 0, 0) \o Jump}
MovedROMs ==
  {[start |-> 4, data |-> Encode(12, 0, 0, 4) \o Encode(3, 0, 0, 0)],
   [start |-> 68, data |-> Jump \o Encode(0, 1, 0, 0)],
   [start |-> 8, data |-> <<>>]}
============================================================================
