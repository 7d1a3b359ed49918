--------------------------- MODULE MCInterpreter ---------------------------
(* Values of the constants of Interpreter shared by its runs: a machine with *)
(* nibbles of two bits, the same shape as the real one, with 256 bytes of    *)
(* memory, four registers and sixteen opcodes per table.                     *)
EXTENDS Interpreter, Bitwise

MCBitAnd(a, b) == a & b
MCBitOr(a, b) == a | b
MCBitXor(a, b) == a ^^ b
MCBitNot(a) == 255 - a

MCFlagBits == 0 .. 3
MCMemories == {[a \in 0 .. 255 |-> g] : g \in {12}}
MCJunk == {0, 165}
NoPrograms == {}
NoConditions == [c \in 0 .. 3 |-> "RES"]

Op(h) == [h |-> h, alu |-> ""]
Alu(h, alu) == [h |-> h, alu |-> alu]
(* A table from a sequence of operations, opcode 0 first. *)
Table(ops) ==
  [c \in 0 .. 15 |-> IF c < Len(ops) THEN ops[c + 1] ELSE Op("Unknown")]

(* The four bytes of an instruction: opcode, YX, LL, HH (LL's nibble is Z). *)
Encode(opcode, x, y, imm) == <<opcode, 4 * y + x, imm % 16, imm \div 16>>

(* Programs of three instructions from a set, followed by the last one. *)
Triples(instructions, last) ==
  {i \o j \o k \o last : i, j, k \in instructions}
============================================================================
