--------------------------- MODULE MCArithmetic ----------------------------
(* Arithmetic on words at the limits, and branches on the comparison of two  *)
(* words; a division by zero stops the machine.                              *)
EXTENDS MCInterpreter

ArithmeticOps ==
  Table(<<Op("RegisterLDI"), Alu("DiscardBinary", "SUB"),
          Alu("DiscardImmediateBinary", "SUB"), Op("Jx"), Op("Cx"), Op("JMC"),
          Alu("InplaceUnary", "NEG"), Alu("InplaceBinary", "ADD"),
          Alu("ImmediateBinary", "MUL"),
          Alu("BasicBinary", "DIV"), Alu("InplaceBinary", "MOD"),
          Alu("ImmediateUnary", "NOT"), Op("JME"),
          Alu("BasicUnary", "NEG"), Alu("NShift", "SHL"),
          Alu("RegisterShift", "SAR")>>)
UnsignedConditions == [c \in 0 .. 3 |-> <<"NZ", "B", "AE", "BE">>[c + 1]]
OtherConditions == [c \in 0 .. 3 |-> <<"A", "G", "L", "LE">>[c + 1]]

Operands == {0, 1, 5, 127, 128, 129, 200, 255}
(* JME R0, R0: an unconditional jump. *)
Goto(address) == Encode(12, 0, 0, address)

(* Load R0 and R1, run one operation on R0 and R1 (or R0 and the immediate),  *)
(* then spin.                                                                 *)
OneOperation(a, b, opcode) ==
  Encode(0, 0, 0, a) \o Encode(0, 1, 0, b) \o <<opcode, 4, b % 16, b \div 16>>
    \o Goto(12)
OperationPrograms ==
  {OneOperation(a, b, opcode) : a, b \in Operands, opcode \in (6 .. 15) \ {12}}

(* Load R0 and R1, compare, and branch over a spin at 16 to one at 20. *)
Compare(a, b, compare, branch) ==
  Encode(0, 0, 0, a) \o Encode(0, 1, 0, b) \o compare \o branch
    \o Goto(16) \o Goto(20)
Branches == {Encode(op, c, 0, 20) : op \in {3, 4}, c \in 0 .. 3}
Carries == {Encode(5, 0, 0, 20), Encode(12, 0, 1, 20)}
Comparisons == {Encode(1, 0, 1, 0), Encode(2, 0, 0, 129)}
BranchPrograms ==
  {Compare(a, b, cmp, br) :
     a, b \in Operands, cmp \in Comparisons, br \in Branches \cup Carries}
ArithmeticPrograms == OperationPrograms \cup BranchPrograms

(* The operands of the program in memory, and what its branch is to decide.  *)
Immediate(i) == WordOf(mMemory[4 * i + 2], mMemory[4 * i + 3])
Left == Immediate(0)
Right == IF mMemory[8] = 1 THEN Immediate(1) ELSE Immediate(2)
Holds(cond, a, b) ==
  CASE cond = "NZ" -> a # b
    [] cond = "B"  -> a < b
    [] cond = "AE" -> a >= b
    [] cond = "BE" -> a <= b
    [] cond = "A"  -> a > b
    [] cond = "G"  -> Signed(a) > Signed(b)
    [] cond = "L"  -> Signed(a) < Signed(b)
    [] cond = "LE" -> Signed(a) <= Signed(b)
ToBranch ==
  CASE mMemory[12] = 5 -> Left < Right
    [] mMemory[12] = 12 -> Immediate(0) = Immediate(1)
    [] OTHER -> Holds(Conditions[mMemory[13] % 4], Left, Right)

(* A branch after a comparison is taken exactly when the relation its         *)
(* condition names holds between the words compared (Jx, Cx and JMC after CMP *)
(* and CMPI; JME compares the registers itself).                              *)
BranchFollowsComparison == mPC \in {16, 20} => (mPC = 20 <=> ToBranch)
============================================================================
