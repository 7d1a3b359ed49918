-------------------------------- MODULE CPU --------------------------------
(***************************************************************************)
(* The processor of the MinChip16 virtual machine                          *)
(* (Tostitos/machine/cpu.h, cpu.cpp): registers, flags, byte-addressed     *)
(* memory, and the helpers the interpreter's handlers are made of.         *)
(*                                                                         *)
(* All widths derive from NIB, the number of values of a nibble.  The real *)
(* machine has NIB = 16: bytes of 8 bits, words and addresses of 16 bits,  *)
(* sixteen registers.  TLC works with NIB = 4 (256 memory cells, four      *)
(* registers); the theorems hold for every NIB.                            *)
(***************************************************************************)
EXTENDS Integers

CONSTANTS
  NIB,              \* values of a nibble (16)
  STACK_START,      \* first address of the stack (0xFDF0)
  STACK_END,        \* first address after it (0xFFF0)
  FlagBits,         \* bit numbers of the flag register (0..7)
  UNSIGNED_CARRY_FLAG, ZERO_FLAG, SIGNED_OVERFLOW_FLAG, NEGATIVE_FLAG,
  BitAnd(_, _), BitOr(_, _), BitXor(_, _), BitNot(_), \* std::bit_and, ...
  InitialMemories,  \* contents mMemory may have: no constructor sets it
  Junk              \* what an uninitialised UInt16 local may hold

BYTE == NIB * NIB
WORD == BYTE * BYTE
MEMORY_SIZE == WORD
NB_REGISTERS == NIB
Byte == 0 .. BYTE - 1
Word == 0 .. WORD - 1
Address == 0 .. MEMORY_SIZE - 1
Register == 0 .. NB_REGISTERS - 1

(* Error masks: an error code is the set of the bits it has, {} is NO_ERROR. *)
STACK_OVERFLOW == 2
STACK_UNDERFLOW == 4
MEMORY_ERROR == 16
UNKNOWN_OP_ERROR == 2
ErrorBits == {STACK_OVERFLOW, STACK_UNDERFLOW, MEMORY_ERROR, UNKNOWN_OP_ERROR}

(* The flag register is the set of its bits that are lit; FlagsOf and       *)
(* FlagValue convert from and to the number PUSHF and POPF move.            *)
FlagsOf(value) == {b \in FlagBits : (value \div 2^b) % 2 = 1}
FlagValue(fr) == CHOOSE v \in Byte : FlagsOf(v) = fr

ASSUME WidthAssumption == NIB \in Nat /\ NIB >= 2
ASSUME StackAssumption ==
  /\ STACK_START \in Address
  /\ STACK_END \in Address
  /\ STACK_START + 2 <= STACK_END
ASSUME FlagAssumption ==
  /\ FlagBits \subseteq Nat
  /\ {UNSIGNED_CARRY_FLAG, ZERO_FLAG, SIGNED_OVERFLOW_FLAG, NEGATIVE_FLAG}
        \subseteq FlagBits
  /\ UNSIGNED_CARRY_FLAG \notin {ZERO_FLAG, SIGNED_OVERFLOW_FLAG, NEGATIVE_FLAG}
  /\ ZERO_FLAG \notin {SIGNED_OVERFLOW_FLAG, NEGATIVE_FLAG}
  /\ SIGNED_OVERFLOW_FLAG # NEGATIVE_FLAG
ASSUME FlagValueAssumption ==
  \A fr \in SUBSET FlagBits : \E v \in Byte : FlagsOf(v) = fr
ASSUME BitAssumption ==
  \A v, w \in Word : /\ BitAnd(v, w) \in Word
                     /\ BitOr(v, w) \in Word
                     /\ BitXor(v, w) \in Word
                     /\ BitNot(v) \in Word
ASSUME MemoryAssumption == InitialMemories \subseteq [Address -> Byte]
ASSUME JunkAssumption == Junk \subseteq Word

----------------------------------------------------------------------------
(* Bytes and words: the machine is little-endian. *)
Lo(w) == w % BYTE
Hi(w) == w \div BYTE
WordOf(lo, hi) == hi * BYTE + lo
Negative(w) == 2 * w >= WORD

(* Four consecutive bytes, the program counter wrapping as a UInt16 does. *)
FetchByte(memory, pc, i) == memory[(pc + i) % WORD]
FetchInstruction(memory, pc) ==
  LET b(i) == FetchByte(memory, pc, i)
  IN  [opcode |-> b(0),
       x      |-> b(1) % NIB,
       y      |-> b(1) \div NIB,
       z      |-> b(2) % NIB,
       imm    |-> WordOf(b(2), b(3))]

(* A word at an address; address + 1 is one past the array for the last      *)
(* address, and what is read there is not defined.                           *)
LoadValues(memory, address) ==
  IF address + 1 \in Address
  THEN {WordOf(memory[address], memory[address + 1])}
  ELSE {WordOf(memory[address], b) : b \in Byte}
LoadError(address) ==
  IF STACK_START < address /\ address < STACK_END THEN {MEMORY_ERROR} ELSE {}

(* SetProgramCounter and SetStackPointer reject a value or take it. *)
PCError(value) == IF value > STACK_START THEN {MEMORY_ERROR} ELSE {}
(* Mutant: no upper limit. *)
SPErrorUnbounded(value) == IF value < STACK_START THEN {MEMORY_ERROR} ELSE {}
SPError(value) ==
  IF value < STACK_START \/ value > STACK_END THEN {MEMORY_ERROR} ELSE {}
(* Mutant: stores are let into the stack. *)
StoreErrorInStack(address) == IF address > STACK_END THEN {MEMORY_ERROR} ELSE {}
StoreError(address) == IF address > STACK_START THEN {MEMORY_ERROR} ELSE {}

----------------------------------------------------------------------------
(* Flags. *)
Set(fr, flag, cond) == IF cond THEN fr \cup {flag} ELSE fr \ {flag}

SetSignZeroFlag(fr, result) ==
  Set(Set(fr, ZERO_FLAG, result = 0), NEGATIVE_FLAG, Negative(result))

SetCarryOverflowFlagAdd(fr, op1, op2) ==
  LET result == (op1 + op2) % WORD
  IN  Set(Set(fr, UNSIGNED_CARRY_FLAG, result < op1),
          SIGNED_OVERFLOW_FLAG,
          \/ Negative(op1) /\ Negative(op2)
          \/ Negative(result) /\ ~Negative(op1) /\ ~Negative(op2))

(* Mutant: borrow also between equal operands. *)
SubBorrowOnEqual(fr, op1, op2) == Set(fr, UNSIGNED_CARRY_FLAG, op1 - op2 <= 0)
(* Bit 16 of the 32-bit difference is lit exactly when it is negative. *)
SetCarryOverflowFlagSub(fr, op1, op2) ==
  LET result == (op1 - op2) % WORD
  IN  Set(Set(fr, UNSIGNED_CARRY_FLAG, op1 - op2 < 0),
          SIGNED_OVERFLOW_FLAG,
          Negative(op1) \/ (Negative(result) /\ Negative(op2)))

(* Mutant: the product is kept in a UInt16. *)
MulNarrow(fr, op1, op2) ==
  Set(fr, UNSIGNED_CARRY_FLAG, (op1 * op2) % WORD > WORD - 1)
SetCarryOverflowFlagMul(fr, op1, op2) ==
  Set(fr, UNSIGNED_CARRY_FLAG, op1 * op2 > WORD - 1)

SetCarryOverflowFlagDiv(fr, op1, op2) ==
  Set(fr, UNSIGNED_CARRY_FLAG, op1 % op2 # 0)

============================================================================
