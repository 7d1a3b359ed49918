------------------------- MODULE InterpreterProofs -------------------------
(***************************************************************************)
(* Type correctness of the interpreter, with Reset, the bounds of the      *)
(* stack pointer, without it, what instructions may write, the carry flag  *)
(* and the refinement of WordStack, for every width of the machine.        *)
(*                                                                         *)
(* TypeOK alone is not inductive: Push writes at mSP and mSP + 1 and       *)
(* PUSHALL counts the words that fit from STACK_END - mSP, so the stack    *)
(* pointer must be known to be at most STACK_END.  That holds even after a *)
(* Reset, which sets it to 0.                                              *)
(***************************************************************************)
EXTENDS Interpreter, SequenceTheorems, TLAPS

----------------------------------------------------------------------------
(* The widths, words and flags of the machine, for every NIB. *)

(* A byte and a word have at least four and sixteen values, and a word is    *)
(* two bytes.                                                                *)
LEMMA Widths ==
  /\ NIB \in Nat /\ NIB >= 2
  /\ BYTE \in Nat /\ BYTE >= 4
  /\ WORD \in Nat /\ WORD >= 16
  /\ WORD = BYTE * BYTE
<1>1. NIB \in Nat /\ NIB >= 2
  BY WidthAssumption
<1>2. BYTE \in Nat /\ BYTE >= 4
  BY <1>1 DEF BYTE
<1>3. WORD \in Nat /\ WORD >= 16
  BY <1>2 DEF WORD
<1> QED
  BY <1>1, <1>2, <1>3 DEF WORD

(* Nibbles of a byte are register numbers. *)
LEMMA Nibbles ==
  ASSUME NEW b \in Byte
  PROVE  b % NIB \in Register /\ b \div NIB \in Register
<1>1. NIB \in Nat /\ NIB >= 2 /\ b \in Nat /\ b < NIB * NIB
  BY Widths DEF Byte, BYTE
<1>2. b % NIB \in 0 .. NIB - 1
  BY <1>1
<1>3. b \div NIB \in Nat /\ b \div NIB < NIB
  <2> DEFINE q == b \div NIB
             r == b % NIB
  <2>1. q \in Int /\ r \in 0 .. NIB - 1 /\ b = NIB * q + r
    BY <1>1
  <2>2. q >= 0
    BY <2>1, <1>1
  <2>3. q < NIB
    BY <2>1, <1>1
  <2> QED
    BY <2>1, <2>2, <2>3
<1> QED
  BY <1>1, <1>2, <1>3 DEF Register, NB_REGISTERS

(* Lo and Hi split a word into bytes, WordOf puts them together again. *)
LEMMA SplitWord ==
  ASSUME NEW w \in Word
  PROVE  Lo(w) \in Byte /\ Hi(w) \in Byte /\ WordOf(Lo(w), Hi(w)) = w
<1> DEFINE B == BYTE
           q == w \div B
           r == w % B
<1>1. B \in Nat /\ B >= 4 /\ w \in Nat /\ w < B * B
  BY Widths DEF Word
<1>2. q \in Int /\ r \in 0 .. B - 1 /\ w = B * q + r
  BY <1>1
<1>3. q >= 0
  BY <1>1, <1>2
<1>4. q < B
  BY <1>1, <1>2
<1> QED
  BY <1>1, <1>2, <1>3, <1>4 DEF Lo, Hi, WordOf, Byte

(* Two bytes make a word. *)
LEMMA JoinBytes ==
  ASSUME NEW lo \in Byte, NEW hi \in Byte
  PROVE  WordOf(lo, hi) \in Word
<1>1. BYTE \in Nat /\ lo \in Nat /\ hi \in Nat /\ lo <= BYTE - 1 /\ hi <= BYTE - 1
  BY Widths DEF Byte
<1>2. hi * BYTE <= (BYTE - 1) * BYTE
  BY <1>1
<1>3. hi * BYTE + lo \in Nat
  BY <1>1
<1>4. (BYTE - 1) * BYTE = BYTE * BYTE - BYTE
  BY <1>1
<1> QED
  BY <1>1, <1>2, <1>3, <1>4, Widths DEF WordOf, Word

(* The value of the flag register is a byte, and reading a byte gives flags.  *)
LEMMA FlagTypes ==
  ASSUME NEW fr \in SUBSET FlagBits
  PROVE  FlagValue(fr) \in Byte /\ FlagsOf(FlagValue(fr)) = fr
BY FlagValueAssumption DEF FlagValue

(* A byte is a word. *)
LEMMA ByteIsWord == Byte \subseteq Word
<1>1. BYTE <= WORD
  BY Widths
<1> QED
  BY <1>1, Widths DEF Byte, Word

(* Arithmetic modulo WORD stays within words. *)
LEMMA ModWord ==
  ASSUME NEW v \in Int
  PROVE  v % WORD \in Word
BY Widths DEF Word

(* A quotient and a remainder of words are words. *)
LEMMA DivModWord ==
  ASSUME NEW v \in Word, NEW w \in Word, w # 0
  PROVE  v \div w \in Word /\ v % w \in Word
<1>1. v \in Nat /\ w \in Nat /\ w > 0 /\ v < WORD /\ w < WORD /\ WORD \in Nat
  BY Widths DEF Word
<1>2. v % w \in 0 .. w - 1
  BY <1>1
<1>3. v \div w \in Nat /\ v \div w <= v
  <2> DEFINE q == v \div w
             r == v % w
  <2>1. q \in Int /\ r \in 0 .. w - 1 /\ v = w * q + r
    BY <1>1
  <2>2. q >= 0
    BY <2>1, <1>1
  <2>3. q <= w * q
    BY <2>1, <2>2, <1>1
  <2>4. q <= v
    BY <2>1, <2>2, <2>3, <1>1
  <2> QED
    BY <2>1, <2>2, <2>4
<1> QED
  BY <1>1, <1>2, <1>3 DEF Word

(* The flag helpers change flags to flags. *)
LEMMA SetFlagTypes ==
  ASSUME NEW fr \in SUBSET FlagBits, NEW a, NEW b
  PROVE  /\ SetSignZeroFlag(fr, a) \in SUBSET FlagBits
         /\ SetCarryOverflowFlagAdd(fr, a, b) \in SUBSET FlagBits
         /\ SetCarryOverflowFlagSub(fr, a, b) \in SUBSET FlagBits
         /\ SetCarryOverflowFlagMul(fr, a, b) \in SUBSET FlagBits
         /\ SetCarryOverflowFlagDiv(fr, a, b) \in SUBSET FlagBits
<1>1. ASSUME NEW f \in SUBSET FlagBits, NEW flag \in FlagBits, NEW c
      PROVE  Set(f, flag, c) \in SUBSET FlagBits
  BY DEF Set
<1>2. /\ UNSIGNED_CARRY_FLAG \in FlagBits /\ ZERO_FLAG \in FlagBits
      /\ SIGNED_OVERFLOW_FLAG \in FlagBits /\ NEGATIVE_FLAG \in FlagBits
  BY FlagAssumption
<1>3. SetSignZeroFlag(fr, a) \in SUBSET FlagBits
  BY <1>1, <1>2, Zenon DEF SetSignZeroFlag
<1>4. SetCarryOverflowFlagAdd(fr, a, b) \in SUBSET FlagBits
  BY <1>1, <1>2, Zenon DEF SetCarryOverflowFlagAdd
<1>5. SetCarryOverflowFlagSub(fr, a, b) \in SUBSET FlagBits
  BY <1>1, <1>2, Zenon DEF SetCarryOverflowFlagSub
<1>6. SetCarryOverflowFlagMul(fr, a, b) \in SUBSET FlagBits
  BY <1>1, <1>2, Zenon DEF SetCarryOverflowFlagMul
<1>7. SetCarryOverflowFlagDiv(fr, a, b) \in SUBSET FlagBits
  BY <1>1, <1>2, Zenon DEF SetCarryOverflowFlagDiv
<1> QED
  BY <1>3, <1>4, <1>5, <1>6, <1>7

----------------------------------------------------------------------------
(* The invariant. *)

SPBelowEnd == mSP <= STACK_END
IInv == TypeOK /\ SPBelowEnd

(* The stack lies within the addresses, and its end is a word. *)
LEMMA StackFacts ==
  /\ STACK_START \in Nat /\ STACK_END \in Nat
  /\ STACK_END < WORD /\ STACK_START + 2 <= STACK_END
  /\ Address = Word /\ MEMORY_SIZE = WORD
BY StackAssumption, Widths DEF Address, MEMORY_SIZE, Word

(* What a fetched instruction is made of. *)
LEMMA Fetched ==
  ASSUME TypeOK
  PROVE  /\ inst.opcode \in Byte
         /\ inst.x \in Register /\ inst.y \in Register /\ inst.z \in Register
         /\ inst.imm \in Word
         /\ RX \in Word /\ RY \in Word
         /\ NextPC \in Word
         /\ operation \in Operation
<1> DEFINE b(i) == FetchByte(mMemory, mPC, i)
<1>1. \A i \in 0 .. 3 : b(i) \in Byte
  <2> TAKE i \in 0 .. 3
  <2>1. mPC + i \in Int
    BY Widths DEF TypeOK, Word
  <2>2. (mPC + i) % WORD \in Address
    BY <2>1, ModWord, StackFacts
  <2> QED
    BY <2>2 DEF FetchByte, TypeOK
<1>2. /\ inst.opcode = b(0) /\ inst.x = b(1) % NIB /\ inst.y = b(1) \div NIB
      /\ inst.z = b(2) % NIB /\ inst.imm = WordOf(b(2), b(3))
  BY DEF inst, FetchInstruction
<1>3. b(0) \in Byte /\ b(1) \in Byte /\ b(2) \in Byte /\ b(3) \in Byte
  BY <1>1
<1> HIDE DEF b
<1>4. /\ inst.x \in Register /\ inst.y \in Register /\ inst.z \in Register
  BY <1>2, <1>3, Nibbles
<1>5. inst.imm \in Word
  BY <1>2, <1>3, JoinBytes
<1>6. RX \in Word /\ RY \in Word
  BY <1>4 DEF RX, RY, TypeOK
<1>7. NextPC \in Word
  BY ModWord, Widths DEF NextPC, TypeOK, Word
<1>8. operation \in Operation
  BY <1>2, <1>3, OpsAssumption DEF operation
<1> QED
  BY <1>2, <1>3, <1>4, <1>5, <1>6, <1>7, <1>8

(* A jump leaves a word in the program counter. *)
LEMMA JumpType ==
  ASSUME TypeOK, NEW value \in Word, SetProgramCounter(value)
  PROVE  mPC' \in Word
BY Fetched DEF SetProgramCounter

(* The error codes the helpers return are sets of error bits. *)
LEMMA ErrorTypes ==
  ASSUME NEW value
  PROVE  /\ PCError(value) \in SUBSET ErrorBits
         /\ SPError(value) \in SUBSET ErrorBits
         /\ StoreError(value) \in SUBSET ErrorBits
         /\ LoadError(value) \in SUBSET ErrorBits
         /\ PopError \in SUBSET ErrorBits
         /\ {UNKNOWN_OP_ERROR} \in SUBSET ErrorBits
         /\ {STACK_OVERFLOW} \in SUBSET ErrorBits
         /\ {STACK_UNDERFLOW} \in SUBSET ErrorBits
BY Zenon DEF PCError, SPError, StoreError, LoadError, PopError, ErrorBits

(* A push keeps the types and the bound of the stack pointer, and moves the   *)
(* pointer up or not at all.                                                  *)
LEMMA PushType ==
  ASSUME IInv, NEW value \in Word, NEW err \in SUBSET ErrorBits,
         Push(value, err)
  PROVE  /\ mMemory' \in [Address -> Byte]
         /\ mSP' \in Word /\ mSP <= mSP' /\ mSP' <= STACK_END
         /\ mErrorCode' \in SUBSET ErrorBits
<1>1. Lo(value) \in Byte /\ Hi(value) \in Byte
  BY SplitWord
<1>2. CASE mSP + 2 <= STACK_END
  <2>1. /\ mMemory' = [mMemory EXCEPT ![mSP] = Lo(value), ![mSP + 1] = Hi(value)]
        /\ mSP' = mSP + 2
        /\ mErrorCode' = err
    BY <1>2, StackFacts DEF Push, IInv, TypeOK, Word
  <2>2. mMemory' \in [Address -> Byte]
    BY <1>1, <2>1 DEF IInv, TypeOK
  <2>3. mSP' \in Word /\ mSP <= mSP' /\ mSP' <= STACK_END
    BY <1>2, <2>1, StackFacts, Widths DEF IInv, TypeOK, Word
  <2> QED
    BY <2>1, <2>2, <2>3
<1>3. CASE ~(mSP + 2 <= STACK_END)
  <2>1. mMemory' = mMemory /\ mSP' = mSP /\ mErrorCode' = err \cup {STACK_OVERFLOW}
    BY <1>3 DEF Push
  <2>2. mErrorCode' \in SUBSET ErrorBits
    BY <2>1, Zenon DEF ErrorBits
  <2>3. mSP \in Int
    BY Widths DEF IInv, TypeOK, Word
  <2> QED
    BY <2>1, <2>2, <2>3 DEF IInv, TypeOK, SPBelowEnd
<1> QED
  BY <1>2, <1>3

(* What Pop delivers is a word, and the pointer it leaves is in range.        *)
LEMMA PopType ==
  ASSUME IInv
  PROVE  /\ PopValues \subseteq Word
         /\ PopSP \in Word /\ PopSP <= STACK_END /\ PopSP <= mSP
         /\ STACK_START <= mSP => STACK_START <= PopSP
<1>1. mSP \in Int /\ 0 <= mSP /\ mSP <= STACK_END /\ mSP < WORD
  BY Widths, StackFacts DEF IInv, TypeOK, SPBelowEnd, Word
<1>2. CASE CanPop
  <2>1. mSP - 2 \in Address /\ mSP - 2 + 1 \in Address
    BY <1>1, <1>2, StackFacts, Widths DEF CanPop, Word
  <2>2. WordAt(mSP - 2) \in Word
    BY <2>1, JoinBytes DEF WordAt, IInv, TypeOK
  <2> QED
    BY <1>1, <1>2, <2>1, <2>2, StackFacts DEF PopValues, PopSP, CanPop
<1>3. CASE ~CanPop
  BY <1>1, <1>3, JunkAssumption, StackFacts, Widths DEF PopValues, PopSP, Word
<1> QED
  BY <1>2, <1>3

(* The loaded memory is a memory. *)
LEMMA LoadType ==
  ASSUME TypeOK, NEW program \in Seq(Byte)
  PROVE  InitMemory(program) \in [Address -> Byte]
<1> SUFFICES ASSUME NEW a \in Address, a < Len(program)
             PROVE  program[a + 1] \in Byte
  BY DEF InitMemory, TypeOK
<1>1. a \in Nat
  BY Widths DEF Address, MEMORY_SIZE
<1>2. a + 1 \in 1 .. Len(program)
  BY <1>1
<1> QED
  BY <1>2

(* Reading memory at any address gives words. *)
LEMMA LoadValuesType ==
  ASSUME TypeOK, NEW address \in Word
  PROVE  LoadValues(mMemory, address) \subseteq Word
<1>1. mMemory[address] \in Byte
  BY StackFacts DEF TypeOK
<1>2. address + 1 \in Address => mMemory[address + 1] \in Byte
  BY DEF TypeOK
<1> QED
  BY <1>1, <1>2, JoinBytes DEF LoadValues

(* The operations on words give words. *)
LEMMA BinaryType ==
  ASSUME NEW alu \in BinaryAlu, NEW op1 \in Word, NEW op2 \in Word,
         ~Traps(alu, op2)
  PROVE  BinaryResult(alu, op1, op2) \in Word
<1>1. op1 \in Int /\ op2 \in Int /\ op1 * op2 \in Int
  BY Widths DEF Word
<1>2. CASE alu = "ADD"
  BY <1>1, <1>2, ModWord DEF BinaryResult
<1>3. CASE alu = "SUB"
  BY <1>1, <1>3, ModWord DEF BinaryResult
<1>4. CASE alu = "MUL"
  BY <1>1, <1>4, ModWord DEF BinaryResult
<1>5. CASE alu = "DIV"
  BY <1>5, DivModWord DEF BinaryResult, Traps
<1>6. CASE alu = "MOD"
  BY <1>6, DivModWord DEF BinaryResult, Traps
<1>7. CASE alu \in {"AND", "OR", "XOR"}
  BY <1>7, BitAssumption DEF BinaryResult
<1> QED
  BY <1>2, <1>3, <1>4, <1>5, <1>6, <1>7 DEF BinaryAlu

(* NOT and NEG give a word. *)
LEMMA UnaryType ==
  ASSUME NEW alu, NEW op \in Word
  PROVE  UnaryResult(alu, op) \in Word
<1>1. WORD - op \in Int
  BY Widths DEF Word
<1> QED
  BY <1>1, ModWord, BitAssumption DEF UnaryResult

(* Shifts give words, an undefined distance included. *)
LEMMA ShiftType ==
  ASSUME NEW alu \in ShiftAlu, NEW lhs \in Word, NEW rhs \in Nat
  PROVE  ShiftResults(alu, lhs, rhs) \subseteq Word
<1>1. CASE rhs >= INT_BITS
  BY <1>1 DEF ShiftResults
<1>2. CASE rhs < INT_BITS
  <2> DEFINE p == 2^rhs
             shifted == CASE alu = "SHL" -> lhs * p
                          [] alu = "SHR" -> lhs \div p
                          [] alu = "SAR" -> Signed(lhs) \div p
  <2>1. p \in Nat /\ p > 0
    BY <1>2, IntAssumption, PowerAssumption
  <2>2. lhs \in Int /\ Signed(lhs) \in Int
    BY Widths DEF Signed, Word
  <2>3. ShiftResults(alu, lhs, rhs) = {shifted % WORD}
    <3>1. ~(rhs >= INT_BITS)
      BY <1>2, IntAssumption
    <3> QED
      BY <3>1, Zenon DEF ShiftResults
  <2> HIDE DEF p
  <2>4. shifted \in Int
    BY <2>1, <2>2 DEF ShiftAlu
  <2> HIDE DEF shifted
  <2> QED
    BY <2>3, <2>4, ModWord
<1> QED
  BY <1>1, <1>2, IntAssumption

(* The flag helpers leave flags. *)
LEMMA CarryType ==
  ASSUME NEW alu, NEW fr \in SUBSET FlagBits, NEW a, NEW b
  PROVE  CarryOverflow(alu, fr, a, b) \in SUBSET FlagBits
BY SetFlagTypes DEF CarryOverflow

----------------------------------------------------------------------------
(* What every step but Reset does to the invariant, group by group: it keeps  *)
(* IInv and does not take the stack pointer below STACK_START.                *)
Kept == IInv' /\ (STACK_START <= mSP => STACK_START <= mSP')

(* The steps that leave stack and memory alone. *)
LEMMA PlainSteps ==
  ASSUME IInv, Unknown \/ NOP \/ RND \/ JumpStep \/ MoveStep \/ StackLDI
  PROVE  Kept
<1> USE Fetched, ErrorTypes DEF IInv, Kept, SPBelowEnd
<1>1. CASE Unknown
  BY <1>1 DEF Unknown, FallThrough, TypeOK
<1>2. CASE NOP
  BY <1>2 DEF NOP, FallThrough, TypeOK
<1>3. CASE RND
  <2>1. PICK randVal \in 0 .. inst.imm : SetRegister(inst.x, randVal)
    BY <1>3 DEF RND
  <2>2. randVal \in Word
    BY Widths DEF Word
  <2> QED
    BY <1>3, <2>1, <2>2 DEF RND, SetRegister, FallThrough, TypeOK
<1>4. CASE DirectJMP
  BY <1>4, JumpType DEF DirectJMP, TypeOK
<1>5. CASE IndirectJMP
  BY <1>5, JumpType DEF IndirectJMP, TypeOK
<1>6. CASE JMC
  BY <1>6, JumpType DEF JMC, FallThrough, TypeOK
<1>7. CASE Jx
  BY <1>7, JumpType DEF Jx, FallThrough, TypeOK
<1>8. CASE JME
  BY <1>8, JumpType DEF JME, FallThrough, TypeOK
<1>9. CASE RegisterLDI
  BY <1>9 DEF RegisterLDI, SetRegister, FallThrough, TypeOK
<1>10. CASE MOV
  BY <1>10 DEF MOV, SetRegister, FallThrough, TypeOK
<1>11. ASSUME NEW address \in Word, Load(address)
       PROVE  /\ mRegisters' \in [Register -> Word] /\ mPC' \in Word
              /\ UNCHANGED <<mMemory, mFR, mSP, calls, status>>
  <2>1. PICK val \in IF LoadError(address) = {}
                     THEN LoadValues(mMemory, address) ELSE Junk :
          SetRegister(inst.x, val)
    BY <1>11 DEF Load
  <2>2. val \in Word
    BY LoadValuesType, JunkAssumption
  <2> QED
    BY <1>11, <2>1, <2>2 DEF Load, SetRegister, FallThrough, TypeOK
<1>12. CASE DirectLDM
  BY <1>11, <1>12 DEF DirectLDM, TypeOK
<1>13. CASE IndirectLDM
  BY <1>11, <1>13 DEF IndirectLDM, TypeOK
<1>14. CASE StackLDI
  BY <1>14, StackFacts, Widths
     DEF StackLDI, SPError, FallThrough, TypeOK, Word, MEMORY_ERROR
<1> QED
  BY <1>1, <1>2, <1>3, <1>4, <1>5, <1>6, <1>7, <1>8, <1>9, <1>10, <1>12,
     <1>13, <1>14 DEF JumpStep, MoveStep

(* Stores. *)
LEMMA StoreSteps ==
  ASSUME IInv, StoreStep
  PROVE  Kept
<1> USE Fetched, ErrorTypes DEF IInv, Kept, SPBelowEnd
<1>1. ASSUME NEW address \in Word, Store(address)
      PROVE  Kept
  <2>1. Lo(RX) \in Byte /\ Hi(RX) \in Byte
    BY SplitWord
  <2>2. mMemory' \in [Address -> Byte]
    BY <1>1, <2>1 DEF Store, TypeOK
  <2> QED
    BY <1>1, <2>2 DEF Store, FallThrough, TypeOK
<1> QED
  BY <1>1 DEF StoreStep, DirectSTM, IndirectSTM

(* Calls and returns. *)
LEMMA CallSteps ==
  ASSUME IInv, CallStep
  PROVE  Kept
<1> USE Fetched, ErrorTypes
<1>0. TypeOK /\ mSP \in Int /\ STACK_START \in Int
  BY StackFacts, Widths DEF IInv, TypeOK, Word
<1>1. ASSUME NEW target \in Word, Call(target)
      PROVE  Kept
  <2>1. Push(NextPC, PCError(target)) /\ SetProgramCounter(target)
        /\ UNCHANGED <<mRegisters, mFR, calls, status>>
    BY <1>1 DEF Call
  <2>2. /\ mMemory' \in [Address -> Byte]
        /\ mSP' \in Word /\ mSP <= mSP' /\ mSP' <= STACK_END
        /\ mErrorCode' \in SUBSET ErrorBits
    BY <1>0, <2>1, PushType
  <2>3. mPC' \in Word
    BY <1>0, <2>1, JumpType
  <2>4. STACK_START <= mSP => STACK_START <= mSP'
    BY <1>0, <2>2, Widths DEF Word
  <2> QED
    BY <1>0, <2>1, <2>2, <2>3, <2>4 DEF IInv, Kept, SPBelowEnd, TypeOK
<1>2. CASE DirectCALL
  BY <1>0, <1>1, <1>2 DEF DirectCALL
<1>3. CASE IndirectCALL
  BY <1>0, <1>1, <1>3 DEF IndirectCALL
<1>4. CASE Cx
  <2>1. CASE CondHolds
    BY <1>0, <1>1, <1>4, <2>1 DEF Cx
  <2>2. CASE ~CondHolds
    BY <1>0, <1>4, <2>2 DEF Cx, FallThrough, IInv, Kept, SPBelowEnd, TypeOK
  <2> QED
    BY <2>1, <2>2
<1>5. CASE RET
  <2>1. PICK val \in PopValues :
          /\ SetProgramCounter(val)
          /\ mErrorCode' = PopError \cup PCError(val)
    BY <1>5 DEF RET
  <2>2. val \in Word
    BY PopType
  <2>3. mPC' \in Word
    BY <1>0, <2>1, <2>2, JumpType
  <2>4. mErrorCode' \in SUBSET ErrorBits
    BY <2>1
  <2> QED
    BY <1>0, <1>5, <2>3, <2>4, PopType DEF RET, IInv, Kept, SPBelowEnd, TypeOK
<1> QED
  BY <1>2, <1>3, <1>4, <1>5 DEF CallStep

(* How far PUSHALL and POPALL get. *)
LEMMA AllCounts ==
  ASSUME IInv
  PROVE  /\ mSP \in Nat /\ mSP < WORD
         /\ Pushes \in 0 .. NB_REGISTERS /\ mSP + 2 * Pushes <= STACK_END
         /\ Pops \in 0 .. NB_REGISTERS
         /\ Pops > 0 => STACK_START <= mSP - 2 * Pops
         /\ NB_REGISTERS \in Nat
<1>1. mSP \in Nat /\ mSP < WORD /\ mSP <= STACK_END /\ NB_REGISTERS \in Nat
  BY Widths DEF IInv, TypeOK, SPBelowEnd, Word, NB_REGISTERS
<1> QED
  BY <1>1, StackFacts DEF Pushes, Pops, Least

(* Pushes and pops. *)
LEMMA StackSteps ==
  ASSUME IInv, StackStep
  PROVE  Kept
<1> USE Fetched, ErrorTypes
<1>0. TypeOK /\ mSP \in Int /\ STACK_START \in Int
  BY StackFacts, Widths DEF IInv, TypeOK, Word
<1>1. ASSUME NEW value \in Word, Push(value, {}), FallThrough,
             UNCHANGED <<mRegisters, mFR, calls, status>>
      PROVE  Kept
  <2>1. /\ mMemory' \in [Address -> Byte]
        /\ mSP' \in Word /\ mSP <= mSP' /\ mSP' <= STACK_END
        /\ mErrorCode' \in SUBSET ErrorBits
    BY <1>1, PushType
  <2>2. STACK_START <= mSP => STACK_START <= mSP'
    BY <1>0, <2>1, Widths DEF Word
  <2> QED
    BY <1>0, <1>1, <2>1, <2>2 DEF FallThrough, IInv, Kept, SPBelowEnd, TypeOK
<1>2. CASE PUSH
  BY <1>0, <1>1, <1>2 DEF PUSH
<1>3. CASE PUSHF
  <2>1. FlagValue(mFR) \in Word
    BY <1>0, FlagTypes, ByteIsWord DEF TypeOK
  <2> QED
    BY <1>1, <1>3, <2>1 DEF PUSHF
<1>4. CASE POP
  <2>1. PICK val \in PopValues : SetRegister(inst.x, val)
    BY <1>4 DEF POP
  <2>2. val \in Word
    BY PopType
  <2> QED
    BY <1>0, <1>4, <2>1, <2>2, PopType
       DEF POP, SetRegister, FallThrough, IInv, Kept, SPBelowEnd, TypeOK
<1>5. CASE POPF
  BY <1>0, <1>5, PopType
     DEF POPF, FlagsOf, FallThrough, IInv, Kept, SPBelowEnd, TypeOK
<1>6. CASE PUSHALL
  <2>1. mMemory' \in [Address -> Byte]
    <3>1. ASSUME NEW a \in Address, 0 <= a - mSP, a - mSP < 2 * Pushes
          PROVE  /\ Lo(mRegisters[(a - mSP) \div 2]) \in Byte
                 /\ Hi(mRegisters[(a - mSP) \div 2]) \in Byte
      <4>1. (a - mSP) \div 2 \in Register
        BY <3>1, AllCounts, Widths DEF Register, Address, MEMORY_SIZE
      <4> QED
        BY <1>0, <4>1, SplitWord DEF TypeOK
    <3> QED
      BY <1>0, <1>6, <3>1 DEF PUSHALL, TypeOK
  <2>2. mSP' \in Word /\ mSP <= mSP' /\ mSP' <= STACK_END
    BY <1>6, AllCounts, StackFacts, Widths DEF PUSHALL, Word
  <2>3. mErrorCode' \in SUBSET ErrorBits
    BY <1>0, <1>6 DEF PUSHALL, TypeOK
  <2>4. STACK_START <= mSP => STACK_START <= mSP'
    BY <1>0, <2>2, Widths DEF Word
  <2> QED
    BY <1>0, <1>6, <2>1, <2>2, <2>3, <2>4
       DEF PUSHALL, FallThrough, IInv, Kept, SPBelowEnd, TypeOK
<1>7. CASE POPALL
  <2>0. /\ mSP \in Nat /\ mSP < WORD /\ mSP <= STACK_END
        /\ Pops \in Nat /\ Pops <= NB_REGISTERS
        /\ Pops > 0 => STACK_START <= mSP - 2 * Pops
    BY AllCounts DEF IInv, SPBelowEnd
  <2>1. ASSUME NEW k \in 1 .. Pops
        PROVE  WordAt(mSP - 2 * k) \in Word
    <3>0. k \in Nat /\ 0 < k /\ k <= Pops
      BY <2>0
    <3>1. STACK_START <= mSP - 2 * k /\ mSP - 2 * k + 1 < WORD
      BY <2>0, <3>0, StackFacts, Widths
    <3>2. mSP - 2 * k \in Address /\ mSP - 2 * k + 1 \in Address
      BY <2>0, <3>0, <3>1, StackFacts, Widths DEF Word
    <3> QED
      BY <1>0, <3>2, JoinBytes DEF WordAt, TypeOK
  <2>2. PICK val \in IF Pops = 0 THEN Junk ELSE {WordAt(mSP - 2 * Pops)} :
          mRegisters' = [r \in Register |->
            IF NB_REGISTERS - r <= Pops
            THEN WordAt(mSP - 2 * (NB_REGISTERS - r)) ELSE val]
    BY <1>7 DEF POPALL
  <2>3. val \in Word
    <3>1. CASE Pops = 0
      BY <3>1, <2>2, JunkAssumption
    <3>2. CASE Pops # 0
      BY <3>2, <2>1, <2>2, AllCounts
    <3> QED
      BY <3>1, <3>2
  <2>4. \A r \in Register : NB_REGISTERS - r <= Pops =>
          NB_REGISTERS - r \in 1 .. Pops
    BY AllCounts DEF Register
  <2>5. mRegisters' \in [Register -> Word]
    BY <2>1, <2>2, <2>3, <2>4
  <2>6. /\ mSP' \in Word /\ mSP' <= STACK_END
        /\ STACK_START <= mSP => STACK_START <= mSP'
    <3>1. mSP' = mSP - 2 * Pops
      BY <1>7 DEF POPALL
    <3>2. CASE Pops = 0
      BY <2>0, <3>1, <3>2, Widths DEF Word
    <3>3. CASE Pops > 0
      BY <2>0, <3>1, <3>3, StackFacts, Widths DEF Word
    <3> QED
      BY <2>0, <3>2, <3>3
  <2>7. mErrorCode' \in SUBSET ErrorBits
    BY <1>0, <1>7 DEF POPALL, TypeOK
  <2> QED
    BY <1>0, <1>7, <2>5, <2>6, <2>7
       DEF POPALL, FallThrough, IInv, Kept, SPBelowEnd, TypeOK
<1> QED
  BY <1>2, <1>3, <1>4, <1>5, <1>6, <1>7 DEF StackStep

(* Arithmetic. *)
LEMMA ArithmeticSteps ==
  ASSUME IInv, ArithmeticStep
  PROVE  Kept
<1> USE Fetched
<1>0. TypeOK /\ mFR \in SUBSET FlagBits
  BY DEF IInv, TypeOK
<1>1. ASSUME Crash PROVE Kept
  BY <1>1 DEF Crash, IInv, Kept, SPBelowEnd, TypeOK
<1>2. ASSUME NEW op1 \in Word, NEW op2 \in Word, NEW target \in Register,
             operation.alu \in BinaryAlu, Compute(op1, op2, target)
      PROVE  Kept
  <2> DEFINE alu == operation.alu
             result == BinaryResult(alu, op1, op2)
  <2>1. CASE Traps(alu, op2)
    BY <1>1, <1>2, <2>1 DEF Compute
  <2>2. CASE ~Traps(alu, op2)
    <3>1. /\ mFR' = SetSignZeroFlag(CarryOverflow(alu, mFR, op1, op2), result)
          /\ SetRegister(target, result)
          /\ mErrorCode' = {}
          /\ FallThrough
          /\ UNCHANGED <<mMemory, mSP, calls, status>>
      BY <1>2, <2>2 DEF Compute
    <3>2. result \in Word
      BY <1>2, <2>2, BinaryType
    <3>3. mFR' \in SUBSET FlagBits
      BY <1>0, <3>1, CarryType, SetFlagTypes
    <3> QED
      BY <1>0, <3>1, <3>2, <3>3
         DEF SetRegister, FallThrough, IInv, Kept, SPBelowEnd, TypeOK
  <2> QED
    BY <2>1, <2>2
<1>3. ASSUME NEW op1 \in Word, NEW op2 \in Word, Discard(op1, op2)
      PROVE  Kept
  <2> DEFINE alu == operation.alu
             result == BinaryResult(alu, op1, op2)
  <2>1. CASE Traps(alu, op2)
    BY <1>1, <1>3, <2>1 DEF Discard
  <2>2. CASE ~Traps(alu, op2)
    <3>1. /\ mFR' = SetSignZeroFlag(CarryOverflow(alu, mFR, op1, op2), result)
          /\ FallThrough
          /\ UNCHANGED <<mRegisters, mMemory, mSP, mErrorCode, calls, status>>
      BY <1>3, <2>2 DEF Discard
    <3>2. mFR' \in SUBSET FlagBits
      BY <1>0, <3>1, CarryType, SetFlagTypes
    <3> QED
      BY <1>0, <3>1, <3>2 DEF FallThrough, IInv, Kept, SPBelowEnd, TypeOK
  <2> QED
    BY <2>1, <2>2
<1>4. ASSUME NEW result \in Word, Assign(result)
      PROVE  Kept
  <2>1. mFR' \in SUBSET FlagBits
    BY <1>0, <1>4, SetFlagTypes DEF Assign
  <2> QED
    BY <1>0, <1>4, <2>1
       DEF Assign, SetRegister, FallThrough, IInv, Kept, SPBelowEnd, TypeOK
<1>5. /\ operation.h \in BinaryForms => operation.alu \in BinaryAlu
      /\ operation.h \in ShiftForms => operation.alu \in ShiftAlu
  BY <1>0 DEF Operation, BinaryForms, UnaryForms, ShiftForms, OtherHandlers
<1>6. CASE ImmediateBinaryArithmetic \/ InplaceBinaryArithmetic
             \/ BasicBinaryArithmetic
  BY <1>0, <1>2, <1>5, <1>6
     DEF ImmediateBinaryArithmetic, InplaceBinaryArithmetic,
         BasicBinaryArithmetic, InterpretOne, BinaryForms
<1>7. CASE DiscardBinaryArithmetic \/ DiscardImmediateBinaryArithmetic
  BY <1>0, <1>3, <1>7
     DEF DiscardBinaryArithmetic, DiscardImmediateBinaryArithmetic
<1>8. CASE ImmediateUnaryArithmetic \/ InplaceUnaryArithmetic
             \/ BasicUnaryArithmetic
  BY <1>0, <1>4, <1>8, UnaryType
     DEF ImmediateUnaryArithmetic, InplaceUnaryArithmetic, BasicUnaryArithmetic
<1>9. CASE NShift
  <2>1. PICK result \in ShiftResults(operation.alu, RX, inst.z) : Assign(result)
    BY <1>9 DEF NShift
  <2>2. operation.alu \in ShiftAlu /\ inst.z \in Nat
    BY <1>0, <1>5, <1>9, Widths
       DEF NShift, InterpretOne, ShiftForms, Register, NB_REGISTERS
  <2> QED
    BY <1>0, <1>4, <2>1, <2>2, ShiftType
<1>10. CASE RegisterShift
  <2>1. PICK result \in ShiftResults(operation.alu, RX, RY) : Assign(result)
    BY <1>10 DEF RegisterShift
  <2>2. operation.alu \in ShiftAlu /\ RY \in Nat
    BY <1>0, <1>5, <1>10, Widths
       DEF RegisterShift, InterpretOne, ShiftForms, Word
  <2> QED
    BY <1>0, <1>4, <2>1, <2>2, ShiftType
<1> QED
  BY <1>6, <1>7, <1>8, <1>9, <1>10 DEF ArithmeticStep

(* Loading. *)
LEMMA AcquireSteps ==
  ASSUME IInv, Acquire
  PROVE  Kept
<1> USE DEF IInv, Kept, SPBelowEnd
<1>1. ASSUME NEW program \in Programs, AcquireProgram(program)
      PROVE  Kept
  <2>1. mMemory' \in [Address -> Byte]
    BY <1>1, LoadType, ProgramAssumption DEF AcquireProgram
  <2>2. calls' \in 0 .. MaxCalls
    BY <1>1, CallsAssumption DEF AcquireProgram, TypeOK
  <2> QED
    BY <1>1, <2>1, <2>2 DEF AcquireProgram, TypeOK
<1>2. ASSUME NEW rom \in ROMs, AcquireROM(rom)
      PROVE  Kept
  <2>1. mMemory' \in [Address -> Byte]
    BY <1>2, LoadType, RomAssumption DEF AcquireROM, TypeOK
  <2>2. mPC' \in Word
    BY <1>2, RomAssumption, SplitWord, ByteIsWord DEF AcquireROM, TypeOK
  <2>3. calls' \in 0 .. MaxCalls
    BY <1>2, CallsAssumption DEF AcquireROM, TypeOK
  <2> QED
    BY <1>2, <2>1, <2>2, <2>3 DEF AcquireROM, TypeOK
<1> QED
  BY <1>1, <1>2 DEF Acquire

(* Every step but Reset keeps the invariant and the stack pointer's bounds.   *)
LEMMA RunStep ==
  ASSUME IInv, Run
  PROVE  Kept
BY PlainSteps, StoreSteps, CallSteps, StackSteps, ArithmeticSteps, AcquireSteps
   DEF Run, Execute

(* Reset keeps the invariant, though not the pointer in the stack. *)
LEMMA ResetStep ==
  ASSUME IInv, Reset
  PROVE  IInv'
<1>1. calls' \in 0 .. MaxCalls
  BY CallsAssumption DEF Reset, IInv, TypeOK
<1> QED
  BY <1>1, StackFacts, Widths DEF Reset, IInv, SPBelowEnd, TypeOK, Word

(* A step that changes nothing. *)
LEMMA StutterStep ==
  ASSUME IInv, UNCHANGED vars
  PROVE  Kept
BY DEF vars, Kept, IInv, SPBelowEnd, TypeOK

(* The constructor's state. *)
LEMMA InitInv == Init => IInv /\ STACK_START <= mSP
BY StackFacts, Widths, MemoryAssumption, CallsAssumption
   DEF Init, IInv, SPBelowEnd, TypeOK, Word

(* IInv is an invariant, Reset included. *)
LEMMA InvAlways == ResetSpec => []IInv
<1>1. Init => IInv
  BY InitInv
<1>2. IInv /\ [Next]_vars => IInv'
  BY RunStep, ResetStep, StutterStep DEF Next, Kept
<1> QED
  BY <1>1, <1>2, PTL DEF ResetSpec

----------------------------------------------------------------------------
(* Whatever the program and the caller do, Reset included, every register,    *)
(* memory cell and pointer of the machine keeps its width.                    *)
THEOREM TypeCorrect == ResetSpec => []TypeOK
<1>1. IInv => TypeOK
  BY DEF IInv
<1> QED
  BY <1>1, InvAlways, PTL

(* Only Reset takes the stack pointer out of the stack: LDI SP, PUSH, POP,    *)
(* PUSHALL, POPALL, CALL and RET all keep it there.                           *)
THEOREM StackPointerSafe == ResetSpec => StackPointerKept
<1>1. IInv /\ [Next]_vars =>
        [(Run /\ StackPointerInStack) => StackPointerInStack']_vars
  BY RunStep DEF Kept, StackPointerInStack, IInv, SPBelowEnd
<1> QED
  BY <1>1, InvAlways, PTL DEF ResetSpec, StackPointerKept

(* Without a reset it is there at all times, as it is from the start.         *)
COROLLARY NeverOutOfStack == Spec => []StackPointerInStack
<1> DEFINE J == IInv /\ StackPointerInStack
<1>1. Init => J
  BY InitInv DEF StackPointerInStack, IInv, SPBelowEnd
<1>2. J /\ [Run]_vars => J'
  BY RunStep, StutterStep DEF Kept, StackPointerInStack, IInv, SPBelowEnd
<1>3. J => StackPointerInStack
  OBVIOUS
<1> QED
  BY <1>1, <1>2, <1>3, PTL DEF Spec

----------------------------------------------------------------------------
(* An instruction writes at most to program memory, to the two bytes from     *)
(* STACK_START that Store still lets through, and to the bytes the stack      *)
(* pointer passes on its way up.                                              *)
Written(a) == a <= STACK_START + 1 \/ (mSP <= a /\ a < mSP')

(* No instruction writes anywhere else. *)
LEMMA WritesConfined ==
  ASSUME IInv, Execute, NEW a \in Address, ~Written(a)
  PROVE  mMemory'[a] = mMemory[a]
<1> USE Fetched DEF IInv
<1>0. a \in Nat /\ mSP \in Nat /\ STACK_START \in Nat /\ STACK_END \in Nat
  BY StackFacts, Widths DEF Address, MEMORY_SIZE, TypeOK, Word
<1>1. ASSUME NEW value, NEW err, Push(value, err)
      PROVE  mMemory'[a] = mMemory[a]
  <2>1. CASE mSP + 2 <= STACK_END
    <3>1. mMemory' = [mMemory EXCEPT ![mSP] = Lo(value), ![mSP + 1] = Hi(value)]
          /\ mSP' = mSP + 2
      BY <1>0, <1>1, <2>1 DEF Push
    <3>2. a # mSP /\ a # mSP + 1
      BY <1>0, <3>1 DEF Written
    <3> QED
      BY <3>1, <3>2 DEF TypeOK
  <2>2. CASE ~(mSP + 2 <= STACK_END)
    BY <1>1, <2>2 DEF Push
  <2> QED
    BY <2>1, <2>2
<1>2. ASSUME NEW address \in Word, Store(address)
      PROVE  mMemory'[a] = mMemory[a]
  <2>1. CASE StoreError(address) = {}
    <3>1. address <= STACK_START /\ address \in Nat
      BY <1>0, <2>1, Widths DEF StoreError, Word
    <3>2. a # address /\ a # address + 1
      BY <1>0, <3>1 DEF Written
    <3> QED
      BY <1>2, <2>1, <3>2 DEF Store, TypeOK
  <2>2. CASE StoreError(address) # {}
    BY <1>2, <2>2 DEF Store
  <2> QED
    BY <2>1, <2>2
<1>3. CASE PUSHALL
  <2>1. mSP' = mSP + 2 * Pushes /\ Pushes \in Nat
    BY <1>3, AllCounts DEF PUSHALL
  <2>2. ~(0 <= a - mSP /\ a - mSP < 2 * Pushes)
    BY <1>0, <2>1 DEF Written
  <2> QED
    BY <1>3, <2>2 DEF PUSHALL
<1>4. CASE PUSH \/ PUSHF
  BY <1>1, <1>4 DEF PUSH, PUSHF
<1>5. CASE POP \/ POPF \/ POPALL
  BY <1>5 DEF POP, POPF, POPALL
<1>6. CASE StoreStep
  BY <1>2, <1>6 DEF StoreStep, DirectSTM, IndirectSTM
<1>7. CASE CallStep
  BY <1>1, <1>7 DEF CallStep, DirectCALL, IndirectCALL, Cx, RET, Call
<1>8. CASE Unknown \/ NOP \/ RND \/ StackLDI \/ MoveStep \/ JumpStep
  BY <1>8 DEF Unknown, NOP, RND, StackLDI, MoveStep, RegisterLDI, DirectLDM,
              IndirectLDM, Load, MOV, JumpStep, DirectJMP, IndirectJMP, JMC,
              Jx, JME
<1>9. CASE ArithmeticStep
  BY <1>9 DEF ArithmeticStep, ImmediateBinaryArithmetic,
              InplaceBinaryArithmetic, BasicBinaryArithmetic,
              DiscardBinaryArithmetic, DiscardImmediateBinaryArithmetic,
              ImmediateUnaryArithmetic, InplaceUnaryArithmetic,
              BasicUnaryArithmetic, NShift, RegisterShift, Compute, Discard,
              Assign, Crash
<1> QED
  BY <1>3, <1>4, <1>5, <1>6, <1>7, <1>8, <1>9 DEF Execute, StackStep

(* No instruction ever writes to the IO ports, even after a Reset, with the   *)
(* stack pointer outside the stack.                                           *)
THEOREM IOPortsSafe == ResetSpec => IOPortsProtected
<1>1. IInv /\ IInv' /\ [Next]_vars => [Execute => IOPortsUntouched]_vars
  <2> SUFFICES ASSUME IInv, IInv', Execute, NEW a \in Address, a >= STACK_END
               PROVE  mMemory'[a] = mMemory[a]
    BY DEF IOPortsUntouched
  <2>1. a \in Nat /\ mSP' \in Nat /\ mSP' <= STACK_END
    BY Widths DEF Address, MEMORY_SIZE, IInv, TypeOK, Word, SPBelowEnd
  <2>2. ~Written(a)
    BY <2>1, StackFacts DEF Written
  <2> QED
    BY <2>2, WritesConfined
<1> QED
  BY <1>1, InvAlways, PTL DEF ResetSpec, IOPortsProtected

(* A word that stays on the stack is never overwritten, the oldest one        *)
(* excepted, even after a Reset.                                              *)
THEOREM SavedWordsSafe == ResetSpec => SavedWordsProtected
<1>1. IInv /\ [Next]_vars => [Execute => SavedBytesKept]_vars
  <2> SUFFICES ASSUME IInv, Execute, NEW a \in Address,
                      STACK_START + 2 <= a, a < mSP, a < mSP'
               PROVE  mMemory'[a] = mMemory[a]
    BY DEF SavedBytesKept
  <2>1. a \in Nat /\ mSP \in Nat /\ STACK_START \in Nat
    BY Widths, StackFacts DEF Address, MEMORY_SIZE, IInv, TypeOK, Word
  <2>2. ~Written(a)
    BY <2>1 DEF Written
  <2> QED
    BY <2>2, WritesConfined
<1> QED
  BY <1>1, InvAlways, PTL DEF ResetSpec, SavedWordsProtected

----------------------------------------------------------------------------
(* A stack or call instruction that leaves no error code moved the stack      *)
(* pointer by all of its words, even after a Reset: PUSHALL and POPALL keep   *)
(* an error of their own whenever they stop short, CALL and RET join the code *)
(* of the stack with that of the jump.                                        *)
THEOREM SuccessMovesAll == ResetSpec => SuccessIsComplete
<1>1. ASSUME IInv, StackStep \/ CallStep, mErrorCode' = {}, operation.h # "Cx"
      PROVE  mSP' = mSP + 2 * WordsMoved
  <2>0. mSP \in Nat /\ NB_REGISTERS \in Nat
    BY <1>1, AllCounts
  <2>1. ASSUME NEW value, NEW err, Push(value, err)
        PROVE  mSP' = mSP + 2
    BY <1>1, <2>1 DEF Push
  <2>2. ASSUME mSP' = PopSP, PopError = {}
        PROVE  mSP' = mSP - 2
    BY <2>2 DEF PopSP, PopError
  <2>3. CASE PUSH \/ PUSHF \/ DirectCALL \/ IndirectCALL
    <3>1. mSP' = mSP + 2
      BY <2>1, <2>3 DEF PUSH, PUSHF, DirectCALL, IndirectCALL, Call
    <3>2. WordsMoved = 1
      BY <2>3 DEF PUSH, PUSHF, DirectCALL, IndirectCALL, InterpretOne, WordsMoved
    <3> QED
      BY <3>1, <3>2
  <2>4. CASE POP \/ POPF \/ RET
    <3>1. mSP' = PopSP /\ PopError = {}
      BY <1>1, <2>4 DEF POP, POPF, RET
    <3>2. WordsMoved = -1
      BY <2>4 DEF POP, POPF, RET, InterpretOne, WordsMoved
    <3> QED
      BY <2>0, <2>2, <3>1, <3>2
  <2>5. CASE PUSHALL
    <3>1. Pushes = NB_REGISTERS /\ mSP' = mSP + 2 * Pushes
      BY <1>1, <2>5 DEF PUSHALL
    <3>2. WordsMoved = NB_REGISTERS
      BY <2>5 DEF PUSHALL, InterpretOne, WordsMoved
    <3> QED
      BY <3>1, <3>2
  <2>6. CASE POPALL
    <3>1. Pops = NB_REGISTERS /\ mSP' = mSP - 2 * Pops
      BY <1>1, <2>6 DEF POPALL
    <3>2. WordsMoved = -NB_REGISTERS
      BY <2>6 DEF POPALL, InterpretOne, WordsMoved
    <3> QED
      BY <2>0, <3>1, <3>2
  <2>7. ~Cx
    BY <1>1 DEF Cx, InterpretOne
  <2> QED
    BY <1>1, <2>3, <2>4, <2>5, <2>6, <2>7 DEF StackStep, CallStep
<1>2. IInv /\ [Next]_vars =>
        [((StackStep \/ CallStep) /\ mErrorCode' = {} /\ operation.h # "Cx")
           => mSP' = mSP + 2 * WordsMoved]_vars
  BY <1>1
<1> QED
  BY <1>2, InvAlways, PTL DEF ResetSpec, SuccessIsComplete

----------------------------------------------------------------------------
(* The flags CMP leaves. *)
Compared(fr, a, b) ==
  SetSignZeroFlag(SetCarryOverflowFlagSub(fr, a, b), (a - b) % WORD)

(* After CMP the zero flag means equal and the carry flag means below. *)
LEMMA ComparedFlags ==
  ASSUME NEW fr, NEW a \in Word, NEW b \in Word
  PROVE  /\ ZERO_FLAG \in Compared(fr, a, b) <=> a = b
         /\ UNSIGNED_CARRY_FLAG \in Compared(fr, a, b) <=> a < b
<1>1. a \in Nat /\ b \in Nat /\ a < WORD /\ b < WORD /\ WORD \in Nat
  BY Widths DEF Word
<1>2. (a - b) % WORD = 0 <=> a = b
  BY <1>1
<1>3. a - b < 0 <=> a < b
  BY <1>1
<1>4. /\ ZERO_FLAG \in Compared(fr, a, b) <=> (a - b) % WORD = 0
      /\ UNSIGNED_CARRY_FLAG \in Compared(fr, a, b) <=> a - b < 0
  BY FlagAssumption, Zenon
     DEF Compared, SetSignZeroFlag, SetCarryOverflowFlagSub, Set
<1> QED
  BY <1>2, <1>3, <1>4

(* After a comparison the branches on equality and on unsigned order are      *)
(* taken exactly when the operands are in that relation.                      *)
THEOREM UnsignedBranches ==
  ASSUME NEW fr, NEW a \in Word, NEW b \in Word
  PROVE  /\ InterpretConditions("Z", Compared(fr, a, b)) <=> a = b
         /\ InterpretConditions("NZ", Compared(fr, a, b)) <=> a # b
         /\ InterpretConditions("B", Compared(fr, a, b)) <=> a < b
         /\ InterpretConditions("AE", Compared(fr, a, b)) <=> a >= b
         /\ InterpretConditions("BE", Compared(fr, a, b)) <=> a <= b
<1> DEFINE f == Compared(fr, a, b)
<1>1. a \in Nat /\ b \in Nat
  BY Widths DEF Word
<1>2. /\ ZERO_FLAG \in f <=> a = b
      /\ UNSIGNED_CARRY_FLAG \in f <=> a < b
  BY ComparedFlags
<1> HIDE DEF f
<1>3. /\ InterpretConditions("Z", f) <=> ZERO_FLAG \in f
      /\ InterpretConditions("NZ", f) <=> ~(ZERO_FLAG \in f)
      /\ InterpretConditions("B", f) <=> UNSIGNED_CARRY_FLAG \in f
      /\ InterpretConditions("AE", f) <=> ~(UNSIGNED_CARRY_FLAG \in f)
      /\ InterpretConditions("BE", f) <=> (ZERO_FLAG \in f \/ UNSIGNED_CARRY_FLAG \in f)
  BY DEF InterpretConditions
<1> QED
  BY <1>1, <1>2, <1>3 DEF f

(* The carry flag the helpers of the four operations compute. *)
CarryAlu == {"ADD", "SUB", "MUL", "DIV"}

(* The carry flag, after the sign and zero flags were set over it as well. *)
LEMMA CarryFlag ==
  ASSUME NEW alu \in CarryAlu, NEW fr, NEW a \in Word, NEW b \in Word, NEW result,
         ~Traps(alu, b)
  PROVE  UNSIGNED_CARRY_FLAG \in SetSignZeroFlag(CarryOverflow(alu, fr, a, b), result)
           <=> ~Exact(alu, a, b)
<1>0. a \in Nat /\ b \in Nat /\ a < WORD /\ b < WORD /\ WORD \in Nat
  BY Widths DEF Word
<1>1. \A f : UNSIGNED_CARRY_FLAG \in SetSignZeroFlag(f, result)
               <=> UNSIGNED_CARRY_FLAG \in f
  BY FlagAssumption, Zenon DEF SetSignZeroFlag, Set
<1>2. CASE alu = "ADD"
  <2>1. UNSIGNED_CARRY_FLAG \in CarryOverflow(alu, fr, a, b)
          <=> (a + b) % WORD < a
    BY <1>2, FlagAssumption, Zenon DEF CarryOverflow, SetCarryOverflowFlagAdd, Set
  <2>2. (a + b) % WORD < a <=> ~(a + b \in Word)
    BY <1>0 DEF Word
  <2> QED
    BY <1>1, <1>2, <2>1, <2>2 DEF Exact
<1>3. CASE alu = "SUB"
  <2>1. UNSIGNED_CARRY_FLAG \in CarryOverflow(alu, fr, a, b) <=> a - b < 0
    BY <1>3, FlagAssumption, Zenon DEF CarryOverflow, SetCarryOverflowFlagSub, Set
  <2>2. a - b < 0 <=> ~(a - b \in Word)
    BY <1>0 DEF Word
  <2> QED
    BY <1>1, <1>3, <2>1, <2>2 DEF Exact
<1>4. CASE alu = "MUL"
  <2>1. UNSIGNED_CARRY_FLAG \in CarryOverflow(alu, fr, a, b) <=> a * b > WORD - 1
    BY <1>4, FlagAssumption, Zenon DEF CarryOverflow, SetCarryOverflowFlagMul, Set
  <2>2. a * b \in Nat
    BY <1>0
  <2>3. a * b > WORD - 1 <=> ~(a * b \in Word)
    BY <1>0, <2>2 DEF Word
  <2> QED
    BY <1>1, <1>4, <2>1, <2>3 DEF Exact
<1>5. CASE alu = "DIV"
  <2>0. b > 0
    BY <1>0, <1>5 DEF Traps
  <2>1. UNSIGNED_CARRY_FLAG \in CarryOverflow(alu, fr, a, b) <=> a % b # 0
    BY <1>5, FlagAssumption, Zenon DEF CarryOverflow, SetCarryOverflowFlagDiv, Set
  <2>2. ASSUME a % b = 0
        PROVE  \E q \in Word : q * b = a
    <3>1. a \div b \in Word
      BY <2>0, <1>0, DivModWord
    <3>2. (a \div b) * b = a
      BY <2>0, <2>2, <1>0
    <3> QED
      BY <3>1, <3>2
  <2>3. ASSUME NEW q \in Word, q * b = a
        PROVE  a % b = 0
    <3>1. q \in Nat
      BY <1>0 DEF Word
    <3> DEFINE m == a \div b
               r == a % b
    <3>2. m \in Int /\ r \in 0 .. b - 1 /\ a = b * m + r
      BY <2>0, <1>0
    <3> HIDE DEF m, r
    <3>3. r = b * (q - m)
      BY <2>3, <3>1, <3>2, <1>0
    <3>4. q - m < 1
      <4> SUFFICES ASSUME q - m >= 1 PROVE FALSE
        BY <3>1, <3>2
      <4>1. b * (q - m) >= b
        BY <3>1, <3>2, <2>0, <1>0
      <4> QED
        BY <4>1, <3>2, <3>3, <1>0
    <3>5. q - m > -1
      <4> SUFFICES ASSUME q - m <= -1 PROVE FALSE
        BY <3>1, <3>2
      <4>1. b * (q - m) <= -b
        BY <3>1, <3>2, <2>0, <1>0
      <4> QED
        BY <4>1, <3>2, <3>3, <2>0, <1>0
    <3>6. q - m = 0
      BY <3>1, <3>2, <3>4, <3>5
    <3> QED
      BY <3>3, <3>6, <1>0 DEF r
  <2> QED
    BY <1>1, <1>5, <2>1, <2>2, <2>3 DEF Exact
<1> QED
  BY <1>2, <1>3, <1>4, <1>5 DEF CarryAlu

(* The carry flag tells, after each of the four operations and whatever the   *)
(* width of a word, that the result is not the exact one.                     *)
THEOREM CarryIsExact == ResetSpec => CarryMeansInexact
<1>1. ASSUME IInv, ArithmeticStep, status' = "running", operation.alu \in CarryAlu
      PROVE  UNSIGNED_CARRY_FLAG \in mFR'
               <=> ~Exact(operation.alu, RX, SecondOperand)
  <2>0. TypeOK
    BY <1>1 DEF IInv
  <2>1. RX \in Word /\ SecondOperand \in Word /\ operation \in Operation
    BY <2>0, Fetched DEF SecondOperand
  <2>2. operation.h \in BinaryForms
    BY <1>1, <2>1 DEF Operation, CarryAlu, UnaryAlu, ShiftAlu
  <2>3. /\ ~Traps(operation.alu, SecondOperand)
        /\ \E result : mFR' = SetSignZeroFlag(
              CarryOverflow(operation.alu, mFR, RX, SecondOperand), result)
    <3>1. CASE ImmediateBinaryArithmetic
      BY <1>1, <3>1 DEF ImmediateBinaryArithmetic, InterpretOne, SecondOperand,
                        Compute, Crash
    <3>2. CASE InplaceBinaryArithmetic
      BY <1>1, <3>2 DEF InplaceBinaryArithmetic, InterpretOne, SecondOperand,
                        Compute, Crash
    <3>3. CASE BasicBinaryArithmetic
      BY <1>1, <3>3 DEF BasicBinaryArithmetic, InterpretOne, SecondOperand,
                        Compute, Crash
    <3>4. CASE DiscardBinaryArithmetic
      BY <1>1, <3>4 DEF DiscardBinaryArithmetic, InterpretOne, SecondOperand,
                        Discard, Crash
    <3>5. CASE DiscardImmediateBinaryArithmetic
      BY <1>1, <3>5 DEF DiscardImmediateBinaryArithmetic, InterpretOne,
                        SecondOperand, Discard, Crash
    <3>6. ~(ImmediateUnaryArithmetic \/ InplaceUnaryArithmetic
              \/ BasicUnaryArithmetic \/ NShift \/ RegisterShift)
      BY <2>2 DEF ImmediateUnaryArithmetic, InplaceUnaryArithmetic,
                  BasicUnaryArithmetic, NShift, RegisterShift, InterpretOne,
                  BinaryForms
    <3> QED
      BY <1>1, <3>1, <3>2, <3>3, <3>4, <3>5, <3>6 DEF ArithmeticStep
  <2> QED
    BY <1>1, <2>1, <2>3, CarryFlag
<1>2. IInv /\ [Next]_vars =>
        [(ArithmeticStep /\ status' = "running"
            /\ operation.alu \in {"ADD", "SUB", "MUL", "DIV"})
         => (UNSIGNED_CARRY_FLAG \in mFR'
               <=> ~Exact(operation.alu, RX, SecondOperand))]_vars
  BY <1>1 DEF CarryAlu
<1> QED
  BY <1>2, InvAlways, PTL DEF ResetSpec, CarryMeansInexact


----------------------------------------------------------------------------
(* The refinement of WordStack.  It is about callers that do not reset the    *)
(* machine, programs that fit below the stack and instruction sets that       *)
(* cannot put the stack pointer anywhere: LDI SP makes whatever lies below    *)
(* the new pointer part of the stack.                                         *)
NoStackLoad == \A opcode \in Byte : mOps[opcode].h # "StackLDI"
LoadsBelowStack ==
  /\ \A program \in Programs : Len(program) <= STACK_START
  /\ \A rom \in ROMs : Len(rom.data) <= STACK_START

(* Words on the stack, room for words, and where the i-th word lies.          *)
Height == (mSP - STACK_START) \div 2
Depth == (STACK_END - STACK_START) \div 2
Slot(i) == STACK_START + 2 * (i - 1)

(* IInv does not say that the pointer is a whole number of words above the    *)
(* start; only then are the words of the stack those that were pushed.        *)
WholeWords == STACK_START <= mSP /\ mSP = STACK_START + 2 * Height
SInv == IInv /\ WholeWords

(* The arithmetic of a stack of whole words. *)
LEMMA StackShape ==
  ASSUME SInv
  PROVE  /\ mSP \in Nat /\ Height \in Nat /\ Depth \in Nat /\ Height <= Depth
         /\ mSP = STACK_START + 2 * Height
         /\ mSP + 2 <= STACK_END <=> Height < Depth
         /\ (STACK_END - mSP) \div 2 = Depth - Height
         /\ CanPop <=> Height > 0
<1>1. mSP \in Nat /\ mSP <= STACK_END /\ STACK_START <= mSP
  BY StackFacts, Widths DEF SInv, IInv, WholeWords, SPBelowEnd, TypeOK, Word
<1>2. mSP = STACK_START + 2 * Height
  BY DEF SInv, WholeWords
<1> QED
  BY <1>1, <1>2, StackFacts DEF Height, Depth, CanPop

(* Where the words lie. *)
LEMMA SlotFacts ==
  ASSUME SInv, NEW i \in 1 .. Height
  PROVE  /\ Slot(i) \in Address /\ Slot(i) + 1 \in Address
         /\ Slot(i) \in Nat
         /\ STACK_START <= Slot(i) /\ Slot(i) + 1 < mSP
         /\ i # 1 => STACK_START + 2 <= Slot(i)
         /\ WordAt(Slot(i)) \in Word
<1>1. /\ STACK_START <= Slot(i) /\ Slot(i) + 1 < mSP
      /\ Slot(i) \in Nat
      /\ i # 1 => STACK_START + 2 <= Slot(i)
  BY StackShape, StackFacts DEF Slot
<1>2. mSP \in Nat /\ mSP < WORD
  BY AllCounts DEF SInv
<1>3. Slot(i) \in Address /\ Slot(i) + 1 \in Address
  BY <1>1, <1>2, StackFacts, Widths DEF Word
<1>4. WordAt(Slot(i)) \in Word
  BY <1>3, JoinBytes DEF WordAt, SInv, IInv, TypeOK
<1> QED
  BY <1>1, <1>3, <1>4

(* StackWords is a sequence of Height words. *)
Formed ==
  /\ StackWords \in Seq(Word) /\ Len(StackWords) = Height
  /\ StackWords = [i \in 1 .. Height |-> WordAt(Slot(i))]
  /\ \A i \in 1 .. Height : StackWords[i] = WordAt(Slot(i))
LEMMA StackIsSequence ==
  ASSUME SInv
  PROVE  Formed
<1>1. StackWords = [i \in 1 .. Height |-> WordAt(Slot(i))]
  BY DEF StackWords, Height, Slot
<1>2. \A i \in 1 .. Height : WordAt(Slot(i)) \in Word
  BY SlotFacts
<1>3. Height \in Nat
  BY StackShape
<1> QED
  BY <1>1, <1>2, <1>3 DEF Formed

(* It is one after a step too. *)
LEMMA StillSequence == SInv' => Formed'
<1>1. SInv => Formed
  BY StackIsSequence
<1> QED
  BY <1>1, PTL

(* A step that leaves the pointer and the bytes of the stack as they are      *)
(* leaves its words.                                                          *)
LEMMA SameStack ==
  ASSUME SInv, mSP' = mSP,
         \A a \in Address : (STACK_START <= a /\ a < mSP) => mMemory'[a] = mMemory[a]
  PROVE  SInv' => StackWords' = StackWords
<1> SUFFICES ASSUME SInv' PROVE StackWords' = StackWords
  OBVIOUS
<1>1. StackWords' = [i \in 1 .. Height |-> WordAt(Slot(i))']
  BY DEF StackWords, Height, Slot
<1>2. ASSUME NEW i \in 1 .. Height
      PROVE  WordAt(Slot(i))' = WordAt(Slot(i))
  <2>1. /\ Slot(i) \in Address /\ Slot(i) + 1 \in Address
        /\ Slot(i) \in Nat
        /\ STACK_START <= Slot(i) /\ Slot(i) + 1 < mSP
    BY SlotFacts
  <2>2. Slot(i) < mSP /\ STACK_START <= Slot(i) + 1
    BY <2>1, StackShape, StackFacts
  <2>3. mMemory'[Slot(i)] = mMemory[Slot(i)]
        /\ mMemory'[Slot(i) + 1] = mMemory[Slot(i) + 1]
    BY <2>1, <2>2
  <2> QED
    BY <2>3 DEF WordAt, Slot
<1> QED
  BY <1>1, <1>2, StackIsSequence DEF Formed

(* What a step of the machine must do: keep the invariant, and be a step of   *)
(* WordStack or leave its state alone.                                        *)
Refined == SInv' /\ [Abstract!Next]_<<StackWords, mRegisters>>

(* The pointer moves by whole words. *)
LEMMA MovesByWords ==
  ASSUME SInv, IInv', STACK_START <= mSP', NEW k \in Int, mSP' = mSP + 2 * k
  PROVE  SInv' /\ Height' = Height + k
<1>1. PICK h \in Nat : h = Height
  BY StackShape
<1>2. mSP' - STACK_START = 2 * (h + k)
  BY <1>1, StackShape, StackFacts
<1>3. \A n \in Int : (2 * n) \div 2 = n
  OBVIOUS
<1>4. Height' = h + k
  BY <1>2, <1>3 DEF Height
<1>5. mSP' = STACK_START + 2 * (h + k)
  BY <1>1, StackShape, StackFacts
<1> QED
  BY <1>1, <1>4, <1>5 DEF SInv, WholeWords

(* A step that leaves the stack alone changes registers only. *)
LEMMA RegistersOnly ==
  ASSUME SInv, Kept, mSP' = mSP,
         \A a \in Address : (STACK_START <= a /\ a < mSP) => mMemory'[a] = mMemory[a]
  PROVE  Refined
<1>1. IInv' /\ STACK_START <= mSP'
  BY DEF Kept, SInv, WholeWords
<1>2. SInv'
  <2>1. mSP' = mSP + 2 * 0
    BY StackShape
  <2> QED
    BY <1>1, <2>1, MovesByWords
<1>3. StackWords' = StackWords
  BY <1>2, SameStack
<1>4. Abstract!Compute
  BY <1>1, <1>3 DEF Abstract!Compute, Abstract!RegisterId, IInv, TypeOK, Register, NB_REGISTERS
<1> QED
  BY <1>2, <1>4 DEF Refined, Abstract!Next

(* Push appends a word, or leaves a full stack alone. *)
LEMMA PushRefines ==
  ASSUME SInv, Kept, NEW v \in Word, NEW err, Push(v, err), UNCHANGED mRegisters
  PROVE  Refined
<1>1. CASE mSP + 2 > STACK_END
  BY <1>1, RegistersOnly, StackShape, StackFacts DEF Push
<1>2. CASE mSP + 2 <= STACK_END
  <2>1. /\ mMemory' = [mMemory EXCEPT ![mSP] = Lo(v), ![mSP + 1] = Hi(v)]
        /\ mSP' = mSP + 2 * 1
    BY <1>2, StackShape, StackFacts DEF Push
  <2>2. PICK h \in Nat : h = Height
    BY StackShape
  <2>3. SInv' /\ Height' = h + 1
    BY <2>1, <2>2, MovesByWords DEF Kept, SInv, WholeWords
  <2>4. mSP \in Address /\ mSP + 1 \in Address /\ mSP \in Nat
    <3>1. mSP \in Nat
      BY StackShape
    <3>2. STACK_END \in Nat /\ WORD \in Nat /\ STACK_END < WORD /\ Address = 0 .. WORD - 1
      BY StackFacts, Widths DEF Word
    <3>3. mSP \in 0 .. WORD - 1 /\ mSP + 1 \in 0 .. WORD - 1
      BY <1>2, <3>1, <3>2
    <3> QED
      BY <3>1, <3>2, <3>3
  <2>5. ASSUME NEW i \in 1 .. h
        PROVE  WordAt(Slot(i))' = WordAt(Slot(i))
    <3>1. /\ Slot(i) \in Address /\ Slot(i) + 1 \in Address
          /\ Slot(i) \in Nat /\ Slot(i) + 1 < mSP
      BY <2>2, SlotFacts
    <3>2. Slot(i) # mSP /\ Slot(i) + 1 # mSP /\ Slot(i) # mSP + 1
          /\ Slot(i) + 1 # mSP + 1
      BY <2>4, <3>1
    <3> QED
      BY <2>1, <3>1, <3>2 DEF WordAt, Slot, SInv, IInv, TypeOK
  <2>6. WordAt(Slot(h + 1))' = v
    <3>1. Slot(h + 1) = mSP
      BY <2>2, StackShape, StackFacts DEF Slot
    <3>2. mMemory'[mSP] = Lo(v) /\ mMemory'[mSP + 1] = Hi(v)
      BY <2>1, <2>4 DEF SInv, IInv, TypeOK
    <3> QED
      BY <3>1, <3>2, SplitWord DEF WordAt, Slot
  <2>7. /\ StackWords' \in Seq(Word) /\ Len(StackWords') = h + 1
        /\ \A i \in 1 .. h + 1 : StackWords'[i] = WordAt(Slot(i))'
    BY <2>3, StillSequence DEF Formed
  <2>8. /\ StackWords \in Seq(Word) /\ Len(StackWords) = h
        /\ \A i \in 1 .. h : StackWords[i] = WordAt(Slot(i))
    BY <2>2, StackIsSequence DEF Formed
  <2>9. StackWords' = Append(StackWords, v)
    <3>1. /\ Append(StackWords, v) \in Seq(Word)
          /\ Len(Append(StackWords, v)) = h + 1
          /\ \A i \in 1 .. h : Append(StackWords, v)[i] = StackWords[i]
          /\ Append(StackWords, v)[h + 1] = v
      BY <2>8, AppendProperties
    <3>2. ASSUME NEW i \in 1 .. h + 1
          PROVE  StackWords'[i] = Append(StackWords, v)[i]
      BY <2>5, <2>6, <2>7, <2>8, <3>1
    <3> QED
      BY <2>7, <3>1, <3>2, SeqEqual
  <2>10. Len(StackWords) < Depth
    BY <1>2, <2>2, <2>8, StackShape
  <2>11. Abstract!Push
    BY <2>9, <2>10 DEF Abstract!Push, Depth
  <2> QED
    BY <2>3, <2>11 DEF Refined, Abstract!Next
<1> QED
  BY <1>1, <1>2, StackShape, StackFacts

(* The j-th word from the top. *)
LEMMA FromTop ==
  ASSUME SInv, NEW j \in 1 .. Height
  PROVE  StackWords[Height - j + 1] = WordAt(mSP - 2 * j)
<1>1. PICK h \in Nat : h = Height
  BY StackShape
<1>2. h - j + 1 \in 1 .. h /\ Slot(h - j + 1) = mSP - 2 * j
  BY <1>1, StackShape, StackFacts DEF Slot
<1> QED
  BY <1>1, <1>2, StackIsSequence DEF Formed

(* Moving the pointer down by k words drops the last k. *)
LEMMA Dropped ==
  ASSUME SInv, SInv', UNCHANGED mMemory, NEW k \in Nat, k <= Height,
         Height' = Height - k
  PROVE  StackWords' = SubSeq(StackWords, 1, Len(StackWords) - k)
<1>1. PICK h \in Nat : h = Height
  BY StackShape
<1>2. /\ StackWords \in Seq(Word) /\ Len(StackWords) = h
      /\ \A i \in 1 .. h : StackWords[i] = WordAt(Slot(i))
  BY <1>1, StackIsSequence DEF Formed
<1>3. /\ StackWords' \in Seq(Word) /\ Len(StackWords') = h - k
      /\ \A i \in 1 .. h - k : StackWords'[i] = WordAt(Slot(i))'
  BY <1>1, StillSequence DEF Formed
<1>4. h - k \in Nat /\ \A i \in 1 .. h - k : i \in 1 .. h /\ 1 + i - 1 = i
  BY <1>1
<1>5. \A i \in 1 .. h - k : StackWords[i] \in Word
  BY <1>2, <1>4, ElementOfSeq
<1>6. /\ SubSeq(StackWords, 1, h - k) \in Seq(Word)
      /\ Len(SubSeq(StackWords, 1, h - k)) = h - k
      /\ \A i \in 1 .. h - k : SubSeq(StackWords, 1, h - k)[i] = StackWords[i]
  BY <1>4, <1>5, SubSeqProperties
<1>7. ASSUME NEW i \in 1 .. h - k
      PROVE  StackWords'[i] = SubSeq(StackWords, 1, h - k)[i]
  <2>1. WordAt(Slot(i))' = WordAt(Slot(i))
    BY DEF WordAt, Slot
  <2> QED
    BY <1>2, <1>3, <1>4, <1>6, <2>1
<1> QED
  BY <1>2, <1>3, <1>6, <1>7, SeqEqual

(* Pop takes the last word to a register or elsewhere, or fails and changes   *)
(* registers only.                                                            *)
LEMMA PopRefines ==
  ASSUME SInv, Kept, UNCHANGED mMemory, mSP' = PopSP,
         \/ UNCHANGED mRegisters
         \/ \E r \in Register, val \in PopValues :
              mRegisters' = [mRegisters EXCEPT ![r] = val]
  PROVE  Refined
<1>1. CASE ~CanPop
  BY <1>1, RegistersOnly DEF PopSP
<1>2. CASE CanPop
  <2>1. mSP' = mSP + 2 * (-1)
    BY <1>2, StackShape DEF PopSP
  <2>2. SInv' /\ Height' = Height + (-1)
    BY <2>1, MovesByWords DEF Kept, SInv, WholeWords
  <2>3. Height \in Nat /\ Height > 0
    BY <1>2, StackShape
  <2>4. StackWords' = SubSeq(StackWords, 1, Len(StackWords) - 1)
    <3>1. Height' = Height - 1
      BY <2>2, <2>3
    <3> QED
      BY <2>2, <2>3, <3>1, Dropped
  <2>5. StackWords # <<>>
    BY <2>3, StackIsSequence DEF Formed
  <2>6. StackWords[Len(StackWords)] = WordAt(mSP - 2)
    <3>1. StackWords[Height - 1 + 1] = WordAt(mSP - 2 * 1)
      BY <2>3, FromTop
    <3> QED
      BY <2>3, <3>1, StackIsSequence DEF Formed
  <2>7. \/ UNCHANGED mRegisters
        \/ \E r \in 0 .. NB_REGISTERS - 1 :
             mRegisters' = [mRegisters EXCEPT ![r] = StackWords[Len(StackWords)]]
    BY <1>2, <2>6 DEF PopValues, Register
  <2>8. Abstract!Pop
    BY <2>4, <2>5, <2>7 DEF Abstract!Pop, Abstract!RegisterId
  <2> QED
    BY <2>2, <2>8 DEF Refined, Abstract!Next
<1> QED
  BY <1>1, <1>2

(* PUSHALL appends as many registers as there is room for. *)
LEMMA PushAllRefines ==
  ASSUME SInv, Kept, PUSHALL
  PROVE  Refined
<1>1. PICK h \in Nat, k \in Nat : h = Height /\ k = Pushes
  BY StackShape, AllCounts DEF SInv
<1>2. k = Abstract!AtMost(NB_REGISTERS, Depth - h)
  BY <1>1, StackShape DEF Pushes, Least, Abstract!AtMost
<1>3. /\ k <= NB_REGISTERS /\ NB_REGISTERS \in Nat /\ mSP \in Nat
      /\ mSP + 2 * k <= STACK_END
      /\ \A a \in Address : a \in Int
  BY <1>1, AllCounts, Widths DEF SInv, Address, MEMORY_SIZE
<1>4. /\ mSP' = mSP + 2 * k
      /\ \A a \in Address : ~(0 <= a - mSP) => mMemory'[a] = mMemory[a]
      /\ \A a \in Address : (0 <= a - mSP /\ a - mSP < 2 * k) =>
           mMemory'[a] = IF (a - mSP) % 2 = 0
                         THEN Lo(mRegisters[(a - mSP) \div 2])
                         ELSE Hi(mRegisters[(a - mSP) \div 2])
  BY <1>1 DEF PUSHALL
<1>5. SInv' /\ Height' = h + k
  BY <1>1, <1>4, MovesByWords DEF Kept, SInv, WholeWords
<1> DEFINE saved == [i \in 1 .. k |-> mRegisters[i - 1]]
<1>6. \A i \in 1 .. k : i - 1 \in Register
  BY <1>3 DEF Register
<1>7. /\ saved \in Seq(Word) /\ Len(saved) = k
      /\ \A i \in 1 .. k : saved[i] = mRegisters[i - 1]
  BY <1>6 DEF SInv, IInv, TypeOK
<1>8. /\ StackWords \in Seq(Word) /\ Len(StackWords) = h
      /\ \A i \in 1 .. h : StackWords[i] = WordAt(Slot(i))
  BY <1>1, StackIsSequence DEF Formed
<1>9. /\ StackWords' \in Seq(Word) /\ Len(StackWords') = h + k
      /\ \A i \in 1 .. h + k : StackWords'[i] = WordAt(Slot(i))'
  BY <1>5, StillSequence DEF Formed
<1> HIDE DEF saved
<1>10. /\ StackWords \o saved \in Seq(Word) /\ Len(StackWords \o saved) = h + k
       /\ \A i \in 1 .. h + k : (StackWords \o saved)[i] =
            IF i <= h THEN StackWords[i] ELSE saved[i - h]
  BY <1>7, <1>8, ConcatProperties
<1>11. ASSUME NEW i \in 1 .. h
       PROVE  WordAt(Slot(i))' = WordAt(Slot(i))
  <2>1. /\ Slot(i) \in Address /\ Slot(i) + 1 \in Address
        /\ Slot(i) \in Nat /\ Slot(i) + 1 < mSP
    BY <1>1, SlotFacts
  <2>2. ~(0 <= Slot(i) - mSP) /\ ~(0 <= Slot(i) + 1 - mSP)
    BY <1>3, <2>1
  <2>3. mMemory'[Slot(i)] = mMemory[Slot(i)]
        /\ mMemory'[Slot(i) + 1] = mMemory[Slot(i) + 1]
    BY <1>3, <1>4, <2>1, <2>2
  <2> QED
    BY <2>3 DEF WordAt, Slot
<1>12. ASSUME NEW j \in 1 .. k
       PROVE  WordAt(Slot(h + j))' = mRegisters[j - 1]
  <2> DEFINE a == mSP + 2 * (j - 1)
  <2>1. Slot(h + j) = a
    BY <1>1, <1>3, StackShape, StackFacts DEF Slot
  <2>a. a \in Address /\ a + 1 \in Address
    <3>1. a \in Nat /\ a + 2 <= STACK_END
      BY <1>3, StackFacts
    <3> HIDE DEF a
    <3> QED
      BY <3>1, StackFacts, Widths DEF Word
  <2>b. /\ j - 1 \in Nat /\ j - 1 < k
        /\ a - mSP = 2 * (j - 1) /\ a + 1 - mSP = 2 * (j - 1) + 1
    BY <1>3
  <2> HIDE DEF a
  <2>c. \A n \in Nat : /\ (2 * n) % 2 = 0 /\ (2 * n) \div 2 = n
                       /\ (2 * n + 1) % 2 = 1 /\ (2 * n + 1) \div 2 = n
    OBVIOUS
  <2>2. /\ 0 <= a - mSP /\ a - mSP < 2 * k /\ (a - mSP) % 2 = 0
        /\ (a - mSP) \div 2 = j - 1
        /\ 0 <= a + 1 - mSP /\ a + 1 - mSP < 2 * k /\ (a + 1 - mSP) % 2 # 0
        /\ (a + 1 - mSP) \div 2 = j - 1
    BY <2>b, <2>c
  <2>3. mMemory'[a] = Lo(mRegisters[j - 1]) /\ mMemory'[a + 1] = Hi(mRegisters[j - 1])
    BY <1>3, <1>4, <2>a, <2>2
  <2>4. mRegisters[j - 1] \in Word
    BY <1>6 DEF SInv, IInv, TypeOK
  <2>5. WordAt(Slot(h + j))' = WordOf(mMemory'[Slot(h + j)], mMemory'[Slot(h + j) + 1])
    BY DEF WordAt, Slot
  <2> QED
    BY <2>1, <2>3, <2>4, <2>5, SplitWord
<1>13. ASSUME NEW i \in 1 .. h + k
       PROVE  StackWords'[i] = (StackWords \o saved)[i]
  <2>1. CASE i <= h
    <3>1. i \in 1 .. h
      BY <2>1
    <3> QED
      BY <1>8, <1>9, <1>10, <1>11, <2>1, <3>1
  <2>2. CASE ~(i <= h)
    <3>1. i - h \in 1 .. k /\ h + (i - h) = i
      BY <2>2
    <3>2. WordAt(Slot(h + (i - h)))' = mRegisters[(i - h) - 1]
      BY <1>12, <3>1
    <3>3. StackWords'[i] = mRegisters[(i - h) - 1]
      BY <1>9, <3>1, <3>2
    <3> QED
      BY <1>7, <1>10, <2>2, <3>1, <3>3
  <2> QED
    BY <2>1, <2>2
<1>14. StackWords' = StackWords \o saved
  BY <1>9, <1>10, <1>13, SeqEqual
<1>15. Abstract!PushAll
  BY <1>2, <1>8, <1>14 DEF Abstract!PushAll, PUSHALL, saved, Depth
<1> QED
  BY <1>5, <1>15 DEF Refined, Abstract!Next

(* POPALL takes as many words as there are, the highest register first. *)
LEMMA PopAllRefines ==
  ASSUME SInv, Kept, POPALL
  PROVE  Refined
<1>1. PICK h \in Nat, k \in Nat : h = Height /\ k = Pops
  BY StackShape, AllCounts DEF SInv
<1>2. k = Abstract!AtMost(NB_REGISTERS, h) /\ k <= h
  BY <1>1, StackShape, AllCounts, StackFacts
     DEF Pops, Least, Abstract!AtMost, Height, SInv, WholeWords
<1>3. mSP' = mSP + 2 * (-k) /\ UNCHANGED mMemory
  BY <1>1, StackShape DEF POPALL
<1>4. SInv' /\ Height' = h - k
  BY <1>1, <1>3, MovesByWords DEF Kept, SInv, WholeWords
<1>5. Len(StackWords) = h
  BY <1>1, StackIsSequence DEF Formed
<1>6. StackWords' = SubSeq(StackWords, 1, Len(StackWords) - k)
  BY <1>1, <1>2, <1>3, <1>4, Dropped
<1>7. mRegisters' \in [Register -> Word]
  BY DEF Kept, IInv, TypeOK
<1>8. ASSUME NEW r \in Register, NB_REGISTERS - r <= k
      PROVE  mRegisters'[r] = StackWords[h - (NB_REGISTERS - r) + 1]
  <2>1. NB_REGISTERS - r \in 1 .. h
    BY <1>2, <1>8, AllCounts DEF Register, SInv
  <2>2. StackWords[h - (NB_REGISTERS - r) + 1] = WordAt(mSP - 2 * (NB_REGISTERS - r))
    BY <1>1, <2>1, FromTop
  <2> QED
    BY <1>1, <1>8, <2>2 DEF POPALL
<1>9. Abstract!PopAll
  BY <1>2, <1>5, <1>6, <1>7, <1>8
     DEF Abstract!PopAll, Abstract!RegisterId, Register
<1> QED
  BY <1>4, <1>9 DEF Refined, Abstract!Next

(* A store reaches the oldest word at most. *)
LEMMA StoreRefines ==
  ASSUME SInv, Kept, NEW address \in Word, Store(address)
  PROVE  Refined
<1>1. PICK h \in Nat : h = Height
  BY StackShape
<1>2. CASE StoreError(address) # {}
  BY <1>2, RegistersOnly DEF Store
<1>3. CASE h = 0
  <2>1. mSP = STACK_START
    BY <1>1, <1>3, StackShape, StackFacts
  <2>2. \A a \in Address : ~(STACK_START <= a /\ a < mSP)
    BY <2>1, StackFacts DEF Word
  <2> QED
    BY <2>2, RegistersOnly DEF Store
<1>4. CASE StoreError(address) = {} /\ h > 0
  <2>1. address \in Nat /\ address <= STACK_START
    BY <1>4, StackFacts, Widths DEF StoreError, Word
  <2>2. /\ mMemory' = [mMemory EXCEPT ![address] = Lo(RX), ![address + 1] = Hi(RX)]
        /\ mSP' = mSP + 2 * 0 /\ mSP' = mSP
        /\ UNCHANGED mRegisters
    BY <1>4, StackShape DEF Store
  <2>3. SInv' /\ Height' = h
    BY <1>1, <2>2, MovesByWords DEF Kept, SInv, WholeWords
  <2>4. /\ StackWords \in Seq(Word) /\ Len(StackWords) = h
        /\ \A i \in 1 .. h : StackWords[i] = WordAt(Slot(i))
    BY <1>1, StackIsSequence DEF Formed
  <2>5. /\ StackWords' \in Seq(Word) /\ Len(StackWords') = h
        /\ \A i \in 1 .. h : StackWords'[i] = WordAt(Slot(i))'
    BY <2>3, StillSequence DEF Formed
  <2>6. PICK v \in Word : v = StackWords'[1]
    <3>1. 1 \in 1 .. h
      BY <1>4
    <3> QED
      BY <2>5, <3>1, ElementOfSeq
  <2>7. /\ [StackWords EXCEPT ![1] = v] \in Seq(Word)
        /\ Len([StackWords EXCEPT ![1] = v]) = h
        /\ \A i \in 1 .. h : [StackWords EXCEPT ![1] = v][i] =
             IF i = 1 THEN v ELSE StackWords[i]
    <3>1. 1 \in 1 .. Len(StackWords)
      BY <1>4, <2>4
    <3> QED
      BY <2>4, <3>1, ExceptSeq
  <2>8. ASSUME NEW i \in 1 .. h, i # 1
        PROVE  StackWords'[i] = StackWords[i]
    <3>1. /\ Slot(i) \in Address /\ Slot(i) + 1 \in Address
          /\ Slot(i) \in Nat /\ STACK_START + 2 <= Slot(i)
      BY <1>1, <2>8, SlotFacts
    <3>2. /\ Slot(i) # address /\ Slot(i) # address + 1
          /\ Slot(i) + 1 # address /\ Slot(i) + 1 # address + 1
      BY <2>1, <3>1, StackFacts
    <3>3. WordAt(Slot(i))' = WordAt(Slot(i))
      BY <2>2, <3>1, <3>2 DEF WordAt, Slot, SInv, IInv, TypeOK
    <3> QED
      BY <2>4, <2>5, <3>3
  <2>9. ASSUME NEW i \in 1 .. h
        PROVE  StackWords'[i] = [StackWords EXCEPT ![1] = v][i]
    BY <2>6, <2>7, <2>8
  <2>10. StackWords' = [StackWords EXCEPT ![1] = v]
    BY <2>5, <2>7, <2>9, SeqEqual
  <2>11. StackWords # <<>>
    BY <1>4, <2>4
  <2>12. Abstract!Clobber
    BY <2>2, <2>10, <2>11 DEF Abstract!Clobber
  <2> QED
    BY <2>3, <2>12 DEF Refined, Abstract!Next
<1> QED
  BY <1>2, <1>3, <1>4

(* A program that is loaded ends below the stack. *)
LEMMA AcquireRefines ==
  ASSUME SInv, Kept, LoadsBelowStack, Acquire
  PROVE  Refined
<1>1. ASSUME NEW program \in Seq(Byte), Len(program) <= STACK_START,
             NEW a \in Address, STACK_START <= a
      PROVE  InitMemory(program)[a] = mMemory[a]
  <2>1. ~(a < Len(program))
    BY <1>1, StackFacts, Widths DEF Word
  <2> QED
    BY <2>1 DEF InitMemory
<1>2. ASSUME NEW program \in Programs, AcquireProgram(program)
      PROVE  Refined
  BY <1>1, <1>2, RegistersOnly, ProgramAssumption DEF AcquireProgram, LoadsBelowStack
<1>3. ASSUME NEW rom \in ROMs, AcquireROM(rom)
      PROVE  Refined
  BY <1>1, <1>3, RegistersOnly, RomAssumption DEF AcquireROM, LoadsBelowStack
<1> QED
  BY <1>2, <1>3 DEF Acquire

(* Every instruction but LDI SP. *)
LEMMA ExecuteRefines ==
  ASSUME SInv, NoStackLoad, Execute
  PROVE  Refined
<1>0. Kept /\ IInv /\ TypeOK
  BY RunStep DEF Run, SInv, IInv
<1> USE Fetched
<1>1. CASE PUSH \/ PUSHF
  <2>1. FlagValue(mFR) \in Word
    BY <1>0, FlagTypes, ByteIsWord DEF TypeOK
  <2> QED
    BY <1>0, <1>1, <2>1, PushRefines DEF PUSH, PUSHF
<1>2. CASE DirectCALL \/ IndirectCALL
  BY <1>0, <1>2, PushRefines DEF DirectCALL, IndirectCALL, Call
<1>3. CASE Cx
  <2>1. CASE CondHolds
    BY <1>0, <1>3, <2>1, PushRefines DEF Cx, Call
  <2>2. CASE ~CondHolds
    BY <1>0, <1>3, <2>2, RegistersOnly DEF Cx
  <2> QED
    BY <2>1, <2>2
<1>4. CASE POP
  BY <1>0, <1>4, PopRefines DEF POP, SetRegister
<1>5. CASE POPF \/ RET
  BY <1>0, <1>5, PopRefines DEF POPF, RET
<1>6. CASE PUSHALL \/ POPALL
  BY <1>0, <1>6, PushAllRefines, PopAllRefines
<1>7. CASE StoreStep
  BY <1>0, <1>7, StoreRefines DEF StoreStep, DirectSTM, IndirectSTM
<1>8. ~StackLDI
  BY <1>0 DEF NoStackLoad, StackLDI, InterpretOne, operation
<1>9. CASE Unknown \/ NOP \/ RND \/ MoveStep \/ JumpStep
  <2>1. UNCHANGED <<mMemory, mSP>>
    BY <1>9 DEF Unknown, NOP, RND, MoveStep, RegisterLDI, DirectLDM, IndirectLDM,
                Load, MOV, JumpStep, DirectJMP, IndirectJMP, JMC, Jx, JME
  <2> QED
    BY <1>0, <2>1, RegistersOnly
<1>10. CASE ArithmeticStep
  <2>1. UNCHANGED <<mMemory, mSP>>
    BY <1>10 DEF ArithmeticStep, ImmediateBinaryArithmetic,
                 InplaceBinaryArithmetic, BasicBinaryArithmetic,
                 DiscardBinaryArithmetic, DiscardImmediateBinaryArithmetic,
                 ImmediateUnaryArithmetic, InplaceUnaryArithmetic,
                 BasicUnaryArithmetic, NShift, RegisterShift, Compute, Discard,
                 Assign, Crash
  <2> QED
    BY <1>0, <2>1, RegistersOnly
<1> QED
  BY <1>1, <1>2, <1>3, <1>4, <1>5, <1>6, <1>7, <1>8, <1>9, <1>10
     DEF Execute, StackStep, CallStep

(* The bytes from STACK_START to the stack pointer are a bounded stack of     *)
(* words: PUSH, PUSHF and CALL put the last word there, POP, POPF and RET     *)
(* take the last one, PUSHALL and POPALL go as far as there is room or are    *)
(* words, and a store reaches no word but the oldest.                         *)
THEOREM StackIsWordStack ==
  ASSUME NoStackLoad, LoadsBelowStack
  PROVE  Spec => ImplementsStack
<1>1. Init => SInv /\ Abstract!Init
  <2> SUFFICES ASSUME Init PROVE SInv /\ Abstract!Init
    OBVIOUS
  <2>1. IInv /\ mSP = STACK_START
    BY InitInv DEF Init
  <2>2. (mSP - STACK_START) \div 2 = 0
    BY <2>1, StackFacts
  <2>3. SInv
    BY <2>1, <2>2, StackFacts DEF SInv, WholeWords, Height
  <2>4. StackWords = <<>>
    BY <2>2, <2>3, StackIsSequence DEF Formed, Height
  <2>5. mRegisters \in [0 .. NB_REGISTERS - 1 -> Word]
    BY <2>1 DEF IInv, TypeOK, Register
  <2> QED
    BY <2>3, <2>4, <2>5 DEF Abstract!Init, Abstract!RegisterId
<1>2. SInv /\ [Run]_vars => SInv' /\ [Abstract!Next]_<<StackWords, mRegisters>>
  <2> SUFFICES ASSUME SInv, [Run]_vars PROVE Refined
    BY DEF Refined
  <2>1. CASE Execute
    BY <2>1, ExecuteRefines
  <2>2. CASE Acquire
    <3>1. Kept
      BY <2>2, RunStep DEF Run, SInv
    <3> QED
      BY <2>2, <3>1, AcquireRefines
  <2>3. CASE UNCHANGED vars
    <3>1. Kept
      BY <2>3, StutterStep DEF SInv
    <3> QED
      BY <2>3, <3>1, RegistersOnly DEF vars
  <2> QED
    BY <2>1, <2>2, <2>3 DEF Run
<1> QED
  BY <1>1, <1>2, PTL DEF Spec, ImplementsStack, Abstract!Spec
============================================================================
