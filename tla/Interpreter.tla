---------------------------- MODULE Interpreter ----------------------------
(***************************************************************************)
(* The MinChip16 interpreter (Tostitos/machine/interpreter.h,              *)
(* interpreter.cpp).  A caller loads a program (AcquireProgram,            *)
(* AcquireROM), calls InterpretOne any number of times, and may call       *)
(* Reset.  InterpretOne fetches four bytes, looks the opcode up in mOps    *)
(* and runs the handler: one action per handler, the handlers of one       *)
(* arithmetic helper sharing the helper's action.                          *)
(*                                                                         *)
(* mErrorCode is what the last InterpretOne returned.  Handlers that do    *)
(* not assign it return the previous instruction's code again, and nothing *)
(* stops the caller from going on after an error.                          *)
(***************************************************************************)
EXTENDS CPU, Sequences

CONSTANTS
  mOps,        \* opcode |-> [h : handler, alu : operation]; "Unknown" if absent
  Conditions,  \* condition nibble |-> condition name ("RES" if reserved)
  INT_BITS,    \* width of int, in which the shifts are computed (32)
  Programs,    \* programs given to AcquireProgram
  ROMs,        \* ROM files, [start : Word, data : Seq(Byte)]
  MaxCalls     \* bound: calls of the caller other than InterpretOne

BinaryAlu == {"ADD", "SUB", "AND", "OR", "XOR", "MUL", "DIV", "MOD"}
UnaryAlu == {"NOT", "NEG"}
ShiftAlu == {"SHL", "SHR", "SAR"}
BinaryForms == {"ImmediateBinary", "InplaceBinary", "BasicBinary",
                "DiscardBinary", "DiscardImmediateBinary"}
UnaryForms == {"ImmediateUnary", "InplaceUnary", "BasicUnary"}
ShiftForms == {"NShift", "RegisterShift"}
OtherHandlers ==
  {"Unknown", "NOP", "RND", "DirectJMP", "JMC", "Jx", "JME", "DirectCALL",
   "RET", "IndirectJMP", "Cx", "IndirectCALL", "RegisterLDI", "StackLDI",
   "DirectLDM", "IndirectLDM", "MOV", "DirectSTM", "IndirectSTM", "PUSH",
   "POP", "PUSHALL", "POPALL", "PUSHF", "POPF"}
Operation ==
  [h : BinaryForms, alu : BinaryAlu] \cup [h : UnaryForms, alu : UnaryAlu]
    \cup [h : ShiftForms, alu : ShiftAlu] \cup [h : OtherHandlers, alu : {""}]

ASSUME OpsAssumption == mOps \in [Byte -> Operation]
ASSUME IntAssumption == INT_BITS \in Nat
(* An arithmetical fact, stated because the provers do not know powers.       *)
ASSUME PowerAssumption ==
  \A n \in 0 .. INT_BITS - 1 : 2^n \in Nat /\ 2^n > 0
ASSUME CallsAssumption == MaxCalls \in Nat
ASSUME ProgramAssumption == Programs \subseteq Seq(Byte)
ASSUME RomAssumption ==
  \A rom \in ROMs : rom.start \in Word /\ rom.data \in Seq(Byte)

VARIABLES
  mRegisters, mMemory, mFR, mPC, mSP,
  mErrorCode,
  calls,        \* calls of AcquireProgram, AcquireROM and Reset so far
  status        \* "running", or "crashed" once a division by zero trapped

vars == <<mRegisters, mMemory, mFR, mPC, mSP, mErrorCode, calls, status>>

TypeOK ==
  /\ mRegisters \in [Register -> Word]
  /\ mMemory \in [Address -> Byte]
  /\ mFR \in SUBSET FlagBits
  /\ mPC \in Word
  /\ mSP \in Word
  /\ mErrorCode \in SUBSET ErrorBits
  /\ calls \in 0 .. MaxCalls
  /\ status \in {"running", "crashed"}

Init ==
  /\ mRegisters = [r \in Register |-> 0]
  /\ mMemory \in InitialMemories
  /\ mFR = {}
  /\ mPC = 0
  /\ mSP = STACK_START
  /\ mErrorCode = {}
  /\ calls = 0
  /\ status = "running"

----------------------------------------------------------------------------
(* Loading and resetting. *)

(* An empty or too long program is refused and changes nothing. *)
Loadable(program) == 0 < Len(program) /\ Len(program) <= MEMORY_SIZE
InitMemory(program) ==
  [a \in Address |-> IF a < Len(program) THEN program[a + 1] ELSE mMemory[a]]

AcquireProgram(program) ==
  /\ status = "running"
  /\ calls < MaxCalls
  /\ Loadable(program)
  /\ calls' = calls + 1
  /\ mMemory' = InitMemory(program)
  /\ UNCHANGED <<mRegisters, mFR, mPC, mSP, mErrorCode, status>>

(* Only the byte at 0x0A, the low one, of the start address is used, and the *)
(* verdict of InitMemory is dropped.                                         *)
AcquireROM(rom) ==
  /\ status = "running"
  /\ calls < MaxCalls
  /\ calls' = calls + 1
  /\ mPC' = IF PCError(Lo(rom.start)) = {} THEN Lo(rom.start) ELSE mPC
  /\ mMemory' = IF Loadable(rom.data) THEN InitMemory(rom.data) ELSE mMemory
  /\ UNCHANGED <<mRegisters, mFR, mSP, mErrorCode, status>>

Reset ==
  /\ status = "running"
  /\ calls < MaxCalls
  /\ calls' = calls + 1
  /\ mFR' = {}
  /\ mSP' = 0
  /\ mPC' = 0
  /\ UNCHANGED <<mRegisters, mMemory, mErrorCode, status>>

----------------------------------------------------------------------------
(* Fetching and dispatching. *)
inst == FetchInstruction(mMemory, mPC)
operation == mOps[inst.opcode]
NextPC == (mPC + 4) % WORD
RX == mRegisters[inst.x]
RY == mRegisters[inst.y]

InterpretOne(handler) == status = "running" /\ operation.h = handler

FallThrough == mPC' = NextPC
SetProgramCounter(value) ==
  mPC' = IF PCError(value) = {} THEN value ELSE NextPC
SetRegister(r, value) == mRegisters' = [mRegisters EXCEPT ![r] = value]

Unknown ==
  /\ InterpretOne("Unknown")
  /\ mErrorCode' = {UNKNOWN_OP_ERROR}
  /\ FallThrough
  /\ UNCHANGED <<mRegisters, mMemory, mFR, mSP, calls, status>>

NOP ==
  /\ InterpretOne("NOP")
  /\ FallThrough
  /\ UNCHANGED <<mRegisters, mMemory, mFR, mSP, mErrorCode, calls, status>>

(* Draws until the number is at most the immediate. *)
RND ==
  /\ InterpretOne("RND")
  /\ \E randVal \in 0 .. inst.imm : SetRegister(inst.x, randVal)
  /\ mErrorCode' = {}
  /\ FallThrough
  /\ UNCHANGED <<mMemory, mFR, mSP, calls, status>>

----------------------------------------------------------------------------
(* Stack. *)

(* Mutant: the limit is compared with the pointer before the push. *)
PushLate(value, err) ==
  \/ /\ mSP <= STACK_END
     /\ mMemory' = [mMemory EXCEPT ![mSP] = Lo(value), ![mSP + 1] = Hi(value)]
     /\ mSP' = mSP + 2
     /\ mErrorCode' = err
  \/ /\ mSP > STACK_END
     /\ mErrorCode' = err \cup {STACK_OVERFLOW}
     /\ UNCHANGED <<mMemory, mSP>>

(* Push one word; err is the error code the handler adds to Push's own. *)
Push(value, err) ==
  \/ /\ mSP + 2 <= STACK_END
     /\ mMemory' = [mMemory EXCEPT ![mSP] = Lo(value), ![mSP + 1] = Hi(value)]
     /\ mSP' = mSP + 2
     /\ mErrorCode' = err
  \/ /\ mSP + 2 > STACK_END
     /\ mErrorCode' = err \cup {STACK_OVERFLOW}
     /\ UNCHANGED <<mMemory, mSP>>

(* Pop: the words it may deliver (an uninitialised local when it fails), the *)
(* error it returns and where it leaves the stack pointer.                   *)
CanPop == mSP - 2 >= STACK_START
WordAt(address) == WordOf(mMemory[address], mMemory[address + 1])
PopValues == IF CanPop THEN {WordAt(mSP - 2)} ELSE Junk
PopError == IF CanPop THEN {} ELSE {STACK_UNDERFLOW}
(* Mutant: the pointer moves before the check. *)
PopSPUnchecked == mSP - 2
PopSP == IF CanPop THEN mSP - 2 ELSE mSP

PUSH ==
  /\ InterpretOne("PUSH")
  /\ Push(RX, {})
  /\ FallThrough
  /\ UNCHANGED <<mRegisters, mFR, calls, status>>

POP ==
  /\ InterpretOne("POP")
  /\ \E val \in PopValues : SetRegister(inst.x, val)
  /\ mSP' = PopSP
  /\ mErrorCode' = PopError
  /\ FallThrough
  /\ UNCHANGED <<mMemory, mFR, calls, status>>

(* PUSHALL and POPALL loop over the registers; once one Push or Pop fails the *)
(* stack pointer stays and the remaining ones fail as well.  The number of    *)
(* words that get through is Pushes, Pops.                                    *)
Least(a, b) == IF a <= b THEN a ELSE b
Pushes == Least(NB_REGISTERS, (STACK_END - mSP) \div 2)
Pops ==
  IF mSP < STACK_START THEN 0 ELSE Least(NB_REGISTERS, (mSP - STACK_START) \div 2)

PUSHALL ==
  /\ InterpretOne("PUSHALL")
  /\ mMemory' = [a \in Address |->
       LET k == a - mSP
           r == mRegisters[k \div 2]
       IN  IF 0 <= k /\ k < 2 * Pushes
           THEN IF k % 2 = 0 THEN Lo(r) ELSE Hi(r)
           ELSE mMemory[a]]
  /\ mSP' = mSP + 2 * Pushes
  /\ mErrorCode' = IF Pushes = NB_REGISTERS
                   THEN mErrorCode ELSE mErrorCode \cup {STACK_OVERFLOW}
  /\ FallThrough
  /\ UNCHANGED <<mRegisters, mFR, calls, status>>

(* The local the words are popped into is shared by the iterations: after the *)
(* first failure every remaining register gets the last word popped, or an    *)
(* uninitialised one if there was none.                                       *)
POPALL ==
  /\ InterpretOne("POPALL")
  /\ \E val \in IF Pops = 0 THEN Junk ELSE {WordAt(mSP - 2 * Pops)} :
       mRegisters' = [r \in Register |->
         IF NB_REGISTERS - r <= Pops
         THEN WordAt(mSP - 2 * (NB_REGISTERS - r)) ELSE val]
  /\ mSP' = mSP - 2 * Pops
  /\ mErrorCode' = IF Pops = NB_REGISTERS
                   THEN mErrorCode ELSE mErrorCode \cup {STACK_UNDERFLOW}
  /\ FallThrough
  /\ UNCHANGED <<mMemory, mFR, calls, status>>

PUSHF ==
  /\ InterpretOne("PUSHF")
  /\ Push(FlagValue(mFR), {})
  /\ FallThrough
  /\ UNCHANGED <<mRegisters, mFR, calls, status>>

POPF ==
  /\ InterpretOne("POPF")
  /\ \E val \in PopValues : mFR' = FlagsOf(val)
  /\ mSP' = PopSP
  /\ mErrorCode' = PopError
  /\ FallThrough
  /\ UNCHANGED <<mRegisters, mMemory, calls, status>>

----------------------------------------------------------------------------
(* Jumps and calls. *)

(* fr & F is fr \cap {F}: the masks of two flags are equal only when both    *)
(* flags are clear.                                                          *)
Masked(fr, flag) == fr \cap {flag}
InterpretConditions(cond, fr) ==
  LET c == UNSIGNED_CARRY_FLAG \in fr
      z == ZERO_FLAG \in fr
      o == SIGNED_OVERFLOW_FLAG \in fr
      n == NEGATIVE_FLAG \in fr
      same == Masked(fr, SIGNED_OVERFLOW_FLAG) = Masked(fr, NEGATIVE_FLAG)
  IN  \/ cond = "Z"  /\ z
      \/ cond = "NZ" /\ ~z
      \/ cond = "N"  /\ n
      \/ cond = "NN" /\ ~n
      \/ cond = "P"  /\ ~z /\ ~n
      \/ cond = "O"  /\ o
      \/ cond = "NO" /\ ~o
      \/ cond = "A"  /\ ~z /\ ~o
      \/ cond = "AE" /\ ~c
      \/ cond = "B"  /\ c
      \/ cond = "BE" /\ (z \/ c)
      \/ cond = "G"  /\ z /\ same
      \/ cond = "GE" /\ same
      \/ cond = "L"  /\ ~same
      \/ cond = "LE" /\ (z \/ ~same)
CondHolds == InterpretConditions(Conditions[inst.x], mFR)

DirectJMP ==
  /\ InterpretOne("DirectJMP")
  /\ SetProgramCounter(inst.imm)
  /\ mErrorCode' = PCError(inst.imm)
  /\ UNCHANGED <<mRegisters, mMemory, mFR, mSP, calls, status>>

IndirectJMP ==
  /\ InterpretOne("IndirectJMP")
  /\ SetProgramCounter(RX)
  /\ mErrorCode' = PCError(RX)
  /\ UNCHANGED <<mRegisters, mMemory, mFR, mSP, calls, status>>

JMC ==
  /\ InterpretOne("JMC")
  /\ \/ /\ UNSIGNED_CARRY_FLAG \in mFR
        /\ SetProgramCounter(inst.imm)
        /\ mErrorCode' = PCError(inst.imm)
     \/ /\ UNSIGNED_CARRY_FLAG \notin mFR
        /\ FallThrough
        /\ UNCHANGED mErrorCode
  /\ UNCHANGED <<mRegisters, mMemory, mFR, mSP, calls, status>>

(* A refused target is not reported. *)
Jx ==
  /\ InterpretOne("Jx")
  /\ \/ CondHolds /\ SetProgramCounter(inst.imm)
     \/ ~CondHolds /\ FallThrough
  /\ UNCHANGED <<mRegisters, mMemory, mFR, mSP, mErrorCode, calls, status>>

JME ==
  /\ InterpretOne("JME")
  /\ \/ /\ RX = RY
        /\ SetProgramCounter(inst.imm)
        /\ mErrorCode' = PCError(inst.imm)
     \/ /\ RX # RY
        /\ FallThrough
        /\ UNCHANGED mErrorCode
  /\ UNCHANGED <<mRegisters, mMemory, mFR, mSP, calls, status>>

(* The jump is made even when the return address did not fit. *)
Call(target) ==
  /\ Push(NextPC, PCError(target))
  /\ SetProgramCounter(target)
  /\ UNCHANGED <<mRegisters, mFR, calls, status>>

DirectCALL == InterpretOne("DirectCALL") /\ Call(inst.imm)

IndirectCALL == InterpretOne("IndirectCALL") /\ Call(RX)

Cx ==
  /\ InterpretOne("Cx")
  /\ \/ CondHolds /\ Call(inst.imm)
     \/ /\ ~CondHolds
        /\ FallThrough
        /\ UNCHANGED <<mRegisters, mMemory, mFR, mSP, mErrorCode, calls, status>>

(* Mutant: the second code replaces the first, as in IndirectLDM. *)
RETOverwritesCode ==
  /\ InterpretOne("RET")
  /\ \E val \in PopValues : SetProgramCounter(val) /\ mErrorCode' = PCError(val)
  /\ mSP' = PopSP
  /\ UNCHANGED <<mRegisters, mMemory, mFR, calls, status>>

RET ==
  /\ InterpretOne("RET")
  /\ \E val \in PopValues :
       /\ SetProgramCounter(val)
       /\ mErrorCode' = PopError \cup PCError(val)
  /\ mSP' = PopSP
  /\ UNCHANGED <<mRegisters, mMemory, mFR, calls, status>>

----------------------------------------------------------------------------
(* Loads, moves and stores. *)
RegisterLDI ==
  /\ InterpretOne("RegisterLDI")
  /\ SetRegister(inst.x, inst.imm)
  /\ mErrorCode' = {}
  /\ FallThrough
  /\ UNCHANGED <<mMemory, mFR, mSP, calls, status>>

StackLDI ==
  /\ InterpretOne("StackLDI")
  /\ mSP' = IF SPError(inst.imm) = {} THEN inst.imm ELSE mSP
  /\ mErrorCode' = SPError(inst.imm)
  /\ FallThrough
  /\ UNCHANGED <<mRegisters, mMemory, mFR, calls, status>>

(* A refused address leaves an uninitialised local to go to the register. *)
Load(address) ==
  /\ \E val \in IF LoadError(address) = {}
                THEN LoadValues(mMemory, address) ELSE Junk :
       SetRegister(inst.x, val)
  /\ FallThrough
  /\ UNCHANGED <<mMemory, mFR, mSP, calls, status>>

DirectLDM ==
  /\ InterpretOne("DirectLDM")
  /\ Load(inst.imm)
  /\ mErrorCode' = LoadError(inst.imm)

(* The code of SetRegister replaces that of Load. *)
IndirectLDM ==
  /\ InterpretOne("IndirectLDM")
  /\ Load(RY)
  /\ mErrorCode' = {}

MOV ==
  /\ InterpretOne("MOV")
  /\ SetRegister(inst.x, RY)
  /\ mErrorCode' = {}
  /\ FallThrough
  /\ UNCHANGED <<mMemory, mFR, mSP, calls, status>>

Store(address) ==
  /\ mMemory' = IF StoreError(address) = {}
                THEN [mMemory EXCEPT ![address] = Lo(RX), ![address + 1] = Hi(RX)]
                ELSE mMemory
  /\ mErrorCode' = StoreError(address)
  /\ FallThrough
  /\ UNCHANGED <<mRegisters, mFR, mSP, calls, status>>

DirectSTM == InterpretOne("DirectSTM") /\ Store(inst.imm)

IndirectSTM == InterpretOne("IndirectSTM") /\ Store(RY)

----------------------------------------------------------------------------
(* Arithmetic. *)
BinaryResult(alu, op1, op2) ==
  CASE alu = "ADD" -> (op1 + op2) % WORD
    [] alu = "SUB" -> (op1 - op2) % WORD
    [] alu = "MUL" -> (op1 * op2) % WORD
    [] alu = "DIV" -> op1 \div op2
    [] alu = "MOD" -> op1 % op2
    [] alu = "AND" -> BitAnd(op1, op2)
    [] alu = "OR"  -> BitOr(op1, op2)
    [] alu = "XOR" -> BitXor(op1, op2)

CarryOverflow(alu, fr, op1, op2) ==
  CASE alu = "ADD" -> SetCarryOverflowFlagAdd(fr, op1, op2)
    [] alu = "SUB" -> SetCarryOverflowFlagSub(fr, op1, op2)
    [] alu = "MUL" -> SetCarryOverflowFlagMul(fr, op1, op2)
    [] alu = "DIV" -> SetCarryOverflowFlagDiv(fr, op1, op2)
    [] OTHER -> fr

UnaryResult(alu, op) == IF alu = "NOT" THEN BitNot(op) ELSE (WORD - op) % WORD

Traps(alu, op2) == alu \in {"DIV", "MOD"} /\ op2 = 0
Crash ==
  /\ status' = "crashed"
  /\ UNCHANGED <<mRegisters, mMemory, mFR, mPC, mSP, mErrorCode, calls>>

(* Flags from the operands, the result to a register, flags from the result. *)
Compute(op1, op2, target) ==
  LET alu == operation.alu
      result == BinaryResult(alu, op1, op2)
  IN  \/ Traps(alu, op2) /\ Crash
      \/ /\ ~Traps(alu, op2)
         /\ mFR' = SetSignZeroFlag(CarryOverflow(alu, mFR, op1, op2), result)
         /\ SetRegister(target, result)
         /\ mErrorCode' = {}
         /\ FallThrough
         /\ UNCHANGED <<mMemory, mSP, calls, status>>

(* CMP and TST: only the flags; the error code is left as it was. *)
Discard(op1, op2) ==
  LET alu == operation.alu
      result == BinaryResult(alu, op1, op2)
  IN  \/ Traps(alu, op2) /\ Crash
      \/ /\ ~Traps(alu, op2)
         /\ mFR' = SetSignZeroFlag(CarryOverflow(alu, mFR, op1, op2), result)
         /\ FallThrough
         /\ UNCHANGED <<mRegisters, mMemory, mSP, mErrorCode, calls, status>>

(* The result of a unary operation or of a shift, with its flags. *)
Assign(result) ==
  /\ SetRegister(inst.x, result)
  /\ mFR' = SetSignZeroFlag(mFR, result)
  /\ mErrorCode' = {}
  /\ FallThrough
  /\ UNCHANGED <<mMemory, mSP, calls, status>>

ImmediateBinaryArithmetic ==
  InterpretOne("ImmediateBinary") /\ Compute(RX, inst.imm, inst.x)
InplaceBinaryArithmetic ==
  InterpretOne("InplaceBinary") /\ Compute(RX, RY, inst.x)
BasicBinaryArithmetic ==
  InterpretOne("BasicBinary") /\ Compute(RX, RY, inst.z)
DiscardBinaryArithmetic ==
  InterpretOne("DiscardBinary") /\ Discard(RX, RY)
DiscardImmediateBinaryArithmetic ==
  InterpretOne("DiscardImmediateBinary") /\ Discard(RX, inst.imm)
ImmediateUnaryArithmetic ==
  InterpretOne("ImmediateUnary") /\ Assign(UnaryResult(operation.alu, inst.imm))
InplaceUnaryArithmetic ==
  InterpretOne("InplaceUnary") /\ Assign(UnaryResult(operation.alu, RX))
BasicUnaryArithmetic ==
  InterpretOne("BasicUnary") /\ Assign(UnaryResult(operation.alu, RY))

(* The shifts are computed in an int and cut down to a word; shifting by the *)
(* width of int or more is undefined.                                        *)
Signed(w) == IF Negative(w) THEN w - WORD ELSE w
ShiftResults(alu, lhs, rhs) ==
  IF rhs >= INT_BITS THEN Word
  ELSE {(CASE alu = "SHL" -> lhs * 2^rhs
           [] alu = "SHR" -> lhs \div 2^rhs
           [] alu = "SAR" -> Signed(lhs) \div 2^rhs) % WORD}

NShift ==
  /\ InterpretOne("NShift")
  /\ \E result \in ShiftResults(operation.alu, RX, inst.z) : Assign(result)
RegisterShift ==
  /\ InterpretOne("RegisterShift")
  /\ \E result \in ShiftResults(operation.alu, RX, RY) : Assign(result)

----------------------------------------------------------------------------
StackStep == PUSH \/ POP \/ PUSHALL \/ POPALL \/ PUSHF \/ POPF
JumpStep == DirectJMP \/ IndirectJMP \/ JMC \/ Jx \/ JME
CallStep == DirectCALL \/ IndirectCALL \/ Cx \/ RET
MoveStep == RegisterLDI \/ DirectLDM \/ IndirectLDM \/ MOV
StoreStep == DirectSTM \/ IndirectSTM
ArithmeticStep ==
  \/ ImmediateBinaryArithmetic \/ InplaceBinaryArithmetic
  \/ BasicBinaryArithmetic \/ DiscardBinaryArithmetic
  \/ DiscardImmediateBinaryArithmetic
  \/ ImmediateUnaryArithmetic \/ InplaceUnaryArithmetic \/ BasicUnaryArithmetic
  \/ NShift \/ RegisterShift

Execute ==
  \/ Unknown \/ NOP \/ RND
  \/ StackStep \/ JumpStep \/ CallStep
  \/ StackLDI \/ MoveStep \/ StoreStep \/ ArithmeticStep

Acquire ==
  \/ \E program \in Programs : AcquireProgram(program)
  \/ \E rom \in ROMs : AcquireROM(rom)

(* A caller that loads programs and runs them... *)
Run == Acquire \/ Execute
Spec == Init /\ [][Run]_vars

(* ...and one that also resets the machine. *)
Next == Run \/ Reset
ResetSpec == Init /\ [][Next]_vars

----------------------------------------------------------------------------
(* Properties. *)

(* Only a reset takes the stack pointer out of the stack: whatever a program  *)
(* does, SetStackPointer, Push and Pop (and the loops of PUSHALL and POPALL)  *)
(* keep it between the start and the end of the stack.                        *)
StackPointerInStack == STACK_START <= mSP /\ mSP <= STACK_END
StackPointerKept ==
  [][(Run /\ StackPointerInStack) => StackPointerInStack']_vars

(* No instruction writes where the IO ports are: Store stops at STACK_START,  *)
(* Push at STACK_END, whatever odd value LDI gave the stack pointer.          *)
IOPortsUntouched ==
  \A a \in Address : a >= STACK_END => mMemory'[a] = mMemory[a]
IOPortsProtected == [][Execute => IOPortsUntouched]_vars

(* A word that is on the stack before and after an instruction is the same    *)
(* before and after.  The oldest one is excepted: Store lets the addresses    *)
(* STACK_START - 1 and STACK_START through and each of them reaches into it.  *)
SavedBytesKept ==
  \A a \in Address :
    (STACK_START + 2 <= a /\ a < mSP /\ a < mSP') => mMemory'[a] = mMemory[a]
SavedWordsProtected == [][Execute => SavedBytesKept]_vars

(* A stack or call instruction that leaves the error code clear has moved all *)
(* of its words: PUSHALL and POPALL, which may get stuck half way, and CALL,  *)
(* which goes on after a failed push, never pass for a success.               *)
WordsMoved ==
  CASE operation.h \in {"PUSH", "PUSHF", "DirectCALL", "IndirectCALL"} -> 1
    [] operation.h \in {"POP", "POPF", "RET"} -> -1
    [] operation.h = "PUSHALL" -> NB_REGISTERS
    [] operation.h = "POPALL" -> -NB_REGISTERS
    [] OTHER -> 0
SuccessIsComplete ==
  [][((StackStep \/ CallStep) /\ mErrorCode' = {} /\ operation.h # "Cx")
       => mSP' = mSP + 2 * WordsMoved]_vars

(* The carry flag after ADD, SUB, MUL and DIV tells that the result is not    *)
(* the arithmetic one: the sum or product does not fit a word, the difference *)
(* is negative, the quotient leaves a remainder.                              *)
Exact(alu, op1, op2) ==
  CASE alu = "ADD" -> op1 + op2 \in Word
    [] alu = "SUB" -> op1 - op2 \in Word
    [] alu = "MUL" -> op1 * op2 \in Word
    [] alu = "DIV" -> \E q \in Word : q * op2 = op1
SecondOperand ==
  IF operation.h \in {"ImmediateBinary", "DiscardImmediateBinary"}
  THEN inst.imm ELSE RY
CarryMeansInexact ==
  [][(ArithmeticStep /\ status' = "running"
        /\ operation.alu \in {"ADD", "SUB", "MUL", "DIV"})
       => (UNSIGNED_CARRY_FLAG \in mFR'
             <=> ~Exact(operation.alu, RX, SecondOperand))]_vars

(* The words from STACK_START to the stack pointer, as a sequence, implement  *)
(* the abstract stack: byte order, pointer arithmetic, limits and the partial *)
(* work of PUSHALL and POPALL included.                                       *)
StackWords ==
  [i \in 1 .. (mSP - STACK_START) \div 2 |-> WordAt(STACK_START + 2 * (i - 1))]
Abstract ==
  INSTANCE WordStack WITH
    stack <- StackWords, regs <- mRegisters,
    Depth <- (STACK_END - STACK_START) \div 2, Registers <- NB_REGISTERS
ImplementsStack == Abstract!Spec
============================================================================
