----------------------------- MODULE WordStack -----------------------------
(***************************************************************************)
(* What the stack instructions of MinChip16 promise a program: a bounded   *)
(* last-in first-out stack of words next to a register file.  There are no *)
(* bytes, addresses or pointers here; Interpreter implements this with a   *)
(* stack pointer into byte-addressed memory.                               *)
(***************************************************************************)
EXTENDS Integers, Sequences

CONSTANTS
  Word,      \* the values a register or a stack slot holds
  Depth,     \* words that fit on the stack
  Registers  \* number of registers, numbered from 0

VARIABLES stack, regs

RegisterId == 0 .. Registers - 1
AtMost(n, limit) == IF n <= limit THEN n ELSE limit

Init ==
  /\ stack = <<>>
  /\ regs \in [RegisterId -> Word]

(* A word (a register, the flags, a return address) is saved. *)
Push ==
  /\ Len(stack) < Depth
  /\ \E v \in Word : stack' = Append(stack, v)
  /\ UNCHANGED regs

(* The last word saved goes to a register, to the flags or to the PC. *)
Pop ==
  /\ stack # <<>>
  /\ stack' = SubSeq(stack, 1, Len(stack) - 1)
  /\ \/ UNCHANGED regs
     \/ \E r \in RegisterId : regs' = [regs EXCEPT ![r] = stack[Len(stack)]]

(* All registers are saved, lowest first, as far as there is room. *)
PushAll ==
  LET k == AtMost(Registers, Depth - Len(stack))
  IN  /\ stack' = stack \o [i \in 1 .. k |-> regs[i - 1]]
      /\ UNCHANGED regs

(* All registers are restored, highest first, as far as there are words;     *)
(* what the others become is not promised.                                   *)
PopAll ==
  LET k == AtMost(Registers, Len(stack))
  IN  /\ stack' = SubSeq(stack, 1, Len(stack) - k)
      /\ regs' \in [RegisterId -> Word]
      /\ \A r \in RegisterId : Registers - r <= k =>
           regs'[r] = stack[Len(stack) - (Registers - r) + 1]

(* A store next to the stack's start may overwrite the oldest word. *)
Clobber ==
  /\ stack # <<>>
  /\ \E v \in Word : stack' = [stack EXCEPT ![1] = v]
  /\ UNCHANGED regs

(* Everything else works on registers only. *)
Compute ==
  /\ regs' \in [RegisterId -> Word]
  /\ UNCHANGED stack

Next == Push \/ Pop \/ PushAll \/ PopAll \/ Clobber \/ Compute

Spec == Init /\ [][Next]_<<stack, regs>>
============================================================================
