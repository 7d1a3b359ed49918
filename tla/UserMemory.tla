----------------------------- MODULE UserMemory -----------------------------
(***************************************************************************)
(* The allocator behind operator new and delete                            *)
(* (Tostitos/memory/userMemory.h, userMemory.cpp; the page is the          *)
(* MemoryPage of dataStructures/dataStructures.h).  Blocks are cut off the *)
(* first page one after the other, each behind a header that holds the     *)
(* size of header and block.  A freed block only has its validate flags    *)
(* taken down; nothing is ever used again.                                 *)
(*                                                                         *)
(* `blocks' records what was handed out; it is not in the code.            *)
(***************************************************************************)
EXTENDS Integers

CONSTANTS
  BYTES_PER_PAGE,  \* (131072)
  INT_SIZE,        \* bytes of a header (4)
  BYTE,            \* values of a byte (256)
  Sizes            \* sizes asked for

Cell == 0 .. BYTES_PER_PAGE - 1
Byte == 0 .. BYTE - 1

ASSUME PageAssumption == BYTES_PER_PAGE \in Nat
ASSUME HeaderAssumption == INT_SIZE \in Nat \ {0}
ASSUME ByteAssumption == BYTE \in Nat \ {0}
ASSUME SizesAssumption == Sizes \subseteq Nat

(* The powers the bytes of a header are cut off with. *)
ASSUME PowerAssumption ==
  BYTE^0 = 1 /\ \A i \in 0 .. INT_SIZE - 1 : BYTE^i \in Nat \ {0}

VARIABLES
  bytes, validate, mOffset,
  blocks,      \* [start : of the header, end : after the block, live]
  overrun      \* a request went past the page: anything may follow

vars == <<bytes, validate, mOffset, blocks, overrun>>

Block == [start : Nat, end : Nat, live : BOOLEAN]

TypeOK ==
  /\ bytes \in [Cell -> Byte]
  /\ validate \in [Cell -> BOOLEAN]
  /\ mOffset \in Nat
  /\ blocks \subseteq Block
  /\ overrun \in BOOLEAN

Init ==
  /\ bytes = [c \in Cell |-> 0]
  /\ validate = [c \in Cell |-> FALSE]
  /\ mOffset = 0
  /\ blocks = {}
  /\ overrun = FALSE

(* Mutant: the header with its highest byte first. *)
HeaderByteHighFirst(n, i) == (n \div BYTE^(INT_SIZE - 1 - i)) % BYTE

(* Byte i of the unsigned int n, the lowest one first. *)
HeaderByte(n, i) == (n \div BYTE^i) % BYTE

(* Mutant: the offset moves on by the block without its header. *)
requestMemoryHeaderForgotten(size) ==
  LET total == size + INT_SIZE
  IN  /\ ~overrun
      /\ mOffset + total <= BYTES_PER_PAGE
      /\ bytes' = [c \in Cell |->
           IF mOffset <= c /\ c < mOffset + INT_SIZE
           THEN HeaderByte(total, c - mOffset) ELSE bytes[c]]
      /\ validate' = [c \in Cell |->
           validate[c] \/ (mOffset <= c /\ c < mOffset + total)]
      /\ mOffset' = mOffset + size
      /\ blocks' = blocks \cup
           {[start |-> mOffset, end |-> mOffset + total, live |-> TRUE]}
      /\ UNCHANGED overrun

(* There is no test that the block fits the page. *)
requestMemory(size) ==
  LET total == size + INT_SIZE
  IN  /\ ~overrun
      /\ \/ /\ mOffset + total <= BYTES_PER_PAGE
            /\ bytes' = [c \in Cell |->
                 IF mOffset <= c /\ c < mOffset + INT_SIZE
                 THEN HeaderByte(total, c - mOffset) ELSE bytes[c]]
            /\ validate' = [c \in Cell |->
                 validate[c] \/ (mOffset <= c /\ c < mOffset + total)]
            /\ mOffset' = mOffset + total
            /\ blocks' = blocks \cup
                 {[start |-> mOffset, end |-> mOffset + total, live |-> TRUE]}
            /\ UNCHANGED overrun
         \/ /\ mOffset + total > BYTES_PER_PAGE
            /\ overrun' = TRUE
            /\ UNCHANGED <<bytes, validate, mOffset, blocks>>

(* Mutant: the flags go down from the block on, not from its header on. *)
invalidateMemoryAfterHeader(block) ==
  LET size == bytes[block.start]
      index == block.start + INT_SIZE
  IN  /\ ~overrun
      /\ block.live
      /\ validate' = [c \in Cell |->
           validate[c] /\ ~(index <= c /\ c < index + size)]
      /\ blocks' = (blocks \ {block}) \cup {[block EXCEPT !.live = FALSE]}
      /\ UNCHANGED <<bytes, mOffset, overrun>>

(* The size is read through an unsigned char pointer: its lowest byte only. *)
invalidateMemory(block) ==
  LET size == bytes[block.start]
  IN  /\ ~overrun
      /\ block.live
      /\ validate' = [c \in Cell |->
           validate[c] /\ ~(block.start <= c /\ c < block.start + size)]
      /\ blocks' = (blocks \ {block}) \cup {[block EXCEPT !.live = FALSE]}
      /\ UNCHANGED <<bytes, mOffset, overrun>>

(* The program writes to the block it was given. *)
Use(block) ==
  /\ ~overrun
  /\ block.live
  /\ \E c \in Cell, v \in Byte :
       /\ block.start + INT_SIZE <= c /\ c < block.end
       /\ bytes' = [bytes EXCEPT ![c] = v]
  /\ UNCHANGED <<validate, mOffset, blocks, overrun>>

Next ==
  \/ \E size \in Sizes : requestMemory(size)
  \/ \E block \in blocks : invalidateMemory(block) \/ Use(block)
Spec == Init /\ [][Next]_vars

----------------------------------------------------------------------------
(* Properties. *)

(* Two blocks never share a byte, headers included.                           *)
BlocksApart ==
  \A b, d \in blocks : b = d \/ b.end <= d.start \/ d.end <= b.start

(* Freeing a block never takes down a flag of another one that is in use,     *)
(* although the number of flags comes out of a header that lies between the   *)
(* users' data.                                                               *)
LiveBlocksValid ==
  \A b \in blocks : b.live => \A c \in Cell : b.start <= c /\ c < b.end => validate[c]

(* A freed block is down entirely exactly when header and block together are  *)
(* smaller than the values of a byte; of a larger one only the first          *)
(* (size % 256) flags go down.                                                *)
FreedBlocksInvalid ==
  \A b \in blocks : ~b.live =>
    \A c \in Cell : b.start <= c /\ c < b.end =>
      (validate[c] <=> c - b.start >= (b.end - b.start) % BYTE)
============================================================================
