-------------------------- MODULE UserMemoryProofs --------------------------
(* Proofs about the allocator, for every page, header and byte size.         *)
EXTENDS UserMemory, TLAPS

(* Every block lies behind the allocation offset and inside the page. *)
BlocksInPage ==
  \A b \in blocks : /\ b.start + INT_SIZE <= b.end
                    /\ b.end <= mOffset
                    /\ b.end <= BYTES_PER_PAGE

(* The byte that invalidateMemory reads is what requestMemory left there. *)
HeadersIntact ==
  \A b \in blocks : bytes[b.start] = (b.end - b.start) % BYTE

IInv == /\ TypeOK
        /\ BlocksInPage
        /\ BlocksApart
        /\ HeadersIntact
        /\ LiveBlocksValid
        /\ FreedBlocksInvalid

(* A remainder is a byte, and no larger than the number. *)
LEMMA Remainder == \A n \in Nat : n % BYTE \in Byte /\ n % BYTE <= n
  <1> TAKE n \in Nat
  <1>1. BYTE \in Nat /\ BYTE > 0
    BY ByteAssumption
  <1>2. n % BYTE \in 0 .. BYTE - 1
    BY <1>1, SMT
  <1>3. n = BYTE * (n \div BYTE) + (n % BYTE) /\ n \div BYTE \in Nat
    BY <1>1, SMT
  <1>4. BYTE * (n \div BYTE) >= 0
    BY <1>1, <1>3, SMT
  <1>5. n % BYTE <= n
    <2>1. \A q, r \in Nat : q >= 0 => r <= q + r
      OBVIOUS
    <2>2. BYTE * (n \div BYTE) \in Nat /\ n % BYTE \in Nat
      BY <1>1, <1>2, <1>3
    <2> QED BY <2>1, <2>2, <1>3, <1>4
  <1> QED
    BY <1>2, <1>5 DEF Byte

(* Each byte of a header is a byte; the first is the remainder. *)
LEMMA HeaderBytes ==
  \A n \in Nat : /\ \A i \in 0 .. INT_SIZE - 1 : HeaderByte(n, i) \in Byte
                 /\ HeaderByte(n, 0) = n % BYTE
  <1> TAKE n \in Nat
  <1>1. ASSUME NEW i \in 0 .. INT_SIZE - 1 PROVE HeaderByte(n, i) \in Byte
    <2>1. n \div (BYTE^i) \in Nat
      <3>1. BYTE^i \in Nat \ {0}
        BY PowerAssumption
      <3>2. \A p \in Nat \ {0} : n \div p \in Nat
        BY SMT
      <3> QED BY <3>1, <3>2
    <2> QED
      BY <2>1, Remainder DEF HeaderByte
  <1>2. n \div 1 = n
    BY SMT
  <1> QED
    BY <1>1, <1>2, PowerAssumption DEF HeaderByte

(* The initial page has no block. *)
LEMMA InitInv == Init => IInv
  <1> HAVE Init
  <1>1. 0 \in Byte
    BY ByteAssumption DEF Byte
  <1>2. TypeOK
    BY <1>1 DEF Init, TypeOK
  <1> QED
    BY <1>2 DEF Init, IInv, BlocksInPage, BlocksApart, HeadersIntact,
      LiveBlocksValid, FreedBlocksInvalid

(* A new block lies behind all others and touches none of their flags. *)
LEMMA RequestInv ==
  ASSUME IInv, NEW size \in Sizes, requestMemory(size) PROVE IInv'
  <1> DEFINE total == size + INT_SIZE
             block == [start |-> mOffset, end |-> mOffset + total, live |-> TRUE]
  <1>0. size \in Nat /\ INT_SIZE \in Nat /\ INT_SIZE > 0 /\ BYTES_PER_PAGE \in Nat
    BY SizesAssumption, HeaderAssumption, PageAssumption
  <1>1. CASE mOffset + total > BYTES_PER_PAGE
    <2>1. UNCHANGED <<bytes, validate, mOffset, blocks>> /\ overrun' = TRUE
      BY <1>1, <1>0 DEF requestMemory, IInv, TypeOK
    <2> QED
      BY <2>1 DEF IInv, TypeOK, BlocksInPage, BlocksApart, HeadersIntact,
        LiveBlocksValid, FreedBlocksInvalid
  <1>2. CASE mOffset + total <= BYTES_PER_PAGE
    <2>1. /\ bytes' = [c \in Cell |->
               IF mOffset <= c /\ c < mOffset + INT_SIZE
               THEN HeaderByte(total, c - mOffset) ELSE bytes[c]]
          /\ validate' = [c \in Cell |->
               validate[c] \/ (mOffset <= c /\ c < mOffset + total)]
          /\ mOffset' = mOffset + total
          /\ blocks' = blocks \cup {block}
          /\ overrun' = overrun
      BY <1>2, <1>0 DEF requestMemory, IInv, TypeOK
    <2>2. /\ mOffset \in Nat /\ total \in Nat /\ total >= INT_SIZE
          /\ block \in Block
          /\ block.start = mOffset /\ block.end = mOffset + total /\ block.live
      BY <1>0 DEF IInv, TypeOK, Block
    <2> HIDE DEF block, total
    <2>3. ASSUME NEW b \in blocks
          PROVE  /\ b.start \in Nat /\ b.end \in Nat /\ b.live \in BOOLEAN
                 /\ b.start + INT_SIZE <= b.end /\ b.end <= mOffset
                 /\ b.end <= BYTES_PER_PAGE
      BY DEF IInv, TypeOK, Block, BlocksInPage
    <2>4. TypeOK'
      <3>1. ASSUME NEW c \in Cell, mOffset <= c, c < mOffset + INT_SIZE
            PROVE  HeaderByte(total, c - mOffset) \in Byte
        <4>1. c - mOffset \in 0 .. INT_SIZE - 1
          BY <3>1, <2>2, <1>0 DEF Cell
        <4> QED BY <4>1, <2>2, HeaderBytes
      <3>2. bytes' \in [Cell -> Byte]
        BY <3>1, <2>1 DEF IInv, TypeOK
      <3>3. validate' \in [Cell -> BOOLEAN]
        BY <2>1 DEF IInv, TypeOK
      <3> QED
        <4>1. mOffset' \in Nat /\ blocks' \subseteq Block /\ overrun' \in BOOLEAN
          BY <2>1, <2>2 DEF IInv, TypeOK
        <4> QED BY <3>2, <3>3, <4>1 DEF TypeOK
    <2>5. BlocksInPage'
      BY <2>1, <2>2, <2>3, <1>2, <1>0 DEF BlocksInPage
    <2>6. BlocksApart'
      <3> SUFFICES ASSUME NEW b \in blocks', NEW d \in blocks'
                   PROVE  b = d \/ b.end <= d.start \/ d.end <= b.start
        BY DEF BlocksApart
      <3>1. CASE b \in blocks /\ d \in blocks
        BY <3>1 DEF IInv, BlocksApart
      <3>2. CASE b \in blocks /\ d = block
        BY <3>2, <2>2, <2>3
      <3>3. CASE b = block /\ d \in blocks
        BY <3>3, <2>2, <2>3
      <3> QED BY <3>1, <3>2, <3>3, <2>1
    <2>7. HeadersIntact'
      <3>1. ASSUME NEW b \in blocks PROVE bytes'[b.start] = bytes[b.start]
        BY <2>1, <2>2, <2>3, <1>0 DEF Cell
      <3>2. bytes'[mOffset] = total % BYTE
        <4>1. bytes'[mOffset] = HeaderByte(total, mOffset - mOffset)
          BY <2>1, <2>2, <1>2, <1>0 DEF Cell
        <4>2. mOffset - mOffset = 0
          BY <2>2
        <4> QED BY <4>1, <4>2, <2>2, HeaderBytes
      <3>3. (mOffset + total) - mOffset = total
        BY <2>2
      <3> QED
        BY <3>1, <3>2, <3>3, <2>1, <2>2 DEF IInv, HeadersIntact
    <2>8. LiveBlocksValid'
      <3> SUFFICES ASSUME NEW b \in blocks', b.live, NEW c \in Cell,
                          b.start <= c, c < b.end
                   PROVE  validate'[c]
        BY DEF LiveBlocksValid
      <3>1. CASE b \in blocks
        BY <3>1, <2>1 DEF IInv, LiveBlocksValid
      <3>2. CASE b = block
        BY <3>2, <2>1, <2>2
      <3> QED BY <3>1, <3>2, <2>1
    <2>9. FreedBlocksInvalid'
      <3>1. ASSUME NEW b \in blocks, NEW c \in Cell, b.start <= c, c < b.end
            PROVE  validate'[c] = validate[c]
        BY <3>1, <2>1, <2>2, <2>3 DEF Cell, IInv, TypeOK
      <3>2. \A b \in blocks' : ~b.live => b \in blocks
        BY <2>1, <2>2
      <3> QED
        BY <3>1, <3>2 DEF IInv, FreedBlocksInvalid
    <2> QED
      BY <2>4, <2>5, <2>6, <2>7, <2>8, <2>9 DEF IInv
  <1> QED
    BY <1>0, <1>1, <1>2 DEF IInv, TypeOK

(* The flags taken down are those of the block itself: the size read is at   *)
(* most its size, and no other block shares its bytes.                       *)
LEMMA InvalidateInv ==
  ASSUME IInv, NEW block \in blocks, invalidateMemory(block) PROVE IInv'
  <1> DEFINE size == bytes[block.start]
             freed == [block EXCEPT !.live = FALSE]
  <1>0. INT_SIZE \in Nat /\ INT_SIZE > 0 /\ BYTES_PER_PAGE \in Nat
    BY HeaderAssumption, PageAssumption
  <1>1. /\ validate' = [c \in Cell |->
             validate[c] /\ ~(block.start <= c /\ c < block.start + size)]
        /\ blocks' = (blocks \ {block}) \cup {freed}
        /\ bytes' = bytes /\ mOffset' = mOffset /\ overrun' = overrun
        /\ block.live
    BY DEF invalidateMemory
  <1>2. ASSUME NEW b \in blocks
        PROVE  /\ b.start \in Nat /\ b.end \in Nat /\ b.live \in BOOLEAN
               /\ b.start + INT_SIZE <= b.end /\ b.end <= mOffset
               /\ b.end <= BYTES_PER_PAGE
    BY DEF IInv, TypeOK, Block, BlocksInPage
  <1>3. /\ freed \in Block /\ freed.start = block.start
        /\ freed.end = block.end /\ freed.live = FALSE
    BY DEF IInv, TypeOK, Block
  <1>4. /\ size = (block.end - block.start) % BYTE /\ size \in Nat
        /\ block.start + size <= block.end
    <2>1. size = (block.end - block.start) % BYTE
      BY DEF IInv, HeadersIntact
    <2>2. block.end - block.start \in Nat
      BY <1>2, <1>0
    <2>3. size \in Byte /\ size <= block.end - block.start
      BY <2>1, <2>2, Remainder
    <2>4. size \in Nat
      BY <2>3, ByteAssumption DEF Byte
    <2> QED BY <2>1, <2>3, <2>4, <1>2
  <1>5. TypeOK'
    BY <1>1, <1>3 DEF IInv, TypeOK
  <1>6. BlocksInPage'
    BY <1>1, <1>2, <1>3 DEF BlocksInPage
  <1>7. BlocksApart'
    <2> SUFFICES ASSUME NEW b \in blocks', NEW d \in blocks'
                 PROVE  b = d \/ b.end <= d.start \/ d.end <= b.start
      BY DEF BlocksApart
    <2>1. CASE b \in blocks \ {block} /\ d \in blocks \ {block}
      BY <2>1 DEF IInv, BlocksApart
    <2>2. CASE b = freed /\ d \in blocks \ {block}
      BY <2>2, <1>3 DEF IInv, BlocksApart
    <2>3. CASE b \in blocks \ {block} /\ d = freed
      BY <2>3, <1>3 DEF IInv, BlocksApart
    <2> QED BY <2>1, <2>2, <2>3, <1>1
  <1>8. HeadersIntact'
    BY <1>1, <1>3 DEF IInv, HeadersIntact
  <1>9. ASSUME NEW b \in blocks, b # block, NEW c \in Cell, b.start <= c, c < b.end
        PROVE  validate'[c] = validate[c]
    <2>1. b.end <= block.start \/ block.end <= b.start
      BY <1>9 DEF IInv, BlocksApart
    <2>2. ~(block.start <= c /\ c < block.start + size)
      BY <2>1, <1>2, <1>4, <1>9 DEF Cell
    <2>3. validate'[c] = (validate[c] /\ ~(block.start <= c /\ c < block.start + size))
      BY <1>1
    <2> QED BY <2>2, <2>3 DEF IInv, TypeOK
  <1>10. LiveBlocksValid'
    <2> SUFFICES ASSUME NEW b \in blocks', b.live, NEW c \in Cell,
                        b.start <= c, c < b.end
                 PROVE  validate'[c]
      BY DEF LiveBlocksValid
    <2>1. b \in blocks /\ b # block
      BY <1>1, <1>3
    <2> QED BY <2>1, <1>9 DEF IInv, LiveBlocksValid
  <1>11. FreedBlocksInvalid'
    <2> SUFFICES ASSUME NEW b \in blocks', ~b.live, NEW c \in Cell,
                        b.start <= c, c < b.end
                 PROVE  validate'[c] <=> c - b.start >= (b.end - b.start) % BYTE
      BY DEF FreedBlocksInvalid
    <2>1. CASE b \in blocks /\ b # block
      BY <2>1, <1>9 DEF IInv, FreedBlocksInvalid
    <2>2. CASE b = freed
      <3>1. validate[c]
        BY <2>2, <1>1, <1>3 DEF IInv, LiveBlocksValid
      <3>2. validate'[c] <=> ~(block.start <= c /\ c < block.start + size)
        BY <3>1, <1>1
      <3>3. ~(block.start <= c /\ c < block.start + size) <=> c - block.start >= size
        BY <2>2, <1>2, <1>3, <1>4 DEF Cell
      <3> QED BY <2>2, <3>2, <3>3, <1>3, <1>4
    <2> QED BY <2>1, <2>2, <1>1
  <1> QED
    BY <1>5, <1>6, <1>7, <1>8, <1>10, <1>11 DEF IInv

(* What the program writes into its block reaches no header. *)
LEMMA UseInv ==
  ASSUME IInv, NEW block \in blocks, Use(block) PROVE IInv'
  <1>0. INT_SIZE \in Nat /\ INT_SIZE > 0
    BY HeaderAssumption
  <1>1. PICK c \in Cell, v \in Byte :
          /\ block.start + INT_SIZE <= c /\ c < block.end
          /\ bytes' = [bytes EXCEPT ![c] = v]
    BY DEF Use
  <1>2. UNCHANGED <<validate, mOffset, blocks, overrun>>
    BY DEF Use
  <1>3. ASSUME NEW b \in blocks
        PROVE  /\ b.start \in Nat /\ b.end \in Nat
               /\ b.start + INT_SIZE <= b.end
    BY DEF IInv, TypeOK, Block, BlocksInPage
  <1>4. ASSUME NEW b \in blocks PROVE b.start # c
    <2>1. b = block \/ b.end <= block.start \/ block.end <= b.start
      BY DEF IInv, BlocksApart
    <2> QED BY <2>1, <1>0, <1>1, <1>3 DEF Cell
  <1>5. HeadersIntact'
    BY <1>1, <1>2, <1>4 DEF IInv, TypeOK, HeadersIntact
  <1>6. TypeOK'
    BY <1>1, <1>2 DEF IInv, TypeOK
  <1> QED
    BY <1>2, <1>5, <1>6
    DEF IInv, BlocksInPage, BlocksApart, LiveBlocksValid, FreedBlocksInvalid

(* The inductive invariant holds of every behaviour. *)
LEMMA Inductive == Spec => []IInv
  <1>1. ASSUME IInv, [Next]_vars PROVE IInv'
    <2>1. CASE UNCHANGED vars
      BY <1>1, <2>1 DEF vars, IInv, TypeOK, BlocksInPage, BlocksApart,
        HeadersIntact, LiveBlocksValid, FreedBlocksInvalid
    <2>2. CASE Next
      BY <1>1, <2>2, RequestInv, InvalidateInv, UseInv DEF Next
    <2> QED BY <1>1, <2>1, <2>2
  <1> QED
    BY <1>1, InitInv, PTL DEF Spec

(* requestMemory never hands out a byte twice, on any page. *)
THEOREM AllocationsApart == Spec => []BlocksApart
  BY Inductive, PTL DEF IInv

(* invalidateMemory never takes down a flag of a block in use. *)
THEOREM LiveStaysValid == Spec => []LiveBlocksValid
  BY Inductive, PTL DEF IInv

(* invalidateMemory takes down exactly the first size % 256 flags. *)
THEOREM FreedFlags == Spec => []FreedBlocksInvalid
  BY Inductive, PTL DEF IInv
============================================================================
