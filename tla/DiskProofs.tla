----------------------------- MODULE DiskProofs -----------------------------
(***************************************************************************)
(* Theorems about Disk, for every number and size of sectors and every     *)
(* lateness smaller than the margin.                                       *)
(***************************************************************************)
EXTENDS Disk, TLAPS

(* While the user waits, either the one timer is still under way and the user *)
(* has MARGIN more to wait than it, or the head is there.                     *)
OneTimer(left) == timers = {[sector |-> request, left |-> left]}
OnItsWay ==
  \E left \in Int : OneTimer(left) /\ wait = left + MARGIN /\ left >= -LATENESS
Arrived == timers = {} /\ mCurrentSector = request
IInv ==
  /\ TypeOK
  /\ user = "idle" => timers = {}
  /\ user = "waiting" => OnItsWay \/ Arrived
  /\ user = "there" => Arrived

(* The head travels forward, at least one sector and at most once around.     *)
LEMMA Travel ==
  ASSUME NEW c \in Sector, NEW s \in Sector
  PROVE  NbSectorToTravel(c, s) \in 1 .. NUMBER_OF_SECTORS
BY SizeAssumption DEF Sector, NbSectorToTravel

(* The bytes of the sectors are bytes of the drive...                         *)
LEMMA InDrive ==
  ASSUME NEW s \in Sector, NEW i \in 0 .. SECTOR_SIZE - 1
  PROVE  GetIndex(s) + i \in Index
<1>1. PICK n \in Nat : NUMBER_OF_SECTORS = s + 1 + n
  BY SizeAssumption DEF Sector
<1>2. TOTAL_SIZE = s * SECTOR_SIZE + SECTOR_SIZE + n * SECTOR_SIZE
  BY <1>1, SizeAssumption DEF TOTAL_SIZE, Sector
<1>3. s * SECTOR_SIZE \in Nat /\ n * SECTOR_SIZE \in Nat
  BY <1>1, SizeAssumption DEF Sector
<1> QED
  BY <1>2, <1>3, SizeAssumption DEF GetIndex, Index

(* ... and those of different sectors are different bytes.                    *)
LEMMA Apart ==
  ASSUME NEW s \in Sector, NEW c \in Sector, s # c,
         NEW i \in 0 .. SECTOR_SIZE - 1
  PROVE  GetIndex(s) + i < GetIndex(c) \/ GetIndex(s) + i >= GetIndex(c) + SECTOR_SIZE
<1>1. CASE s < c
  <2>1. PICK n \in Nat : c = s + 1 + n
    BY <1>1 DEF Sector
  <2>2. c * SECTOR_SIZE = s * SECTOR_SIZE + SECTOR_SIZE + n * SECTOR_SIZE
    BY <2>1, SizeAssumption DEF Sector
  <2>3. s * SECTOR_SIZE \in Nat /\ n * SECTOR_SIZE \in Nat
    BY <2>1, SizeAssumption DEF Sector
  <2> QED BY <2>2, <2>3, SizeAssumption DEF GetIndex
<1>2. CASE c < s
  <2>1. PICK n \in Nat : s = c + 1 + n
    BY <1>2 DEF Sector
  <2>2. s * SECTOR_SIZE = c * SECTOR_SIZE + SECTOR_SIZE + n * SECTOR_SIZE
    BY <2>1, SizeAssumption DEF Sector
  <2>3. c * SECTOR_SIZE \in Nat /\ n * SECTOR_SIZE \in Nat
    BY <2>1, SizeAssumption DEF Sector
  <2> QED BY <2>2, <2>3, SizeAssumption DEF GetIndex
<1> QED BY <1>1, <1>2 DEF Sector

(* What is read is data of the file data type.                                *)
LEMMA ReadType ==
  ASSUME mCurrentSector \in Sector, mData \in [Index -> Values]
  PROVE  Read \in FileData
<1>1. \A i \in 0 .. SECTOR_SIZE - 1 : mData[GetIndex(mCurrentSector) + i] \in Values
  BY InDrive
<1> QED BY <1>1 DEF Read, FileData

(* The drive starts with the invariant...                                     *)
LEMMA InitInv == Init => IInv
<1> SUFFICES ASSUME Init PROVE IInv
  OBVIOUS
<1>1. mCurrentSector \in Sector /\ request \in Sector
  BY SizeAssumption DEF Init, Sector
<1>2. readData \in FileData
  BY <1>1, ReadType DEF Init
<1> QED BY <1>1, <1>2 DEF Init, IInv, TypeOK

(* ... and a user with one request at a time keeps it.                        *)
LEMMA StepInv == IInv /\ [Next]_vars => IInv'
<1> SUFFICES ASSUME IInv, [Next]_vars PROVE IInv'
  OBVIOUS
<1> USE TimeAssumption
<1>1. CASE user = "idle" /\ \E s \in Sector : Rotate(s)
  <2>1. PICK s \in Sector : Rotate(s)
    BY <1>1
  <2> DEFINE l == NbSectorToTravel(mCurrentSector, s)
  <2>2. l \in Nat
    BY Travel DEF IInv, TypeOK
  <2>3. timers' = {[sector |-> s, left |-> l]}
    BY <1>1, <2>1 DEF Rotate, IInv
  <2>4. user' = "waiting" /\ request' = s /\ wait' = l + MARGIN
    BY <2>1 DEF Rotate
  <2>5. OnItsWay'
    BY <2>2, <2>3, <2>4 DEF OnItsWay, OneTimer
  <2>6. TypeOK'
    <3>1. timers' \subseteq Timer
      BY <2>2, <2>3 DEF Timer
    <3> QED BY <2>1, <2>2, <2>4, <3>1 DEF Rotate, IInv, TypeOK
  <2> QED BY <2>4, <2>5, <2>6 DEF IInv
<1>2. CASE Tick
  <2>1. user = "waiting" \/ (timers = {} /\ user # "waiting")
    BY DEF IInv, TypeOK, Arrived
  <2>2. CASE user = "waiting" /\ OnItsWay
    <3>1. PICK left \in Int :
            OneTimer(left) /\ wait = left + MARGIN /\ left >= -LATENESS
      BY <2>2 DEF OnItsWay
    <3>2. left > -LATENESS
      BY <1>2, <3>1 DEF Tick, OneTimer
    <3>3. timers' = {[sector |-> request, left |-> left - 1]}
      BY <1>2, <3>1 DEF Tick, OneTimer
    <3>4. wait' = (left - 1) + MARGIN /\ wait' \in Nat
      BY <1>2, <3>1, <3>2 DEF Tick
    <3>5. OnItsWay'
      <4> DEFINE next == left - 1
      <4>1. next \in Int /\ next >= -LATENESS /\ wait' = next + MARGIN
        BY <3>2, <3>4
      <4>2. timers' = {[sector |-> request', left |-> next]}
        BY <1>2, <3>3 DEF Tick
      <4> HIDE DEF next
      <4> QED BY <4>1, <4>2 DEF OnItsWay, OneTimer
    <3>6. timers' \subseteq Timer
      BY <3>3 DEF Timer, IInv, TypeOK
    <3> QED BY <1>2, <2>2, <3>4, <3>5, <3>6 DEF Tick, IInv, TypeOK
  <2>3. CASE timers = {}
    <3>1. timers' = {}
      BY <1>2, <2>3 DEF Tick
    <3>2. wait' \in Nat
      BY <1>2 DEF Tick, IInv, TypeOK
    <3>3. ~OnItsWay
      BY <2>3 DEF OnItsWay, OneTimer
    <3> QED BY <1>2, <2>3, <3>1, <3>2, <3>3 DEF Tick, IInv, TypeOK, Arrived
  <2> QED BY <2>1, <2>2, <2>3 DEF IInv, Arrived
<1>3. CASE \E t \in timers : TimerFires(t)
  <2>1. PICK t \in timers : TimerFires(t)
    BY <1>3
  <2>2. user = "waiting" /\ OnItsWay
    BY <2>1 DEF IInv, TypeOK, Arrived
  <2>3. t.sector = request /\ timers' = {}
    BY <2>1, <2>2 DEF TimerFires, OnItsWay, OneTimer
  <2> QED BY <2>1, <2>2, <2>3 DEF TimerFires, IInv, TypeOK, Arrived
<1>4. CASE Wake
  <2>1. user = "waiting" /\ wait = 0
    BY <1>4 DEF Wake
  <2>2. ~OnItsWay
    BY <2>1 DEF OnItsWay
  <2> QED BY <1>4, <2>1, <2>2 DEF Wake, IInv, TypeOK, Arrived
<1>5. CASE Access
  <2>1. Arrived /\ user = "there"
    BY <1>5 DEF Access, IInv
  <2>2. readData' \in FileData
    BY <1>5, ReadType DEF Access, IInv, TypeOK
  <2>3. mData' \in [Index -> Values]
    <3>1. CASE UNCHANGED mData
      BY <3>1 DEF IInv, TypeOK
    <3>2. ASSUME NEW len \in Lengths, NEW data \in [0 .. len - 1 -> Values],
                 Write(data, len)
          PROVE  mData' \in [Index -> Values]
      <4>1. ASSUME NEW i \in Index, GetIndex(mCurrentSector) <= i,
                   i < GetIndex(mCurrentSector) + len
            PROVE  data[i - GetIndex(mCurrentSector)] \in Values
        <5>1. GetIndex(mCurrentSector) \in Int /\ len \in Nat
          BY SizeAssumption, LengthAssumption
             DEF GetIndex, Sector, IInv, TypeOK
        <5>2. i - GetIndex(mCurrentSector) \in 0 .. len - 1
          BY <4>1, <5>1 DEF Index
        <5> QED BY <5>2
      <4> QED BY <3>2, <4>1 DEF Write, IInv, TypeOK
    <3> QED BY <1>5, <3>1, <3>2 DEF Access
  <2> QED BY <1>5, <2>1, <2>2, <2>3 DEF Access, IInv, TypeOK, Arrived
<1>6. CASE UNCHANGED vars
  BY <1>6 DEF vars, IInv, TypeOK, OnItsWay, OneTimer, Arrived
<1> QED BY <1>1, <1>2, <1>3, <1>4, <1>5, <1>6 DEF Next, Environment

(* A user that waits as main.cpp does finds the head at the sector it asked   *)
(* for, and no timer left to move it: for every drive and every lateness      *)
(* smaller than the margin.                                                   *)
THEOREM HeadArrives == Spec => []ArrivesInTime
<1>1. IInv => ArrivesInTime
  BY DEF IInv, ArrivesInTime, Arrived
<1> QED BY InitInv, StepInv, <1>1, PTL DEF Spec

(* An access to the drive is one to the abstract store when the head is where *)
(* the user asked it to go and the data fits a sector.                        *)
LEMMA AccessRefines ==
  ASSUME TypeOK, Arrived, Access, Lengths \subseteq 1 .. SECTOR_SIZE
  PROVE  Store!Read \/ Store!Write
<1>1. CASE readData' = Read /\ UNCHANGED mData
  <2>1. readData' = [data |-> Content[request], sectorNumber |-> request]
    BY <1>1 DEF Read, Content, Arrived, TypeOK
  <2>2. Content' = Content
    BY <1>1 DEF Content
  <2> QED BY <2>1, <2>2, <1>1 DEF Store!Read, Access
<1>2. ASSUME NEW len \in Lengths, NEW data \in [0 .. len - 1 -> Values],
             Write(data, len), UNCHANGED readData
      PROVE  Store!Write
  <2> DEFINE new == [i \in 0 .. SECTOR_SIZE - 1 |->
                       IF i < len THEN data[i] ELSE Content[request][i]]
  <2>1. len \in 1 .. SECTOR_SIZE
    BY <1>2
  <2>2. ASSUME NEW s \in Sector
        PROVE  Content'[s] = [Content EXCEPT ![request] = new][s]
    <3>1. CASE s # request
      <4>1. ASSUME NEW i \in 0 .. SECTOR_SIZE - 1
            PROVE  mData'[GetIndex(s) + i] = mData[GetIndex(s) + i]
        <5>1. GetIndex(s) + i \in Index
          BY InDrive
        <5>2. \/ GetIndex(s) + i < GetIndex(mCurrentSector)
              \/ GetIndex(s) + i >= GetIndex(mCurrentSector) + SECTOR_SIZE
          BY <3>1, Apart DEF Arrived, TypeOK
        <5>3. GetIndex(s) \in Int /\ GetIndex(mCurrentSector) \in Int
          BY SizeAssumption DEF GetIndex, Sector, TypeOK
        <5>4. ~(/\ GetIndex(mCurrentSector) <= GetIndex(s) + i
                /\ GetIndex(s) + i < GetIndex(mCurrentSector) + len)
          BY <2>1, <5>2, <5>3, SizeAssumption
        <5> QED BY <1>2, <5>1, <5>4 DEF Write
      <4>2. Content'[s] = Content[s]
        BY <4>1 DEF Content
      <4>3. request \in Sector /\ Content \in [Sector -> [0 .. SECTOR_SIZE - 1 -> Values]]
        BY InDrive DEF TypeOK, Content
      <4> HIDE DEF new
      <4> QED BY <3>1, <4>2, <4>3
    <3>2. CASE s = request
      <4>1. ASSUME NEW i \in 0 .. SECTOR_SIZE - 1
            PROVE  mData'[GetIndex(s) + i] = new[i]
        <5>1. GetIndex(s) + i \in Index
          BY InDrive
        <5>2. GetIndex(s) \in Int /\ s = mCurrentSector
          BY <3>2, SizeAssumption DEF GetIndex, Sector, Arrived
        <5>3. mData'[GetIndex(s) + i] =
                IF i < len THEN data[i] ELSE mData[GetIndex(s) + i]
          <6> DEFINE g == GetIndex(s)
          <6>1. mData'[g + i] = IF g <= g + i /\ g + i < g + len
                                THEN data[(g + i) - g] ELSE mData[g + i]
            BY <1>2, <5>1, <5>2 DEF Write
          <6>2. g <= g + i /\ (g + i < g + len <=> i < len) /\ (g + i) - g = i
            BY <2>1, <5>2
          <6> HIDE DEF g
          <6>3. mData'[g + i] = IF i < len THEN data[i] ELSE mData[g + i]
            BY <6>1, <6>2
          <6> QED BY <6>3 DEF g
        <5>4. Content[request][i] = mData[GetIndex(s) + i]
          BY <3>2 DEF Content
        <5> QED BY <5>3, <5>4
      <4>2. Content'[s] = new
        BY <4>1 DEF Content
      <4>3. request \in Sector /\ Content \in [Sector -> [0 .. SECTOR_SIZE - 1 -> Values]]
        BY InDrive DEF TypeOK, Content
      <4> HIDE DEF new
      <4> QED BY <3>2, <4>2, <4>3
    <3> QED BY <3>1, <3>2
  <2>3. Content' = [Content EXCEPT ![request] = new]
    <3>1. DOMAIN Content' = Sector /\ Content' = [s \in Sector |-> Content'[s]]
      BY DEF Content
    <3>2. DOMAIN Content = Sector
      BY DEF Content
    <3> HIDE DEF new
    <3> QED BY <2>2, <3>1, <3>2
  <2>4. UNCHANGED <<request, readData>>
    BY <1>2 DEF Access
  <2> QED BY <2>1, <2>3, <2>4 DEF Store!Write, Store!Offset
<1> QED BY <1>1, <1>2 DEF Access

(* The drive with such a user implements the store of sectors, as long as no  *)
(* data is longer than a sector.                                              *)
THEOREM DriveIsStore ==
  ASSUME Lengths \subseteq 1 .. SECTOR_SIZE
  PROVE  Spec => ImplementsStore
<1>1. Init => Store!Init
  <2> SUFFICES ASSUME Init PROVE Store!Init
    OBVIOUS
  <2>1. IInv
    BY InitInv
  <2>2. Content \in [Sector -> [0 .. SECTOR_SIZE - 1 -> Values]]
    BY <2>1, InDrive DEF IInv, TypeOK, Content
  <2> QED BY <2>1, <2>2 DEF Store!Init, Store!Offset, IInv, TypeOK, FileData
<1>2. IInv /\ [Next]_vars => [Store!Ask \/ Store!Read \/ Store!Write]_<<Content, request, readData>>
  <2> SUFFICES ASSUME IInv, [Next]_vars
               PROVE  [Store!Ask \/ Store!Read \/ Store!Write]_<<Content, request, readData>>
    OBVIOUS
  <2>1. CASE \E s \in Sector : Rotate(s)
    BY <2>1 DEF Rotate, Content, Store!Ask
  <2>2. CASE Access
    BY <2>2, AccessRefines DEF IInv, Access
  <2>3. CASE UNCHANGED <<mData, request, readData>>
    BY <2>3 DEF Content
  <2> QED BY <2>1, <2>2, <2>3
          DEF Next, Environment, Tick, TimerFires, Wake, vars
<1> QED BY InitInv, StepInv, <1>1, <1>2, PTL DEF Spec, ImplementsStore, Store!Spec
============================================================================
