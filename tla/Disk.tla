-------------------------------- MODULE Disk --------------------------------
(***************************************************************************)
(* The simulated hard drive (Tostitos/machine/hardDrive.h, hardDrive.cpp)  *)
(* with the detached timer threads of internalHelperFunctions.h and a user *)
(* of the drive written like the ones in main.cpp.                         *)
(*                                                                         *)
(* Rotate starts a thread that sleeps for the time of the rotation and     *)
(* then assigns mCurrentSector; it returns at once, with that time.  The   *)
(* user sleeps for the time returned and a margin, then reads or writes    *)
(* whatever sector is the current one.                                     *)
(*                                                                         *)
(* Time is counted in rotations by one sector.  A thread that sleeps wakes *)
(* up when its time is over, or later: LATENESS bounds how much later the  *)
(* operating system may start it.                                          *)
(***************************************************************************)
EXTENDS Integers, FiniteSets

CONSTANTS
  NUMBER_OF_SECTORS, SECTOR_SIZE,
  Values,       \* what a byte may hold
  Lengths,      \* lengths of the data given to Write
  MARGIN,       \* what the user adds to the time returned by Rotate
  LATENESS      \* how late a timer may fire

Sector == 0 .. NUMBER_OF_SECTORS - 1
TOTAL_SIZE == NUMBER_OF_SECTORS * SECTOR_SIZE
Index == 0 .. TOTAL_SIZE - 1

ASSUME SizeAssumption ==
  /\ NUMBER_OF_SECTORS \in Nat \ {0}
  /\ SECTOR_SIZE \in Nat \ {0}
ASSUME LengthAssumption == Lengths \subseteq Nat \ {0}
(* main.cpp waits a second more, which is a hundred sectors.                  *)
ASSUME TimeAssumption == LATENESS \in Nat /\ MARGIN \in Nat /\ LATENESS < MARGIN

VARIABLES
  mCurrentSector,
  mData,
  timers,      \* timer threads under way: [sector, left]
  user,        \* "idle", "waiting" for a rotation, "there" when it is over
  request,     \* the sector the user asked for last
  wait,        \* how long the user goes on sleeping
  readData     \* what the user read last

vars == <<mCurrentSector, mData, timers, user, request, wait, readData>>

FileData == [data : [0 .. SECTOR_SIZE - 1 -> Values], sectorNumber : Sector]
Timer == [sector : Sector, left : Int]

TypeOK ==
  /\ mCurrentSector \in Sector
  /\ mData \in [Index -> Values]
  /\ timers \subseteq Timer
  /\ user \in {"idle", "waiting", "there"}
  /\ request \in Sector
  /\ wait \in Nat
  /\ readData \in FileData

GetIndex(sectorNumber) == sectorNumber * SECTOR_SIZE

(* What Read returns: a copy of the current sector and its number. *)
Read ==
  [data |-> [i \in 0 .. SECTOR_SIZE - 1 |-> mData[GetIndex(mCurrentSector) + i]],
   sectorNumber |-> mCurrentSector]

(* Both constructors: a drive filled with zeros, or with the data given; and  *)
(* a user that has read its first sector.                                     *)
Init ==
  /\ mCurrentSector = 0
  /\ mData \in [Index -> Values]
  /\ timers = {}
  /\ user = "idle"
  /\ request = 0
  /\ wait = 0
  /\ readData = Read

----------------------------------------------------------------------------
(* Forward only: to a sector that is not ahead, and to the current one too,  *)
(* around the disk.                                                          *)
NbSectorToTravel(current, sectorNumber) ==
  IF sectorNumber > current
  THEN sectorNumber - current
  ELSE (NUMBER_OF_SECTORS - current) + sectorNumber

(* Mutant: the time returned for the sector the head is on is 0, although the *)
(* head goes around.                                                          *)
RotateReturnsShortest(sectorNumber) ==
  LET requiredTime == NbSectorToTravel(mCurrentSector, sectorNumber)
  IN  /\ timers' = timers \cup
           {[sector |-> sectorNumber, left |-> requiredTime]}
      /\ request' = sectorNumber
      /\ wait' = (requiredTime % NUMBER_OF_SECTORS) + MARGIN
      /\ user' = "waiting"
      /\ UNCHANGED <<mCurrentSector, mData, readData>>

(* Rotate is called with a sector of the disk (it asserts so). *)
Rotate(sectorNumber) ==
  LET requiredTime == NbSectorToTravel(mCurrentSector, sectorNumber)
  IN  /\ timers' = timers \cup
           {[sector |-> sectorNumber, left |-> requiredTime]}
      /\ request' = sectorNumber
      /\ wait' = requiredTime + MARGIN
      /\ user' = "waiting"
      /\ UNCHANGED <<mCurrentSector, mData, readData>>

(* Mutant: the function of the timer works on a copy of mCurrentSector. *)
TimerFiresOnCopy(t) ==
  /\ t.left <= 0
  /\ timers' = timers \ {t}
  /\ UNCHANGED <<mCurrentSector, mData, user, request, wait, readData>>

(* The sleeping thread wakes up and runs the function it was given. *)
TimerFires(t) ==
  /\ t.left <= 0
  /\ mCurrentSector' = t.sector
  /\ timers' = timers \ {t}
  /\ UNCHANGED <<mData, user, request, wait, readData>>

Tick ==
  /\ timers # {} \/ wait > 0
  /\ \A t \in timers : t.left > -LATENESS
  /\ timers' = {[sector |-> t.sector, left |-> t.left - 1] :
                  t \in timers}
  /\ wait' = IF wait > 0 THEN wait - 1 ELSE 0
  /\ UNCHANGED <<mCurrentSector, mData, user, request, readData>>

Wake ==
  /\ user = "waiting"
  /\ wait = 0
  /\ user' = "there"
  /\ UNCHANGED <<mCurrentSector, mData, timers, request, wait, readData>>

(* Mutant: one byte too many. *)
WriteOneMore(data, len) ==
  LET index == GetIndex(mCurrentSector)
  IN  mData' = [i \in Index |->
        IF index <= i /\ i <= index + len THEN data[0] ELSE mData[i]]

(* All of the data is copied to the start of the current sector, whatever     *)
(* sector the data says it is from and however long it is.  What would go     *)
(* past the end of the drive is outside of the model.                         *)
Write(data, len) ==
  LET index == GetIndex(mCurrentSector)
  IN  mData' = [i \in Index |->
        IF index <= i /\ i < index + len THEN data[i - index] ELSE mData[i]]

Access ==
  /\ user = "there"
  /\ \/ readData' = Read /\ UNCHANGED mData
     \/ /\ \E len \in Lengths : \E data \in [0 .. len - 1 -> Values] :
             Write(data, len)
        /\ UNCHANGED readData
  /\ user' = "idle"
  /\ UNCHANGED <<mCurrentSector, timers, request, wait>>

----------------------------------------------------------------------------
Environment == Tick \/ (\E t \in timers : TimerFires(t)) \/ Wake \/ Access

(* A user that has one request at a time, as hardDrive.h:40 demands. *)
Next ==
  \/ user = "idle" /\ \E s \in Sector : Rotate(s)
  \/ Environment
Spec == Init /\ [][Next]_vars
FairSpec == Spec /\ WF_vars(Environment)

----------------------------------------------------------------------------
(* Properties. *)

(* A user that waits for the time Rotate returned and a margin larger than a  *)
(* timer's lateness finds the head where it asked it to go: the timer thread  *)
(* has run, and no timer is left to move the head during the access.          *)
ArrivesInTime ==
  user = "there" => mCurrentSector = request /\ timers = {}

(* Reads and writes of such a user are those of a store of sectors.           *)
Content ==
  [s \in Sector |-> [i \in 0 .. SECTOR_SIZE - 1 |-> mData[GetIndex(s) + i]]]
Store ==
  INSTANCE SectorStore WITH content <- Content, answer <- readData
ImplementsStore == Store!Spec

(* A head that is asked to move gets there and the user gets its access.      *)
RequestServed == user = "waiting" ~> (user = "there" /\ mCurrentSector = request)
============================================================================
